------------------------------- MODULE Messages -------------------------------
(***************************************************************************)
(* The readers and writers of configuration files, HTTP and DNS messages   *)
(* (Parsers/KvConfig.c, Http.c, Dns.c).  Memory never runs out here.       *)
(***************************************************************************)
EXTENDS Scan

CONSTANT HeadersMax   \* HTTP_REQUEST_HEADERS_MAX

(***************************************************************************)
(* The reader of `key = value` files (Parsers/KvConfig.c).  A cursor is    *)
(* the text in front of it.  A configuration is a function from its keys   *)
(* to their values: KvConfig is a Map that keeps one value of a key.       *)
(***************************************************************************)

kvconfig_is_space == {" ", "\t", "\r"}
kvconfig_is_comment_start == {"#", ";"}
Found(rest, text) == [rest |-> rest, text |-> text]

kvconfig_consume_line_end(s) ==
    LET t == IF OneOf(s, {"\r"}) THEN Tail(s) ELSE s IN IF OneOf(t, {"\n"}) THEN Tail(t) ELSE t
KvConfigSkipWhitespace(s) == From(s, Leading(s, kvconfig_is_space))
KvConfigSkipLine(s) == kvconfig_consume_line_end(From(s, Leading(s, AllChars \ {"\n"})))

KvConfigReadKey(s) ==
    LET t == KvConfigSkipWhitespace(s)
        n == Leading(t, AllChars \ ({"=", ":", "\n"} \cup kvconfig_is_space \cup kvconfig_is_comment_start))
    IN  IF n = 0 THEN Found(s, << >>) ELSE Found(From(t, n), SubSeq(t, 1, n))

\* An escaped character stands for itself, but for three.
ConfigEscape(c) == CASE c = "n" -> "\n" [] c = "r" -> "\r" [] c = "t" -> "\t" [] OTHER -> c

RECURSIVE QuotedFrom(_, _, _, _)
QuotedFrom(start, s, quote, value) ==
    CASE s = << >> \/ s = <<"\\">> -> Found(start, << >>)
      [] OneOf(s, {quote}) -> Found(Tail(s), value)
      [] s # << >> /\ s # <<"\\">> /\ s[1] = "\\" -> QuotedFrom(start, From(s, 2), quote, Append(value, ConfigEscape(s[2])))
      [] OTHER -> QuotedFrom(start, Tail(s), quote, Append(value, s[1]))

\* Up to the end of the line, or to a comment behind white space.
PlainFrom(t) ==
    LET end == Leading(t, AllChars \ {"\n"})
        comments == {i \in 1..end - 1 : t[i + 1] \in kvconfig_is_comment_start /\ t[i] \in kvconfig_is_space}
    IN  IF comments = {} THEN Found(From(t, end), strip_str(SubSeq(t, 1, end), DefaultStrip, 0))
        ELSE Found(From(t, Min(comments)), strip_str(SubSeq(t, 1, Min(comments)), kvconfig_is_space, 1))

KvConfigReadValue(s) ==
    LET t == KvConfigSkipWhitespace(s)
    IN  CASE t = << >> \/ OneOf(t, {"\n"} \cup kvconfig_is_comment_start) -> Found(t, << >>)
          [] OneOf(t, {"\"", "'"}) -> QuotedFrom(s, Tail(t), t[1], << >>)
          [] OTHER -> PlainFrom(t)

Pair(rest, key, value) == [rest |-> rest, key |-> key, value |-> value]

\* A quoted value that is not closed leaves the cursor in front of its quote,
\* which is then an unexpected character.
KvConfigReadPair(s) ==
    LET key == KvConfigReadKey(s)
        sign == KvConfigSkipWhitespace(key.rest)
        value == KvConfigReadValue(Tail(sign))
        end == KvConfigSkipWhitespace(value.rest)
    IN  CASE key.rest = s -> Pair(s, key.text, << >>)
          [] key.rest # s /\ ~OneOf(sign, {"=", ":"}) -> Pair(s, << >>, << >>)
          [] OTHER -> IF end = << >> THEN Pair(end, key.text, value.text)
                      ELSE IF end[1] \in kvconfig_is_comment_start THEN Pair(KvConfigSkipLine(end), key.text, value.text)
                      ELSE IF end[1] # "\n" THEN Pair(s, << >>, << >>)
                      ELSE Pair(kvconfig_consume_line_end(end), key.text, value.text)

MapSetOnly(cfg, key, value) == [k \in DOMAIN cfg \cup {key} |-> IF k = key THEN value ELSE cfg[k]]

\* A line that is none takes the cursor back to the start; the pairs in front
\* of it stay in the configuration.
RECURSIVE ParseFrom(_, _, _)
ParseFrom(start, s, cfg) ==
    LET t == From(s, Leading(s, kvconfig_is_space \cup {"\n"}))
        pair == KvConfigReadPair(t)
    IN  CASE t = << >> -> [rest |-> t, cfg |-> cfg]
          [] OneOf(t, kvconfig_is_comment_start) -> ParseFrom(start, KvConfigSkipLine(t), cfg)
          [] OTHER -> IF pair.rest = t THEN [rest |-> start, cfg |-> cfg]
                      ELSE ParseFrom(start, pair.rest, MapSetOnly(cfg, pair.key, pair.value))
KvConfigParse(s, cfg) == ParseFrom(s, s, cfg)

\* KvConfigGetPtr, NULL being << >>, and the accessors that go through it.
kvconfig_get_ptr_str(cfg, key) == IF key \in DOMAIN cfg THEN <<cfg[key]>> ELSE << >>
kvconfig_get_str(cfg, key) == IF key \in DOMAIN cfg THEN cfg[key] ELSE << >>
kvconfig_contains_str(cfg, key) == kvconfig_get_ptr_str(cfg, key) # << >>

kvconfig_parse_bool_value(value) ==
    LET Is(word) == str_cmp_str_ignore_case(value, Chars(word)) = 0
    IN  CASE \E word \in {"true", "yes", "on", "1"} : Is(word) -> Parsed(TRUE)
          [] \E word \in {"false", "no", "off", "0"} : Is(word) -> Parsed(FALSE)
          [] OTHER -> NotParsed

\* The number must reach the terminator, and a value without characters has
\* none to reach.
Reaches(number, value) == IF number.used = 0 \/ number.used < ZstrLen(value) THEN NotParsed ELSE Parsed(number.v)
kvconfig_parse_i64_value(value) == Reaches(ZstrInteger(Zstr(value)), value)
kvconfig_parse_f64_value(value) == Reaches(ZstrToF64(Zstr(value)), value)

kvconfig_get_bool_str(cfg, key) == IF kvconfig_contains_str(cfg, key) THEN kvconfig_parse_bool_value(cfg[key]) ELSE NotParsed
kvconfig_get_i64_str(cfg, key) == IF kvconfig_contains_str(cfg, key) THEN kvconfig_parse_i64_value(cfg[key]) ELSE NotParsed
kvconfig_get_f64_str(cfg, key) == IF kvconfig_contains_str(cfg, key) THEN kvconfig_parse_f64_value(cfg[key]) ELSE NotParsed

-----------------------------------------------------------------------------

\* Lines with the pair each one sets; two set none and the last three are no
\* lines of a configuration.
Sets(text, key, value) == [text |-> Chars(text), pair |-> << <<Chars(key), Chars(value)>> >>]
ConfigLines ==
    <<Sets("k = v", "k", "v"), Sets("k:'a # b'", "k", "a # b"), Sets("  b=\"\\\"\\n\"  ; c", "b", "\"\n"),
      Sets("k = a#b ;x", "k", "a#b"), Sets("b =", "b", ""), Sets("\t b=c d \t# k = v", "b", "c d"),
      [text |-> Chars("# k = v"), pair |-> << >>], [text |-> << >>, pair |-> << >>]>>
BadLines == {Chars("k v"), Chars("= x"), Chars("k = 'v"), Chars("b = \"v\" w"), Chars("b # = c")}

\* A document sets what its lines set, the last one of a key winning, whatever
\* ends its lines; a line that is none gives the whole text back, with the
\* pairs in front of it set.
LinesSound(lines, end) ==
    LET Text2(ks) == FlattenSeq([k \in DOMAIN ks |-> ConfigLines[ks[k]].text \o end])
        pairs == FlattenSeq([k \in DOMAIN lines |-> ConfigLines[lines[k]].pair])
        before == (Chars("z") :> Chars("1"))
        after == FoldLeft(LAMBDA cfg, pair : MapSetOnly(cfg, pair[1], pair[2]), before, pairs)
        all == Text2(lines)
    IN  /\ KvConfigParse(all, before) = [rest |-> << >>, cfg |-> after]
        /\ KvConfigParse(SubSeq(all, 1, Len(all) - Len(end)), before) = [rest |-> << >>, cfg |-> after]
        /\ \A bad \in BadLines : KvConfigParse(all \o bad \o end \o all, before) = [rest |-> all \o bad \o end \o all, cfg |-> after]

\* A setting is the number it is written as, and no number with anything
\* behind it; a word is a truth value in any case.
SettingSound(n) ==
    LET Value(text) == KvConfigParse(Chars("k = ") \o text \o Chars(" # n\n"), << >>).cfg
        key == Chars("k")
        text == (IF n < 0 THEN <<"-">> ELSE << >>) \o Decimal(IF n < 0 THEN -n ELSE n)
    IN  /\ kvconfig_get_i64_str(Value(text), key) = Parsed(n)
        /\ SameDec(kvconfig_get_f64_str(Value(text \o Chars(".0")), key).v, Dec(n < 0, IF n < 0 THEN -n ELSE n, 0))
        /\ \A more \in {"x", " 1", ".0", ","} : ~kvconfig_get_i64_str(Value(text \o Chars(more)), key).ok
        /\ ~kvconfig_get_f64_str(Value(text \o <<"f">>), key).ok
        /\ kvconfig_get_bool_str(Value(text), key) = (CASE n = 0 -> Parsed(FALSE) [] n = 1 -> Parsed(TRUE) [] OTHER -> NotParsed)
        /\ ~kvconfig_get_i64_str(Value(text), Chars("K")).ok
        /\ \A word \in {"true", "YES", "oN", "False", "no", "OFF"} :
             kvconfig_get_bool_str(Value(Chars(word)), key) = Parsed(word \in {"true", "YES", "oN"})

ConfigSound(input) ==
    CASE input.kind = "config" -> LinesSound(input.lines, input.end)
      [] input.kind = "setting" -> SettingSound(input.n)
      [] OTHER -> TRUE

(***************************************************************************)
(* HTTP/1.1 requests read and responses written (Parsers/Http.c).  The     *)
(* cursor of the parser is the text in front of it; a failure gives back   *)
(* the text it was given, and what was read so far stays in the request.   *)
(* The wording of the status codes is left out.                            *)
(***************************************************************************)

CRLF == <<"\r", "\n">>
HttpHeader(key, value) == [key |-> key, value |-> value]
HttpRequestInit == [method |-> "UNKNOWN", url |-> << >>, headers |-> << >>]
Methods == {"GET", "POST", "DELETE", "PUT", "PATCH", "HEAD", "OPTIONS", "CONNECT", "TRACE"}

\* The first one, or << >> for NULL.
http_headers_find_zstr(headers, key) ==
    LET hits == {k \in DOMAIN headers : ZstrCompare(Zstr(headers[k].key), key) = 0}
    IN  IF hits = {} THEN << >> ELSE <<headers[Min(hits)]>>
http_headers_find_str(headers, key) == http_headers_find_zstr(headers, Zstr(key))

http_request_method_from_str(mstr) ==
    IF \E method \in Methods : Chars(method) = mstr THEN CHOOSE method \in Methods : Chars(method) = mstr ELSE "UNKNOWN"

\* What a Str holds once `values` is read behind what it held.
Grown(was, values, k) ==
    IF Len(values) < k THEN was
    ELSE IF values[k] = Kept THEN was ELSE IF values[k][1] = Released THEN Released ELSE was \o values[k][1]

RECURSIVE HeadersFrom(_, _, _)
HeadersFrom(start, s, req) ==
    LET line == str_read_fmt(s, Chars("{}: {}\r\n"), <<"Str", "Str">>, << >>)
    IN  IF ZstrCompareN(s, CRLF, 2) = 0 THEN [rest |-> From(s, 2), req |-> req]
        ELSE IF Len(req.headers) >= HeadersMax \/ ~line.ok THEN [rest |-> start, req |-> req]
        ELSE HeadersFrom(start, line.rest, [req EXCEPT !.headers = Append(@, HttpHeader(line.values[1][1], line.values[2][1]))])

\* Any version that begins as it should will do.
http_request_parse_zstr(req, in) ==
    LET line == str_read_fmt(in, Chars("{} {} {}\r\n"), <<"Str", "Str", "Str">>, << >>)
        located == [req EXCEPT !.url = Grown(@, line.values, 2)]
        method == http_request_method_from_str(line.values[1][1])
        named == [located EXCEPT !.method = method]
    IN  IF ~line.ok THEN [rest |-> in, req |-> located]
        ELSE IF ZstrCompareN(line.values[3][1], Chars("HTTP/1.1"), 8) # 0 THEN [rest |-> in, req |-> located]
        ELSE IF method = "UNKNOWN" THEN [rest |-> in, req |-> named] ELSE HeadersFrom(in, line.rest, named)
http_request_parse_str(req, in) == http_request_parse_zstr(req, Zstr(in))

-----------------------------------------------------------------------------

\* << >> is NULL.
HttpResponseCodeToZstr(code) ==
    IF code \in (100..103) \cup (200..208) \cup {226} \cup ((300..308) \ {306}) \cup (400..418)
                \cup ((421..431) \ {427, 430}) \cup {451} \cup ((500..511) \ {509})
    THEN Decimal(code) \o Chars(" Wording") ELSE << >>

ContentTypes ==
    {"text/plain", "text/html", "text/css", "text/javascript", "text/csv", "application/json", "application/xml",
     "application/javascript", "application/pdf", "application/zip", "application/octet-stream",
     "application/x-www-form-urlencoded", "application/vnd.ms-excel",
     "application/vnd.openxmlformats-officedocument.spreadsheetml.sheet", "application/ld+json", "application/graphql",
     "application/font-woff", "image/jpeg", "image/png", "image/gif", "image/bmp", "image/webp", "image/svg+xml",
     "audio/mpeg", "audio/ogg", "audio/wav", "video/mp4", "video/webm", "video/ogg", "multipart/form-data",
     "multipart/byteranges", "font/woff", "font/woff2"}
HttpContentTypeToZstr(type) == IF type \in ContentTypes THEN Chars(type) ELSE << >>

HttpRespondWithHtml(response, status, html) ==
    [response EXCEPT !.status_code = status, !.content_type = "text/html", !.body = html]

\* The status and the type are set whether or not the file can be read.
http_respond_with_file_zstr(response, status, type, file) ==
    LET done == [response EXCEPT !.status_code = status, !.content_type = type, !.body = IF file.readable THEN file.content ELSE << >>]
    IN  [ok |-> file.readable, response |-> done]

\* An unknown code or type gives no text.
http_response_serialize(response) ==
    LET code == HttpResponseCodeToZstr(response.status_code)
        type == HttpContentTypeToZstr(response.content_type)
        head == str_append_fmt(<< >>, Chars("HTTP/1.1 {}\r\nContent-Type: {}\r\nContent-Length: {}\r\n"),
                               <<Arg("Zstr", code), Arg("Zstr", type), Arg("u64", Len(response.body))>>).o
        Line(out, header) == str_append_fmt(out, Chars("{}: {}\r\n"), <<Arg("Str", header.key), Arg("Str", header.value)>>).o
    IN  IF code = << >> \/ type = << >> THEN << >>
        ELSE FoldLeft(Line, head, response.headers) \o CRLF \o response.body

-----------------------------------------------------------------------------

HeaderLines(headers) == FlattenSeq([k \in DOMAIN headers |-> headers[k].key \o Chars(": ") \o headers[k].value \o CRLF])
RequestLine(method, url, version) == Chars(method) \o <<" ">> \o url \o <<" ">> \o Chars(version) \o CRLF

\* A request is read as it was written and the cursor stands at its body; more
\* headers than the cap, a part of a request, another version and another
\* method give the text back.
RequestSound(method, url, headers) ==
    LET text == RequestLine(method, url, "HTTP/1.1") \o HeaderLines(headers) \o CRLF
        body == Chars("a: b") \o CRLF
        read == http_request_parse_zstr(HttpRequestInit, text \o body)
        kept == SubSeq(headers, 1, Min({HeadersMax, Len(headers)}))
        Refused(s) == http_request_parse_str(HttpRequestInit, s).rest = s
    IN  /\ read = [rest |-> IF kept = headers THEN body ELSE text \o body, req |-> [method |-> method, url |-> url, headers |-> kept]]
        /\ \A n \in 0..Len(text) - 1 : Refused(SubSeq(text, 1, n))
        /\ Refused(RequestLine(method, url, "HTTP/1.0") \o CRLF) /\ Refused(RequestLine("get", url, "HTTP/1.1") \o CRLF)
        /\ \A k \in DOMAIN kept :
             LET header == http_headers_find_str(read.req.headers, kept[k].key)[1]
             IN  header.key = kept[k].key /\ (\A j \in 1..k - 1 : kept[j].key # kept[k].key) => header = kept[k]

\* A response says how long its body is, and its headers are read back by the
\* reader of requests.
ResponseSound(code, type, body, headers) ==
    LET file == http_respond_with_file_zstr([status_code |-> 0, content_type |-> "none", headers |-> headers, body |-> Chars("x")],
                                            code, type, [readable |-> code # 404, content |-> body])
        out == http_response_serialize(file.response)
        html == http_response_serialize(HttpRespondWithHtml(file.response, code, body))
        Read(s) == HeadersFrom(s, From(s, IndexOf(s, "\n") + 1), HttpRequestInit)
        Said(name, value) == HttpHeader(Chars(name), value)
        length == IF file.ok THEN body ELSE << >>
    IN  IF code = 227 THEN out = << >>
        ELSE /\ starts_with(out, Chars("HTTP/1.1 ") \o Decimal(code))
             /\ Read(out).rest = length
             /\ Read(out).req.headers = <<Said("Content-Type", Chars(type)), Said("Content-Length", Decimal(Len(length)))>> \o headers
             /\ Read(html).rest = body /\ http_headers_find_zstr(Read(html).req.headers, Chars("Content-Type"))[1].value = Chars("text/html")

HttpSound(input) ==
    CASE input.kind = "request" -> RequestSound(input.method, input.url, input.headers)
      [] input.kind = "response" -> ResponseSound(input.code, input.type, input.body, input.headers)
      [] OTHER -> TRUE

(***************************************************************************)
(* DNS messages built and parsed (Parsers/Dns.c).  A message is a sequence *)
(* of bytes, 0 to 255; a name is the codes of its characters; positions    *)
(* count from 0.  Memory never runs out here.                              *)
(***************************************************************************)

Period == 46
U16At(buf, at) == 256 * buf[at + 1] + buf[at + 2]
Big16(n) == <<(n \div 256) % 256, n % 256>>
Types == [A |-> 1, NS |-> 2, CNAME |-> 5, PTR |-> 12, TXT |-> 16, AAAA |-> 28]

\* The labels are written until one is refused.  An empty one is a name's last
\* dot, or refused.
RECURSIVE QnameFrom(_, _, _)
QnameFrom(out, name, total) ==
    LET dots == {k \in DOMAIN name : name[k] = Period}
        seg_len == IF dots = {} THEN Len(name) ELSE (CHOOSE k \in dots : \A j \in dots : k <= j) - 1
    IN  IF name = << >> THEN [ok |-> TRUE, out |-> Append(out, 0)]
        ELSE IF seg_len = 0 \/ seg_len > 63 \/ total + 1 + seg_len > 254 THEN [ok |-> FALSE, out |-> out]
        ELSE QnameFrom(out \o <<seg_len>> \o SubSeq(name, 1, seg_len), SubSeq(name, seg_len + 2, Len(name)), total + 1 + seg_len)
encode_qname(out, name) == QnameFrom(out, name, 0)

\* What the buffer held is replaced; an encoding that is refused stays in it
\* half written.
dns_build_query_zstr(id, name, type) ==
    LET question == encode_qname(Big16(id) \o Big16(256) \o Big16(1) \o Big16(0) \o Big16(0) \o Big16(0), name)
    IN  IF question.ok THEN [question EXCEPT !.out = @ \o Big16(type) \o Big16(1)] ELSE question

-----------------------------------------------------------------------------

Malformed == [ok |-> FALSE]
Name(name, next) == [ok |-> TRUE, name |-> name, next |-> next]

\* `next` is what follows the name where it stands, a pointer's target aside;
\* it is known from the first pointer on.
RECURSIVE NameFrom(_, _, _, _, _, _)
NameFrom(buf, cur, next, hops, name, labels) ==
    LET b == buf[cur + 1]
        after == IF next = << >> THEN <<cur + 2>> ELSE next
        ptr == 256 * (b - 192) + buf[cur + 2]
        dotted == IF labels = 0 THEN name ELSE Append(name, Period)
    IN  CASE cur >= Len(buf) -> Malformed
          [] cur < Len(buf) /\ b = 0 -> Name(name, IF next = << >> THEN cur + 1 ELSE next[1])
          [] cur < Len(buf) /\ b >= 192 ->
               IF cur + 2 > Len(buf) THEN Malformed
               ELSE IF ptr >= cur \/ hops >= 64 THEN Malformed ELSE NameFrom(buf, ptr, after, hops + 1, name, labels)
          [] OTHER -> IF b >= 64 \/ cur + 1 + b > Len(buf) \/ Len(name) + 1 + b > 253 THEN Malformed
                      ELSE NameFrom(buf, cur + 1 + b, next, hops, dotted \o SubSeq(buf, cur + 2, cur + 1 + b), labels + 1)
decode_name(buf, at) == NameFrom(buf, at, << >>, 0, << >>, 0)

\* The address and the target are what the type says, or empty; four bytes of
\* time to live are kept as they are.
decode_record(buf, at) ==
    LET name == decode_name(buf, at)
        head == name.next
        rdlength == U16At(buf, head + 8)
        start == head + 10
        type == U16At(buf, head)
        rdata == SubSeq(buf, start + 1, start + rdlength)
        named == type \in {Types.CNAME, Types.NS, Types.PTR}
        target == decode_name(buf, start)
        rec == [name |-> name.name, type |-> type, rclass |-> U16At(buf, head + 2), ttl |-> SubSeq(buf, head + 5, head + 8),
                rdata |-> rdata, ipv4 |-> IF type = Types.A THEN rdata ELSE << >>, ipv6 |-> IF type = Types.AAAA THEN rdata ELSE << >>,
                target |-> IF named THEN target.name ELSE << >>]
    IN  IF ~name.ok THEN Malformed
        ELSE IF start > Len(buf) THEN Malformed
        ELSE IF start + rdlength > Len(buf) \/ (type = Types.A /\ rdlength # 4) \/ (type = Types.AAAA /\ rdlength # 16) THEN Malformed
        ELSE IF named /\ ~target.ok THEN Malformed ELSE [ok |-> TRUE, rec |-> rec, next |-> start + rdlength]

RECURSIVE decode_record_list(_, _, _, _), Questions(_, _, _)
decode_record_list(buf, at, count, records) ==
    LET one == decode_record(buf, at)
    IN  IF count = 0 THEN [ok |-> TRUE, records |-> records, next |-> at]
        ELSE IF ~one.ok THEN [ok |-> FALSE, records |-> records] ELSE decode_record_list(buf, one.next, count - 1, Append(records, one.rec))

\* The questions a response repeats are skipped.
Questions(buf, at, count) ==
    LET name == decode_name(buf, at)
    IN  IF count = 0 THEN [ok |-> TRUE, next |-> at]
        ELSE IF ~name.ok THEN Malformed ELSE IF name.next + 4 > Len(buf) THEN Malformed ELSE Questions(buf, name.next + 4, count - 1)

Bit(flags, n) == (flags \div 2 ^ n) % 2 = 1

\* The records in front of a bad one stay in the response.
DnsParseResponse(buf) ==
    LET flags == U16At(buf, 2)
        start == Questions(buf, 12, U16At(buf, 4))
        an == decode_record_list(buf, start.next, U16At(buf, 6), << >>)
        ns == decode_record_list(buf, an.next, U16At(buf, 8), << >>)
        ar == decode_record_list(buf, ns.next, U16At(buf, 10), << >>)
        Said(ok, a, n, r) ==
            [ok |-> ok, id |-> U16At(buf, 0), is_response |-> Bit(flags, 15), authoritative |-> Bit(flags, 10), truncated |-> Bit(flags, 9),
             recursion_desired |-> Bit(flags, 8), recursion_avail |-> Bit(flags, 7), rcode |-> flags % 16,
             answers |-> a, authority |-> n, additional |-> r]
    IN  IF Len(buf) < 12 THEN Malformed
        ELSE IF ~start.ok THEN Said(FALSE, << >>, << >>, << >>)
        ELSE IF ~an.ok THEN Said(FALSE, an.records, << >>, << >>)
        ELSE IF ~ns.ok THEN Said(FALSE, an.records, ns.records, << >>)
        ELSE Said(ar.ok, an.records, ns.records, ar.records)

-----------------------------------------------------------------------------

LabelOf(n) == [k \in 1..n |-> 96 + (k % 20)]
Dotted(lens) == IF lens = << >> THEN << >> ELSE FoldLeft(LAMBDA s, n : s \o <<Period>> \o LabelOf(n), LabelOf(lens[1]), Tail(lens))
Wire(lens) == FlattenSeq([k \in DOMAIN lens |-> <<lens[k]>> \o LabelOf(lens[k])]) \o <<0>>

\* A name is encoded exactly when a message can hold it, and decoded as it was,
\* with or without its last dot; a pointer to one of its labels is the name
\* from there on; half a name is none.
NameSound(segments) ==
    LET lens == IF segments # << >> /\ Last(segments) = 0 THEN Front(segments) ELSE segments   \* a last dot
        Total(ls) == FoldLeft(LAMBDA n, len : n + 1 + len, 0, ls)
        legal == (\A k \in DOMAIN lens : lens[k] \in 1..63) /\ Total(lens) <= 254
        coded == encode_qname(<<9, 9>>, Dotted(segments))
        wire == <<9, 9>> \o Wire(lens)
    IN  /\ coded.ok <=> legal
        /\ legal => /\ coded.out = wire
                    /\ ~encode_qname(<< >>, Dotted(lens) \o <<Period, Period>>).ok
                    /\ decode_name(wire \o <<7, 7>>, 2) = Name(Dotted(lens), Len(wire))
                    /\ \A k \in DOMAIN lens :
                         decode_name(wire \o <<192, 2 + Total(SubSeq(lens, 1, k - 1)), 5>>, Len(wire))
                           = Name(Dotted(SubSeq(lens, k, Len(lens))), Len(wire) + 2)
                    /\ \A n \in 2..Len(wire) - 1 : ~decode_name(SubSeq(wire, 1, n), 2).ok

\* Any bytes at all give a name of legal length, or none, and the cursor stays
\* in the message; without a pointer the bytes are the encoding of the name.
BytesSound(buf) ==
    \A at \in 0..Len(buf) :
      LET read == decode_name(buf, at)
          bytes == SubSeq(buf, at + 1, read.next)
      IN  read.ok => /\ Len(read.name) <= 253 /\ read.next \in at + 1..Len(buf)
                     /\ (\A k \in DOMAIN bytes : bytes[k] < 192) /\ Period \notin {bytes[k] : k \in DOMAIN bytes} =>
                          encode_qname(<< >>, read.name).out = bytes

\* A record as it is sent, named by a pointer to the question.
RecordBytes(type, rdata) == <<192, 12>> \o Big16(Types[type]) \o Big16(1) \o <<0, 1, 2, 3>> \o Big16(Len(rdata)) \o rdata
RdataOf(type) ==
    CASE type = "A" -> <<10, 0, 0, 1>> [] type = "AAAA" -> [k \in 1..16 |-> k] [] type = "TXT" -> <<2, 104, 105>>
      [] OTHER -> <<2, 97, 98, 192, 12>>

\* The answer to a query: each section has its records, in order, with the
\* fields their types have; a part of the message, a count too many and an
\* address of another length are refused.
MessageSound(types, split) ==
    LET name == Dotted(<<3, 2>>)
        query == dns_build_query_zstr(513, name, Types.A).out
        Records(ts) == FlattenSeq([k \in DOMAIN ts |-> RecordBytes(ts[k], RdataOf(ts[k]))])
        Header(an, ns) == Big16(513) \o <<133, 131>> \o Big16(1) \o Big16(an) \o Big16(ns) \o Big16(0)
        Message(an, ns) == Header(an, ns) \o SubSeq(query, 13, Len(query)) \o Records(types)
        message == Message(split, Len(types) - split)
        read == DnsParseResponse(message)
        Expected(type) ==
            [name |-> name, type |-> Types[type], rclass |-> 1, ttl |-> <<0, 1, 2, 3>>, rdata |-> RdataOf(type),
             ipv4 |-> IF type = "A" THEN RdataOf(type) ELSE << >>, ipv6 |-> IF type = "AAAA" THEN RdataOf(type) ELSE << >>,
             target |-> IF type = "CNAME" THEN LabelOf(2) \o <<Period>> \o name ELSE << >>]
    IN  /\ DnsParseResponse(query) = [ok |-> TRUE, id |-> 513, is_response |-> FALSE, authoritative |-> FALSE, truncated |-> FALSE,
                                      recursion_desired |-> TRUE, recursion_avail |-> FALSE, rcode |-> 0,
                                      answers |-> << >>, authority |-> << >>, additional |-> << >>]
        /\ read.ok /\ read.is_response /\ read.rcode = 3 /\ read.authoritative /\ read.recursion_avail /\ ~read.truncated
        /\ read.answers = [k \in 1..split |-> Expected(types[k])]
        /\ read.authority = [k \in 1..Len(types) - split |-> Expected(types[split + k])]
        /\ \A n \in 0..Len(message) - 1 : ~DnsParseResponse(SubSeq(message, 1, n)).ok
        /\ ~DnsParseResponse(Message(split, Len(types) - split + 1)).ok
        /\ \A type \in {"A", "AAAA"} : ~DnsParseResponse(Message(Len(types) + 1, 0) \o RecordBytes(type, <<1, 2, 3>>)).ok

DnsSound(input) ==
    CASE input.kind = "name" -> NameSound(input.lens)
      [] input.kind = "bytes" -> BytesSound(input.buf)
      [] input.kind = "message" -> MessageSound(input.types, input.split)
      [] OTHER -> TRUE
=============================================================================
