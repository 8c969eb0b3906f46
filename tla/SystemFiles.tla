----------------------------- MODULE SystemFiles -----------------------------
(***************************************************************************)
(* The texts and files of the system that the library reads: addresses of  *)
(* sockets (Sys/_IpParse.h, Sys/Socket.c), the hosts and the name server   *)
(* file (Sys/Dns.c), the map of a process (Parsers/ProcMaps.c) and the     *)
(* time zone file (Parsers/Tzif.c).  An IPv4 address is four octets, an    *)
(* IPv6 address its eight groups of sixteen bits.  Memory never runs out.  *)
(***************************************************************************)
EXTENDS Dwarf

Line(s) == SubSeq(s, 1, Leading(s, AllChars \ {"\n"}))
Pieces(s, separator) == str_split_to_iters_impl(s, separator)

\* A number of one digit or more; one over the limit is none, whatever follows.
Limited(s, limit) ==
    LET n == FoldLeft(LAMBDA v, c : IF v > limit THEN v ELSE v * 10 + DigitOf[c], 0, s)
    IN  IF s = << >> \/ Leading(s, IS_DIGIT) < Len(s) \/ n > limit THEN NotParsed ELSE Parsed(n)
Each(s, Parse(_)) ==
    LET parsed == [k \in 1..Len(s) |-> Parse(s[k])]
    IN  IF \A k \in 1..Len(s) : parsed[k].ok THEN Parsed([k \in 1..Len(s) |-> parsed[k].v]) ELSE NotParsed

parse_ipv4(s) ==
    LET octets == Each(Pieces(s, <<".">>), LAMBDA t : Limited(t, 255))
    IN  IF octets.ok /\ Len(Pieces(s, <<".">>)) = 4 THEN octets ELSE NotParsed

HexValue(s) == FoldLeft(LAMBDA v, c : (v % ((U64Max + 1) \div 16)) * 16 + DigitOf[c], 0, s)
Hextet(t) == IF Len(t) \in 1..4 /\ Leading(t, IS_XDIGIT) = Len(t) THEN Parsed(HexValue(t)) ELSE NotParsed
Hextets(s) == IF s = << >> THEN Parsed(s) ELSE Each(Pieces(s, <<":">>), Hextet)

\* Two colons stand for the groups that are missing, one at least.
parse_ipv6(s) ==
    LET gap == ZstrFindSubstringN(s, <<":", ":">>)
        whole == Hextets(s)
        front == Hextets(SubSeq(s, 1, gap))
        back == Hextets(From(s, gap + 2))
    IN  IF gap = Nowhere THEN IF s # << >> /\ whole.ok THEN IF Len(whole.v) = 8 THEN whole ELSE NotParsed ELSE NotParsed
        ELSE IF ~front.ok \/ ~back.ok THEN NotParsed
        ELSE IF Len(front.v) + Len(back.v) > 7 THEN NotParsed
        ELSE Parsed(front.v \o [k \in 1..8 - Len(front.v) - Len(back.v) |-> 0] \o back.v)

Between(texts, separator) == IF texts = << >> THEN << >> ELSE FoldLeft(LAMBDA s, t : s \o separator \o t, texts[1], Tail(texts))
format_ipv4(octets) == Between([k \in 1..4 |-> Decimal(octets[k])], <<".">>)
append_hextet(v) == IF v = 0 THEN <<"0">> ELSE Shown(DigitsOf(v, 16), FALSE)

\* The longest run of groups that are zero, the first of those, is two colons.
ZeroRuns(groups) == {r \in (1..8) \X (2..8) : r[1] + r[2] <= 9 /\ \A k \in r[1]..r[1] + r[2] - 1 : groups[k] = 0}
Without(groups, r) ==
    LET texts == [k \in 1..8 |-> append_hextet(groups[k])]
    IN  Between(SubSeq(texts, 1, r[1] - 1), <<":">>) \o <<":", ":">> \o Between(SubSeq(texts, r[1] + r[2], 8), <<":">>)
format_ipv6(groups) ==
    LET runs == ZeroRuns(groups)
        longest == {r \in runs : \A q \in runs : q[2] < r[2] \/ (q[2] = r[2] /\ q[1] >= r[1])}
    IN  IF runs = {} THEN Between([k \in 1..8 |-> append_hextet(groups[k])], <<":">>) ELSE Without(groups, CHOOSE r \in longest : TRUE)

parse_port(s) == Limited(s, 65535)
Split(host, port) == [ok |-> TRUE, host |-> host, port |-> port]
split_host_port(spec) ==
    LET close == ZstrFindChar(spec, "]")
        colon == ZstrFindChar(spec, ":")
        limit == 255
    IN  IF OneOf(spec, {"["})
        THEN IF close = Nowhere \/ ~OneOf(From(spec, close + 1), {":"}) \/ close - 1 > limit THEN NotParsed
             ELSE Split(SubSeq(spec, 2, close), From(spec, close + 2))
        ELSE IF colon = Nowhere \/ colon > limit THEN NotParsed ELSE Split(SubSeq(spec, 1, colon), From(spec, colon + 1))

SocketAddr(ip, port) == [ip |-> ip, port |-> port]
ParsedIp(s) == IF parse_ipv4(s).ok THEN parse_ipv4(s) ELSE parse_ipv6(s)
socket_addr_parse_zstr(spec) ==
    LET split == split_host_port(spec)
        port == parse_port(split.port)
        ip == ParsedIp(split.host)
    IN  IF ~split.ok THEN NotParsed ELSE IF port.ok /\ ip.ok THEN Parsed(SocketAddr(ip.v, port.v)) ELSE NotParsed
socket_addr_format(addr) ==
    (IF Len(addr.ip) = 4 THEN format_ipv4(addr.ip) ELSE <<"[">> \o format_ipv6(addr.ip) \o <<"]">>) \o <<":">> \o Decimal(addr.port)

-----------------------------------------------------------------------------
(* Files.  What is read comes in pieces, up to an empty one or an error. *)

Piece(text) == [text |-> text, error |-> FALSE]
read_all(reads) ==
    LET end == SelectInSeq(reads, LAMBDA r : r.error \/ r.text = << >>)
    IN  IF reads[end].error THEN NotParsed ELSE Parsed(FlattenSeq([k \in 1..end - 1 |-> reads[k].text]))

is_hspace == {" ", "\t"}
skip_hspace(s) == From(s, Leading(s, is_hspace))
Leader(s, ends) == SubSeq(s, 1, Leading(s, AllChars \ ends))
IpToken(s) == IF Len(s) \in 1..63 THEN ParsedIp(s) ELSE NotParsed

RECURSIVE NamesFrom(_)
NamesFrom(s) ==
    LET t == skip_hspace(s)
        name == Leader(t, is_hspace \cup {"#"})
    IN  IF name = << >> THEN << >> ELSE <<[k \in 1..Len(name) |-> TO_LOWER(name[k])]>> \o NamesFrom(From(t, Len(name)))

\* A line is an address and its names, up to a comment; one whose address
\* cannot be read is left out.
HostsLine(line) ==
    LET s == skip_hspace(line)
        ip == IpToken(Leader(s, is_hspace))
        names == NamesFrom(From(s, Len(Leader(s, is_hspace))))
    IN  IF s = << >> \/ OneOf(s, {"#", "\r"}) THEN << >>
        ELSE IF ip.ok THEN [k \in 1..Len(names) |-> [name |-> names[k], ip |-> ip.v]] ELSE << >>
parse_hosts_path(reads) ==
    LET text == read_all(reads)
        lines == Pieces(text.v, <<"\n">>)
    IN  IF text.ok THEN FlattenSeq([k \in 1..Len(lines) |-> HostsLine(lines[k])]) ELSE << >>

Nameserver == Chars("nameserver")
ResolvLine(line) ==
    LET s == skip_hspace(line)
        ip == IpToken(Leader(skip_hspace(From(s, Len(Nameserver))), is_hspace \cup {"#"}))
    IN  IF ~starts_with(s, Nameserver) \/ ~OneOf(From(s, Len(Nameserver)), is_hspace) THEN << >>
        ELSE IF ip.ok THEN <<SocketAddr(ip.v, 53)>> ELSE << >>
parse_resolv_path(reads) ==
    LET text == read_all(reads)
        lines == Pieces(text.v, <<"\n">>)
    IN  IF text.ok THEN FlattenSeq([k \in 1..Len(lines) |-> ResolvLine(lines[k])]) ELSE << >>

\* Host names are compared without case and without the dots they end with.
normalize_hostname(name) ==
    LET bare == strip_str(name, {"."}, 1) IN [k \in 1..Len(bare) |-> TO_LOWER(bare[k])]
HostsAnswer(hosts, name, port) ==
    LET hits == SelectSeq(hosts, LAMBDA e : e.name = normalize_hostname(name))
    IN  [k \in 1..Len(hits) |-> SocketAddr(hits[k].ip, port)]

\* An address needs nobody's help; a name is in front of the last colon.  What
\* the hosts file does not know is asked for.
dns_resolve_4_vec_zstr(hosts, spec) ==
    LET direct == socket_addr_parse_zstr(spec)
        colons == {k \in DOMAIN spec : spec[k] = ":"}
        host == SubSeq(spec, 1, Max(colons) - 1)
        port == parse_port(From(spec, Max(colons)))
        known == HostsAnswer(hosts, host, port.v)
    IN  IF direct.ok THEN [outcome |-> "found", addrs |-> <<direct.v>>]
        ELSE IF colons = {} THEN [outcome |-> "refused"]
        ELSE IF Len(host) >= 256 \/ ~port.ok THEN [outcome |-> "refused"]
        ELSE IF known = << >> THEN [outcome |-> "asks"] ELSE [outcome |-> "found", addrs |-> known]

-----------------------------------------------------------------------------
(* The map of a process: one region a line. *)

parse_hex_u64(s) == LET n == Leading(s, IS_XDIGIT) IN IF n = 0 THEN Stuck(s) ELSE Reading(HexValue(SubSeq(s, 1, n)), From(s, n))
skip_ws(s) == skip_hspace(s)
skip_token(s) == From(s, Leading(s, AllChars \ (is_hspace \cup {"\n"})))
expect_char(s, want) == IF OneOf(s, {want}) THEN Reading(want, Tail(s)) ELSE Stuck(s)

\* Addresses over 64 bits lose their highest digits.
parse_one_line(s) ==
    LET start == parse_hex_u64(s)
        dash == expect_char(start.rest, "-")
        ende == parse_hex_u64(dash.rest)
        t == skip_ws(ende.rest)
        offset == parse_hex_u64(skip_ws(From(t, 4)))
        path == skip_ws(skip_token(skip_ws(skip_token(skip_ws(offset.rest)))))
    IN  IF ~start.ok THEN start ELSE IF ~dash.ok THEN dash ELSE IF ~ende.ok THEN ende
        ELSE IF Len(t) < 4 THEN Stuck(t)
        ELSE IF ~offset.ok THEN offset
        ELSE Reading([start |-> start.v, end |-> ende.v, perms |-> {k \in 1..4 : t[k] = <<"r", "w", "x", "p">>[k]},
                   file_offset |-> offset.v, path |-> Line(path)], From(path, Len(Line(path)) + 1))

RECURSIVE EntriesFrom(_)
EntriesFrom(s) ==
    LET one == parse_one_line(s)
    IN  IF s = << >> THEN << >>
        ELSE IF one.ok THEN <<one.v>> \o EntriesFrom(one.rest) ELSE EntriesFrom(From(one.rest, Len(Line(one.rest)) + 1))
proc_maps_parse_raw(raw) ==
    LET entries == EntriesFrom(raw)
    IN  [entries |-> entries, min_addr |-> IF entries = << >> THEN 0 ELSE Min({entries[k].start : k \in DOMAIN entries})]
proc_maps_load(reads) ==
    LET raw == read_all(reads)
    IN  IF ~raw.ok THEN NotParsed ELSE IF raw.v = << >> THEN NotParsed ELSE Parsed(proc_maps_parse_raw(raw.v))
ProcMapsFindByAddr(maps, addr) ==
    LET found == SelectSeq(maps.entries, LAMBDA e : e.start <= addr /\ addr < e.end)
    IN  IF found = << >> THEN << >> ELSE <<found[1]>>

-----------------------------------------------------------------------------
(* Time zones: the bytes of a file. *)

Magic == <<84, 90, 105, 102>>
BigWord(bytes) == Word(Reverse(bytes))
BigWords(bytes, wide) == [k \in 1..Len(bytes) \div wide |-> BigWord(SubSeq(bytes, wide * (k - 1) + 1, wide * k))]
tzif_read_header(rest) ==
    IF Len(rest) < 44 \/ ~IsPrefix(Magic, rest) THEN Stuck(rest)
    ELSE LET counts == BigWords(SubSeq(rest, 21, 44), 4)
         IN  Reading([version |-> rest[5], isutcnt |-> counts[1], isstdcnt |-> counts[2], leapcnt |-> counts[3],
                   timecnt |-> counts[4], typecnt |-> counts[5], charcnt |-> counts[6]], From(rest, 44))
tzif_v1_data_size(h) == h.timecnt * 5 + h.typecnt * 6 + h.charcnt + h.leapcnt * 8 + h.isstdcnt + h.isutcnt

\* The last transition that is not in the future names its type; without one,
\* or when there is no such type, it is the first without summer time.
tzif_resolve(rest, time_width, timecnt, typecnt, unix_seconds) ==
    LET times == BigWords(SubSeq(rest, 1, timecnt * time_width), time_width)
        past == {k \in 1..timecnt : Signed64(times[k]) <= unix_seconds}
        kinds == SubSeq(From(rest, timecnt * time_width), 1, timecnt)
        from == timecnt * (time_width + 1)
        Utoff(k) == Signed64(BigWord(SubSeq(rest, from + 6 * k + 1, from + 6 * k + 4)))
        standard == {k \in 0..typecnt - 1 : rest[from + 6 * k + 5] = 0}
    IN  IF typecnt = 0 \/ Len(rest) < from + 6 * typecnt THEN NotParsed
        ELSE IF past # {} /\ kinds[Max(past)] < typecnt THEN Parsed(Utoff(kinds[Max(past)]))
        ELSE IF standard # {} THEN Parsed(Utoff(Min(standard))) ELSE NotParsed
TzifOffsetFromBuf(data, unix_seconds) ==
    LET h1 == tzif_read_header(data)
        v1 == tzif_v1_data_size(h1.v)
        h2 == tzif_read_header(From(h1.rest, v1))
    IN  IF ~h1.ok THEN NotParsed
        ELSE IF h1.v.version < 50 THEN tzif_resolve(h1.rest, 4, h1.v.timecnt, h1.v.typecnt, unix_seconds)
        ELSE IF v1 > Len(h1.rest) THEN NotParsed
        ELSE IF h2.ok THEN tzif_resolve(h2.rest, 8, h2.v.timecnt, h2.v.typecnt, unix_seconds) ELSE NotParsed

-----------------------------------------------------------------------------
(* What is written by the rules is read back. *)

\* An address is read back from what is written, and from any other way to
\* leave out a run of zeros, in either case and with zeros in front; what is
\* written has the fewest groups.  Nothing is an address of both families,
\* and one with a group or a number too many is none.
AddressSound(ip, port) ==
    LET text == socket_addr_format(SocketAddr(ip, port))
        Read(host) == socket_addr_parse_zstr(<<"[">> \o host \o Chars("]:7"))
        Long(v) == [k \in 1..4 |-> DigitChars[((v \div 16 ^ (4 - k)) % 16) + 1]]
        Upper(s) == [k \in 1..Len(s) |-> TO_UPPER(s[k])]
        ways == {Without(ip, r) : r \in ZeroRuns(ip)} \cup {Between([k \in 1..8 |-> Long(ip[k])], <<":">>)}
        same == Parsed(SocketAddr(ip, 7))
        Groups(s) == Len(SelectSeq(Pieces(s, <<":">>), LAMBDA t : t # << >>))
    IN  /\ socket_addr_parse_zstr(text) = Parsed(SocketAddr(ip, port))
        /\ dns_resolve_4_vec_zstr(<< >>, text) = [outcome |-> "found", addrs |-> <<SocketAddr(ip, port)>>]
        /\ ~socket_addr_parse_zstr(text \o <<"a">>).ok /\ ~socket_addr_parse_zstr(socket_addr_format(SocketAddr(ip, port + 65536))).ok
        /\ Len(ip) = 4 => /\ parse_ipv4(format_ipv4(ip)).ok /\ ~parse_ipv6(format_ipv4(ip)).ok
                          /\ ~parse_ipv4(format_ipv4(ip) \o <<".">>).ok /\ ~parse_ipv4(<<"0", ".">> \o format_ipv4(ip)).ok
        /\ Len(ip) = 8 => /\ \A way \in ways : Read(way) = same /\ Read(Upper(way)) = same /\ Groups(format_ipv6(ip)) <= Groups(way)
                          /\ \A way \in ways : ~Read(way \o Chars(":0:0:0:0:0:0:0:0")).ok
                          /\ ~Read(Between([k \in 1..8 |-> Long(ip[k])], <<":">>) \o Chars("::")).ok

\* One line of each kind; the kinds from 6 on say nothing.
HostsText(k) ==
    CASE k = 1 -> Chars("10.0.0.1\tAlpha beta") [] k = 2 -> Chars("  ::1 beta # gamma") [] k = 3 -> Chars("10.0.0.2 gamma#beta")
      [] k = 4 -> Chars("10.0.0.3 Alpha \t") [] k = 5 -> Chars("1.2.3.4") [] k = 6 -> Chars("# 10.0.0.9 alpha") [] k = 7 -> << >>
      [] k = 8 -> Chars("10.0.0.256 alpha beta gamma") [] k = 9 -> Chars(" \t")
HostsSays == << <<"alpha", "beta">>, <<"beta">>, <<"gamma">>, <<"alpha">> >>
HostsIps == << <<10, 0, 0, 1>>, <<0, 0, 0, 0, 0, 0, 0, 1>>, <<10, 0, 0, 2>>, <<10, 0, 0, 3>> >>

\* A name has the addresses of the lines that list it, in their order, however
\* the file arrives and however the name is spelled; a file that cannot be
\* read to its end says nothing.
HostsSound(lines, cut, ended) ==
    LET text == Between([k \in DOMAIN lines |-> HostsText(lines[k])], <<"\n">>) \o IF ended THEN <<"\n">> ELSE << >>
        Reads(last) == SelectSeq(<<Piece(zstr_dup_n(text, cut)), Piece(From(text, cut))>>, LAMBDA r : r.text # << >>) \o <<last>>
        hosts == parse_hosts_path(Reads(Piece(<< >>)))
        Listed(name) == SelectSeq(lines, LAMBDA k : k <= 4 /\ name \in Range(HostsSays[k]))
        Answer(name) == [k \in 1..Len(Listed(name)) |-> SocketAddr(HostsIps[Listed(name)[k]], 80)]
    IN  /\ parse_hosts_path(Reads([text |-> << >>, error |-> TRUE])) = << >>
        /\ \A name \in {"alpha", "beta", "gamma", "delta"} :
               \A spelled \in {Chars(name), <<TO_UPPER(Chars(name)[1])>> \o Tail(Chars(name)) \o <<".">>} :
                   dns_resolve_4_vec_zstr(hosts, spelled \o Chars(":80")) =
                       IF Listed(name) = << >> THEN [outcome |-> "asks"] ELSE [outcome |-> "found", addrs |-> Answer(name)]
        /\ \A spec \in {"alpha", "alpha:", "alpha:65536", "alpha:8o"} : dns_resolve_4_vec_zstr(hosts, Chars(spec)).outcome = "refused"

ResolvText(k) ==
    CASE k = 1 -> Chars("nameserver 10.0.0.1") [] k = 2 -> Chars("\tnameserver \t::1# local") [] k = 3 -> Chars("nameserver 10.0.0.2 ") \o Chars("options x")
      [] k = 4 -> Chars("nameserver10.0.0.3") [] k = 5 -> Chars("; nameserver 10.0.0.3") [] k = 6 -> Chars("nameserver") [] k = 7 -> Chars("search a.b")
ServerIps == << <<10, 0, 0, 1>>, <<0, 0, 0, 0, 0, 0, 0, 1>>, <<10, 0, 0, 2>> >>
\* The servers are those of the lines that name one, in their order.
ServersSound(lines) ==
    LET said == SelectSeq(lines, LAMBDA k : k <= 3)
    IN  parse_resolv_path(<<Piece(Between([k \in DOMAIN lines |-> ResolvText(lines[k])], <<"\n">>)), Piece(<< >>)>>)
            = [k \in 1..Len(said) |-> SocketAddr(ServerIps[said[k]], 53)]

Hex(n) == IF n = 0 THEN <<"0">> ELSE Shown(DigitsOf(n, 16), FALSE)
RegionText(r, start) ==
    Hex(start) \o <<"-">> \o Hex(start + r.size) \o <<" ">> \o [k \in 1..4 |-> IF k \in r.perms THEN <<"r", "w", "x", "p">>[k] ELSE "-"]
    \o <<" ">> \o Hex(16 * r.size) \o Chars(" 08:01 42") \o (IF r.path = << >> THEN << >> ELSE Chars("   ")) \o r.path \o <<"\n">>
\* Every address is in the region that covers it, whatever lines nobody can
\* read stand between them and however the text arrives; the lowest address is
\* that of the first region.
MapsSound(regions, gap, noise, cut) ==
    LET Start(k) == FoldLeft(LAMBDA n, r : n + r.size + gap, 250, SubSeq(regions, 1, k - 1))
        text == FlattenSeq([k \in DOMAIN regions |-> noise \o RegionText(regions[k], Start(k))]) \o noise
        maps == proc_maps_load(<<Piece(zstr_dup_n(text, cut)), Piece(From(text, cut)), Piece(<< >>)>>)
        Entry(k) == [start |-> Start(k), end |-> Start(k) + regions[k].size, perms |-> regions[k].perms,
                     file_offset |-> 16 * regions[k].size, path |-> regions[k].path]
    IN  /\ maps = Parsed([entries |-> [k \in DOMAIN regions |-> Entry(k)], min_addr |-> 250])
        /\ \A a \in 249..Start(Len(regions) + 1) :
               LET over == {k \in DOMAIN regions : Start(k) <= a /\ a < Start(k) + regions[k].size}
               IN  ProcMapsFindByAddr(maps.v, a) = IF over = {} THEN << >> ELSE <<Entry(CHOOSE k \in over : TRUE)>>

Big(n, wide) == Reverse([k \in 1..wide |-> IF k > 3 THEN IF n < 0 THEN 255 ELSE 0 ELSE (n \div 256 ^ (k - 1)) % 256])
ZoneBlock(zone, wide) ==
    FlattenSeq([k \in DOMAIN zone.times |-> Big(zone.times[k].at, wide)]) \o [k \in DOMAIN zone.times |-> zone.times[k].type]
    \o FlattenSeq([k \in DOMAIN zone.types |-> Big(zone.types[k].utoff, 4) \o <<zone.types[k].isdst, 0>>]) \o <<85, 0>>
ZoneHeader(version, zone) ==
    Magic \o <<version>> \o [k \in 1..15 |-> 0] \o Big(0, 4) \o Big(0, 4) \o Big(0, 4) \o Big(Len(zone.times), 4) \o Big(Len(zone.types), 4) \o Big(2, 4)
\* The offset at a moment is that of the last transition up to it, whatever the
\* block of the first version says in front of the second; a file that is cut
\* short is refused.
ZoneSound(zone, other) ==
    LET v1 == ZoneHeader(0, zone) \o ZoneBlock(zone, 4)
        v2 == ZoneHeader(50, other) \o ZoneBlock(other, 4) \o ZoneHeader(50, zone) \o ZoneBlock(zone, 8)
        Offset(now) ==
            LET past == {k \in DOMAIN zone.times : zone.times[k].at <= now}
                plain == {k \in DOMAIN zone.types : zone.types[k].isdst = 0}
            IN  IF past # {} THEN Parsed(zone.types[zone.times[Max(past)].type + 1].utoff)
                ELSE IF plain = {} THEN NotParsed ELSE Parsed(zone.types[Min(plain)].utoff)
    IN  /\ \A now \in {t.at + d : t \in Range(zone.times), d \in {-1, 0, 1}} \cup {0} :
               zone.types # << >> => TzifOffsetFromBuf(v1, now) = Offset(now) /\ TzifOffsetFromBuf(v2, now) = Offset(now)
        /\ zone.types = << >> => ~TzifOffsetFromBuf(v1, 0).ok /\ ~TzifOffsetFromBuf(v2, 0).ok
        /\ \A file \in {v1, v2} : \A cut \in 0..Len(file) - 3 : ~TzifOffsetFromBuf(SubSeq(file, 1, cut), 0).ok

FilesSound(input) ==
    CASE input.kind = "address" -> AddressSound(input.ip, input.port)
      [] input.kind = "hosts" -> HostsSound(input.lines, input.cut, input.ended)
      [] input.kind = "servers" -> ServersSound(input.lines)
      [] input.kind = "maps" -> MapsSound(input.regions, input.gap, input.noise, input.cut)
      [] input.kind = "zone" -> ZoneSound(input.zone, input.other)
      [] OTHER -> TRUE
=============================================================================
