----------------------------- MODULE MCLibrary -----------------------------
(***************************************************************************)
(* The parts of the library that keep their state to themselves, one in    *)
(* each behaviour: containers, bit vectors, integers, the resolver, and    *)
(* the pure algorithms, one input each.                                    *)
(***************************************************************************)
EXTENDS Containers, Int, Resolver, Numbers, Json, Messages, Arguments, SystemFiles, ObjectFiles

VARIABLE part   \* the part that runs; the others stay at rest

Owning == {<<FALSE, FALSE>>, <<FALSE, TRUE>>, <<TRUE, TRUE>>}
MCBoxes == {[form |-> "vec", self |-> VecInit(c[1], c[2])] : c \in Owning}
           \cup {[form |-> "list", self |-> ListInit(c[1], c[2])] : c \in Owning}
           \cup {[form |-> "stack", self |-> VecInitStack(4)]}
MCMostItems == [vec |-> 5, stack |-> 3, list |-> 3]
MCGiven == {<<1>>, <<2>>, <<2, 1>>, <<1, 3, 2>>}

\* A bit vector with every bit above its length set.
Stale(s) ==
    [data |-> [k \in 1..ByteBits * BYTES_FOR_BITS(Len(s)) |-> IF k <= Len(s) THEN s[k] ELSE 1],
     length |-> Len(s), capacity |-> Len(s)]
MCOperands == {Stale(s) : s \in {<<>>, <<0>>, <<1>>, <<1, 0>>, <<0, 1, 1>>, <<1, 0, 1, 1>>}}
BitsOf(n, length) == Stale([k \in 1..length |-> (n \div 2 ^ (k - 1)) % 2])
MCAddends == {BitsOf(p[1], p[2]) : p \in {<<0, 1>>, <<1, 1>>, <<6, 3>>, <<5, 5>>, <<23, 5>>, <<11, 4>>, <<127, 7>>, <<300, 9>>}}

Silent == [rcode |-> "silent", types |-> << >>]
NoName == [rcode |-> "NXDOMAIN", types |-> << >>]
Answers(types) == [rcode |-> "NOERROR", types |-> types]
OfName == {[A |-> a, AAAA |-> b] : a \in {Silent, NoName, Answers(<<"CNAME", "A", "A">>)},
                                   b \in {Silent, Answers(<< >>), Answers(<<"AAAA", "A">>)}}
NoOne == [A |-> NoName, AAAA |-> Silent]
MCZones == {<< >>, <<NoOne, NoOne, NoOne>>} \cup {<<a>> : a \in OfName} \cup {<<NoOne, a>> : a \in OfName}
           \cup {<<a, [A |-> Answers(<<"A">>), AAAA |-> Answers(<<"AAAA">>)]>> : a \in OfName}

MCBases == <<2, 3>>
MCNumbers == 0..300 \cup {1023, 1024, 1025, 2401}
MCModular == ((0..9) \X (0..6) \X (0..19)) \cup {<<a, 5, m>> : a \in {3, 10, 40}, m \in {25, 29, 41, 49, 73, 97}}
MCFloats == {Float(n, s, e) : n \in BOOLEAN, s \in {1, 4, 10, 25, 80}, e \in -2..2} \cup {FloatZero, Float(FALSE, 0, -1)}

\* A byte holds eight values here; 2047 and 2048 are the edge of i32, as
\* 8388607 and 8388608 are of i64, whose bytes are eight.
MCBytes == <<"NUL", "BEL", " ", "7", "B", "a", "f", "~">>
Words(letters, most) == UNION {[1..k -> letters] : k \in 0..most}
Reals == {Dec(n, d, e) : n \in BOOLEAN, d \in {0, 1, 9, 12, 95, 104, 1234}, e \in {-6, -3, -2, -1, 0, 1}}
Edges == {0, 1, -1, 3, -4, -5, 7, 9, 42, 511, 2047, 2048, -2048, -2049, 4095, 4096, 8388607, 8388608, -8388608, 16777215}
Days == {days_from_civil(y, m, 27) + k : y \in {-401, -1, 0, 4, 1600, 1900, 1970, 2000, 2023, 2024, 2100}, m \in {2, 12}, k \in 0..5}
TextInputs ==
    [kind : {"texts"}, s : Words({"a", "b"}, 4) \cup {Chars(" aB "), Chars("bAa")}, key : Words({"a", "b"}, 2) \cup {Chars("Ab")}]
    \cup [kind : {"natural"}, n : 0..70 \cup 8388600..8388610 \cup 16777210..16777220]
    \cup [kind : {"decimal"}, v : Reals \cup {Dec(FALSE, 99999, -2), Dec(TRUE, 5, 7), Dec(FALSE, 125, 6)}]
    \cup {i \in [kind : {"typed"}, n : Edges, type : Signeds \cup Unsigneds] : InRange(i.n, i.type)}
    \cup [kind : {"shield"}, s : Words({"a", "B", " ", "|", "BEL", "NUL", "\\", "\""}, 2) \cup {Chars("hello"), Chars("a |b"), Chars("no")}]
    \cup [kind : {"exact"}, v : Reals]
    \cup [kind : {"bittext"}, bits : Words({0, 1}, 5)]
    \cup [kind : {"day"}, day : Days]

MCHeaders == {HttpHeader(Chars("a"), Chars("b")), HttpHeader(Chars("H"), Chars("x: y"))}
MCTokens == {Chars(t) : t \in {"-n", "--num=3", "3", "-v", "-vv", "-qv", "--", "-", "--out-dir=o", "--help", "-qn", "--verbose=1"}}
Lists == Words({<< >>, Chars("{, ]:")}, 2)
Arrangements == UNION {{f \in [1..k -> 1..5] : \A i, j \in 1..k : f[i] = f[j] => i = j} : k \in {0, 2, 5}}

MCLines == {[pc |-> p, line |-> l, file |-> f] : <<p, l, f>> \in {<<0, 2, 1>>, <<3, -1, 1>>, <<70, 1, 2>>, <<3, 5, 3>>, <<200, -300, 1>>}}
Change(pc, what, n) == [pc |-> pc, what |-> what, n |-> n]
MCChanges == {Change(0, "offset", 3), Change(1, "offset", 2), Change(1, "frame", 6), Change(0, "save", 3), Change(1, "save", 40),
              Change(1, "restore", 16), Change(1, "restore", 3), Change(0, "remember", 0), Change(1, "recall", 0), Change(1, "skip", 0)}
Nested == {[k \in 1..depth |-> Change(0, "remember", 0)] : depth \in 4..5}
          \cup {<<Change(1, "remember", 0), c, Change(1, "recall", 0)>> : c \in MCChanges}
MCGroups == [1..8 -> {0, 31}] \cup {<<1, 0, 0, 65535, 0, 0, 0, 2>>, <<0, 0, 4660, 0, 0, 1, 0, 0>>}
Region(size, perms, path) == [size |-> size, perms |-> perms, path |-> Chars(path)]
MCRegions == {Region(1, {1, 4}, ""), Region(16, {1, 3}, "/a b"), Region(3, {}, "[s]")}
MCNoise == {<< >>, Chars("\n"), Chars("12-\n"), Chars("1-2 r--p\n")}
Turn(at, type) == [at |-> at, type |-> type]
Off(utoff, isdst) == [utoff |-> utoff, isdst |-> isdst]
MCTransitions == {<< >>, <<Turn(-9, 1)>>, <<Turn(-9, 0), Turn(3, 1), Turn(8, 0)>>, <<Turn(3, 0), Turn(70000, 1)>>}
MCTimes == [times : MCTransitions, types : {<<Off(-3600, 1), Off(7200, 0)>>, <<Off(3, 0), Off(5, 0)>>}]
           \cup [times : {<< >>}, types : {<< >>, <<Off(5, 1)>>}]
FileInputs ==
    [kind : {"lines"}, how : {"special", "standard", "fixed", "const"}, version : {3, 4}, table : Words(MCLines, 2) \ {<< >>}]
    \cup [kind : {"unwind"}, form : 0..2, changes : Words(MCChanges, 2) \cup Nested]
    \cup [kind : {"leb"}, n : {0, 1, 63, 64, 127, 128, 8191, 8192, 300, 8388607, 8388608, 16777215}]
    \cup [kind : {"address"}, ip : [1..4 -> {0, 9, 255}] \cup MCGroups, port : {0, 65535}]
    \cup [kind : {"hosts"}, lines : Words(1..9, 2), cut : {0, 7}, ended : BOOLEAN]
    \cup [kind : {"servers"}, lines : Words(1..7, 3) \ {<< >>}]
    \cup [kind : {"maps"}, regions : Words(MCRegions, 3) \ {<< >>}, gap : {0, 2}, noise : MCNoise, cut : {1, 20}]
    \cup [kind : {"zone"}, zone : MCTimes, other : MCTimes]

Sym(name, bind, value, size) == [name |-> name, bind |-> bind, value |-> value, size |-> size]
MCSymbols == {Sym(1, 0, 4, 8), Sym(2, 1, 6, 4), Sym(4, 1, 8, 0), Sym(7, 0, 8, 0), Sym(99, 2, 0, 20)}
Mach(name, type, sect, value) == [name |-> name, type |-> type, sect |-> sect, value |-> 4096 + value]   \* the section begins there
MCMachs == {Mach(1, 15, 1, 4), Mach(4, 14, 2, 8), Mach(2, 15, 1, 8), Mach(7, 15, 1, 9), Mach(1, 36, 1, 12), Mach(4, 1, 0, 3), Mach(0, 15, 3, 20)}
Pub(kind, segment, offset, name, gap) == [kind |-> kind, segment |-> segment, offset |-> offset, name |-> Ascii(name), gap |-> gap]
MCPublics == {Pub("pub", 1, 9, "f", 0), Pub("pub", 1, 2, "g", 520), Pub("pub", 2, 0, "h", 1), Pub("pub", 3, 0, "i", 0), Pub("pub", 1, 5, "", 0),
              Pub("other", 1, 7, "j", 0), Pub("endless", 1, 6, "k", 0), Pub("pub", 0, 6, "l", 2)}
ObjectInputs ==
    [kind : {"elf"}, first : BOOLEAN, symbols : Words(MCSymbols, 2), dynamic : {<<Sym(4, 0, 0, 3)>>, <<Sym(1, 0, 10, 12), Sym(4, 1, 11, 2)>>}]
    \cup [kind : {"macho"}, symbols : Words(MCMachs, 2)]
    \cup [kind : {"pe"}, plus : BOOLEAN, entries : Words({"good", "better", "endless", "old", "short", "outside", "other"}, 2)]
    \cup [kind : {"pdb"}, publics : Words(MCPublics, 2), backwards : BOOLEAN]
    \cup [kind : {"functions"}, hows : Words(DOMAIN FunctionForms, 2), rising : BOOLEAN, nested : BOOLEAN]

MessageInputs ==
    [kind : {"json"}, n : {42, -8388607}, list : Lists, b : {TRUE}, d : {Dec(FALSE, 0, 0), Dec(TRUE, 15, -1)}]
    \cup [kind : {"string"}, units : Words(DOMAIN Spellings, 3)]
    \cup [kind : {"literal"}, s : Words({"1", "0", "-", "+", ".", "e", " "}, 4)]
    \cup [kind : {"config"}, lines : Words(1..8, 2) \ {<< >>}, end : {<<"\n">>, CRLF}]
    \cup [kind : {"setting"}, n : {0, 1, -1, 42, 8388607, -8388608}]
    \cup [kind : {"request"}, method : {"GET", "OPTIONS"}, url : {Chars("/"), Chars("/a?b")}, headers : Words(MCHeaders, 4)]
    \cup [kind : {"response"}, code : {200, 227, 404}, type : {"text/csv"}, body : {<< >>, Chars("a: b")}, headers : Words(MCHeaders, 1)]
    \cup [kind : {"name"}, lens : Words({0, 1, 3}, 3) \cup {<<63>>, <<64>>, <<63, 63, 63, 61>>, <<63, 63, 63, 62>>, <<1, 63, 63, 63, 60>>}]
    \cup [kind : {"bytes"}, buf : Words({0, 1, 2, 97, 192}, 4)]
    \cup [kind : {"message"}, types : [1..2 -> {"A", "AAAA", "CNAME", "TXT"}], split : 0..2]
    \cup [kind : {"tokens"}, args : Words(MCTokens, 3)]
    \cup [kind : {"value"}, n : Edges \cup {4, 8, 31, 32, 63, 64, 4097}]
    \cup [kind : {"help"}, order : Arrangements]

ContainersRest == form = "list" /\ box = ListInit(FALSE, FALSE) /\ said = Called("init", 0, 0, << >>, FALSE, Done(box), << >>)
ResolverRest ==
    /\ zone = << >> /\ hits = 0 /\ stage = "done" /\ turn = [q |-> 1, s |-> 1, attempt |-> 0]
    /\ sock = NoSock /\ flight = {} /\ found = FALSE /\ addrs = << >> /\ tries = [q \in 1..2 |-> [s \in Servers |-> 0]]
InputRest == input = [kind |-> "none"]

LibraryInit ==
    \/ part = "containers" /\ ContainersInit /\ BitsInit /\ IntsInit /\ ResolverRest /\ InputRest
    \/ part = "bits" /\ ContainersRest /\ BitsInit /\ IntsInit /\ ResolverRest /\ InputRest
    \/ part = "ints" /\ ContainersRest /\ BitsInit /\ IntsInit /\ ResolverRest /\ InputRest
    \/ part = "resolver" /\ ContainersRest /\ BitsInit /\ IntsInit /\ ResolverInit /\ InputRest
    \/ part = "algorithms" /\ ContainersRest /\ BitsInit /\ IntsInit /\ ResolverRest /\ (ArithmeticInit \/ InputRest)

LibraryNext ==
    \/ part = "containers" /\ ContainersNext /\ UNCHANGED <<part, vector, did, acc, asked, resolver, input>>
    \/ part = "bits" /\ BitsNext /\ UNCHANGED <<part, contents, acc, asked, resolver, input>>
    \/ part = "ints" /\ IntsNext /\ UNCHANGED <<part, contents, vector, did, resolver, input>>
    \/ part = "resolver" /\ ResolverNext /\ UNCHANGED <<part, contents, vector, did, acc, asked, input>>

    \/ /\ part = "algorithms" /\ InputRest
       /\ input' \in TextInputs \cup MessageInputs \cup FileInputs \cup ObjectInputs /\ UNCHANGED <<part, contents, vector, did, acc, asked, resolver>>

LibrarySpec == LibraryInit /\ [][LibraryNext]_<<part, contents, bitvector, integer, resolver, input>>
LibraryView == <<part, form, box, vector, acc, resolver, input>>

\* No answer about a bit vector, bitvec_hash apart, or about the integer one
\* stands for depends on the bits above its length (BitVec.c, int_compare,
\* int_hash); and rotations undo each other.
QueriesExact == BitQueriesExact /\ IntQueriesExact

\* Searching, splitting and replacing agree with each other; numbers, texts and
\* dates that are written read back as they were; fields are as wide as they
\* say.  A patch, a line to a file or a scan of a file or of binary records that
\* fails leaves its output or its input where it was; appending that fails
\* leaves what was there, and behind it what it wrote up to the failure
\* (Str.c, Zstr.c, Io.c, DateTime.c).
TextExact == [][TextSound(input') /\ FormatSound(input')]_input

\* Documents, configurations, requests, messages and command lines that are
\* written or spelled out are read back as they were; of these, what is cut
\* short or broken is refused and the cursor stays where it was, but for what
\* their definitions say they leave open (JSON.c, KvConfig.c, Http.c, Dns.c,
\* ArgParse.c).  Tables of lines and frames are read back from
\* every encoding, and the files of the system from every way they arrive
\* (Dwarf.c, DwarfUnwind.c, Socket.c, Sys/Dns.c, ProcMaps.c, Tzif.c).
\* Executables and debug files give the symbols, sections and functions that
\* were put in them, and an address the symbol over it, however the file is
\* laid out (Elf.c, MachO.c, Pe.c, Pdb.c, DwarfInfo.c).
ParsersExact ==
    [][/\ JsonSound(input') /\ ConfigSound(input') /\ HttpSound(input')
       /\ DnsSound(input') /\ ArgsSound(input') /\ DwarfSound(input') /\ FilesSound(input')
       /\ ObjectsSound(input')]_input
=============================================================================
