----------------------------- MODULE Arguments -----------------------------
(***************************************************************************)
(* The command line parser (Std/ArgParse.c).  A specification keeps the    *)
(* value v of the variable it was registered with as <<v>>, and no two of  *)
(* them have one variable; << >> is a name that is NULL.  The tokens are those behind the name of  *)
(* the program.  Messages are left out, the help page is not.              *)
(***************************************************************************)
EXTENDS Scan

Required == "REQUIRED"
Optional == "OPTIONAL"
Flag == "FLAG"
Count == "COUNT"
Positional == "POSITIONAL"
NoTarget == << >>   \* what the automatic --help has

zstr_eq(a, b) == a # << >> /\ a = b

\* The end pointer must have moved and stand at the end.
parse_signed(s, type) ==
    LET number == ZstrInteger(s)
    IN  IF number.used = 0 \/ number.used < Len(s) THEN NotParsed ELSE IF InRange(number.v, type) THEN Parsed(number.v) ELSE NotParsed
parse_unsigned(s, type) ==
    LET number == Accumulated(s, 10, 0)
    IN  IF s = << >> \/ ~(Range(s) \subseteq IS_DIGIT) THEN NotParsed
        ELSE IF number.ok THEN IF InRange(number.v, type) THEN number ELSE NotParsed ELSE NotParsed
parse_bool(s) ==
    CASE s \in {Chars("true"), Chars("1"), Chars("yes"), Chars("on")} -> Parsed(TRUE)
      [] s \in {Chars("false"), Chars("0"), Chars("no"), Chars("off")} -> Parsed(FALSE)
      [] OTHER -> NotParsed
parse_f64_full(s) == LET number == ZstrToF64(s) IN IF number.used = 0 \/ number.used < Len(s) THEN NotParsed ELSE Parsed(number.v)

store_value(kind, value) ==
    CASE kind \in {"ZSTR", "STR"} -> Parsed(value)
      [] kind = "BOOL" -> parse_bool(value)
      [] kind \in Unsigneds -> parse_unsigned(value, kind)
      [] kind \in Signeds -> parse_signed(value, kind)
      [] kind \in {"f32", "f64"} -> parse_f64_full(value)

count_bump(kind, n) == (n + 1) % (ByteRadix ^ Widths[kind])

\* The first of its name, positionals having none; 0 is NULL.
FirstIn(found) == IF found = {} THEN 0 ELSE Min(found)
find_long(specs, name) == FirstIn({k \in DOMAIN specs : specs[k].role # Positional /\ zstr_eq(specs[k].long, name)})
find_short(specs, name) == FirstIn({k \in DOMAIN specs : specs[k].role # Positional /\ zstr_eq(specs[k].short, name)})

ArgSpec(role, short, long, help, kind, value) ==
    [role |-> role, short |-> short, long |-> long, help |-> help, kind |-> kind, value |-> value, seen |-> FALSE]

\* Registration aborts when the kind does not suit the role or there is no name.
arg_register(specs, spec) ==
    IF \/ spec.kind = "INVALID"
       \/ spec.role = Flag /\ spec.kind # "BOOL"
       \/ spec.role = Count /\ spec.kind \notin Unsigneds
       \/ spec.long = << >> /\ (spec.role = Positional \/ spec.short = << >>)
    THEN NotParsed ELSE Parsed(Append(specs, spec))

-----------------------------------------------------------------------------

\* How a step ends, what it leaves of the specifications and of the tokens.
Step(result, specs, rest) == [result |-> result, specs |-> specs, rest |-> rest]
Set(specs, k, value) == [specs EXCEPT ![k].value = <<value>>, ![k].seen = TRUE]
Used(specs, k) == Set(specs, k, IF specs[k].role = Flag THEN TRUE ELSE count_bump(specs[k].kind, specs[k].value[1]))

\* The value is behind the sign of a long option, or the next token.
handle_option_token(specs, tok, rest) ==
    LET is_long == tok[1] = "-" /\ tok[2] = "-"
        eq == IF is_long THEN ZstrFindChar(tok, "=") ELSE Nowhere
        flag == IF eq = Nowhere THEN tok ELSE SubSeq(tok, 1, eq)
        k == IF is_long THEN find_long(specs, flag) ELSE find_short(specs, flag)
        val == IF eq = Nowhere THEN rest[1] ELSE From(tok, eq + 1)
        left == IF eq = Nowhere THEN Tail(rest) ELSE rest
        stored == store_value(specs[k].kind, val)
    IN  CASE eq >= 128 \/ k = 0 -> Step("ERROR", specs, rest)
          [] eq < 128 /\ k > 0 ->
               IF specs[k].long = Chars("--help") THEN Step("HELP", specs, rest)
               ELSE IF specs[k].role \in {Flag, Count}
                    THEN IF eq = Nowhere THEN Step("OK", Used(specs, k), rest) ELSE Step("ERROR", specs, rest)
               ELSE IF eq = Nowhere /\ rest = << >> THEN Step("ERROR", specs, rest)
               ELSE IF stored.ok THEN Step("OK", Set(specs, k, stored.v), left) ELSE Step("ERROR", specs, left)

\* The letters in front of one that is refused have had their effect.  The
\* automatic -h has no variable to set.
handle_short_bundle(specs, tok, rest) ==
    FoldLeft(LAMBDA step, letter :
               LET k == find_short(step.specs, <<"-", letter>>)
               IN  IF step.result # "OK" THEN step
                   ELSE IF k = 0 THEN [step EXCEPT !.result = "ERROR"]
                   ELSE IF step.specs[k].value = NoTarget THEN [step EXCEPT !.result = "ABORTS"]
                   ELSE IF step.specs[k].role \in {Flag, Count} THEN [step EXCEPT !.specs = Used(@, k)]
                   ELSE [step EXCEPT !.result = "ERROR"],
             Step("OK", specs, rest), Tail(tok))

Slots(specs) == SetToSortSeq({k \in DOMAIN specs : specs[k].role = Positional}, <)

StorePositional(specs, next, tok, rest) ==
    LET k == Slots(specs)[next + 1]
        stored == store_value(specs[k].kind, tok)
    IN  IF next >= Len(Slots(specs)) THEN Step("ERROR", specs, rest)
        ELSE IF stored.ok THEN Step("OK", Set(specs, k, stored.v), rest) ELSE Step("ERROR", specs, rest)

Token(specs, tok, rest) ==
    IF tok[2] = "-" THEN handle_option_token(specs, tok, rest)
    ELSE LET first == find_short(specs, SubSeq(tok, 1, 2))
         IN  IF Len(tok) = 2 THEN handle_option_token(specs, tok, rest)
             ELSE IF first = 0 THEN Step("ERROR", specs, rest)
             ELSE IF specs[first].role \in {Flag, Count} THEN handle_short_bundle(specs, tok, rest) ELSE Step("ERROR", specs, rest)

RECURSIVE RunFrom(_, _, _, _)
RunFrom(specs, args, rest_positional, next) ==
    LET tok == args[1]
        marked == ~rest_positional /\ Len(tok) >= 2 /\ tok[1] = "-"
        step == IF marked THEN Token(specs, tok, Tail(args)) ELSE StorePositional(specs, next, tok, Tail(args))
        missing == \E k \in DOMAIN specs : specs[k].role \in {Required, Positional} /\ ~specs[k].seen
    IN  CASE args = << >> -> Step(IF missing THEN "ERROR" ELSE "OK", specs, args)
          [] args # << >> /\ marked /\ tok = <<"-", "-">> -> RunFrom(specs, Tail(args), TRUE, next)
          [] OTHER -> IF step.result # "OK" THEN step
                      ELSE RunFrom(step.specs, step.rest, rest_positional, IF marked THEN next ELSE next + 1)

HelpSpec == ArgSpec(Flag, Chars("-h"), Chars("--help"), Chars("print this help"), "BOOL", NoTarget)
WithHelp(specs) == IF \E k \in DOMAIN specs : zstr_eq(specs[k].long, HelpSpec.long) THEN specs ELSE Append(specs, HelpSpec)

\* What was seen in an earlier run counts in the next one.
ArgParseRun(specs, args) == RunFrom(WithHelp(specs), args, FALSE, 0)

-----------------------------------------------------------------------------
(* The help page. *)

append_metavar(spec) ==
    LET name == IF starts_with(spec.long, Chars("--")) THEN From(spec.long, 2) ELSE spec.long
    IN  IF spec.long = << >> THEN Chars("VALUE") ELSE [k \in DOMAIN name |-> IF name[k] = "-" THEN "_" ELSE TO_UPPER(name[k])]
Angled(text) == <<"<">> \o text \o <<">">>

spec_format_left(spec) ==
    LET names == IF spec.short = << >> THEN Blanks(4) ELSE spec.short \o (IF spec.long = << >> THEN << >> ELSE Chars(", "))
        value == IF spec.role \in {Required, Optional} THEN <<" ">> \o Angled(append_metavar(spec)) ELSE << >>
    IN  Blanks(2) \o IF spec.role = Positional THEN Angled(spec.long) ELSE names \o spec.long \o value

Usage(name, specs) ==
    LET Shown2(role, Text(_)) == FlattenSeq([k \in DOMAIN specs |-> IF specs[k].role = role THEN <<" ">> \o Text(specs[k]) ELSE << >>])
        Valued(spec) == (IF spec.long = << >> THEN spec.short ELSE spec.long) \o <<" ">> \o Angled(append_metavar(spec))
        Slot(spec) == Angled(spec.long)
    IN  Chars("usage: ") \o name \o (IF \E k \in DOMAIN specs : specs[k].role \notin {Required, Positional} THEN Chars(" [OPTIONS]") ELSE << >>)
        \o Shown2(Required, Valued) \o Shown2(Positional, Slot)

\* Its lines; only the first 64 specifications have one of their own.
print_help(name, about, specs) ==
    LET shown == SubSeq(specs, 1, IF Len(specs) > 64 THEN 64 ELSE Len(specs))
        width == Max({0} \cup {Len(spec_format_left(shown[k])) : k \in DOMAIN shown})
        Row(spec) == LET left == spec_format_left(spec) IN left \o Blanks(width + 2 - Len(left)) \o spec.help
        Rows(ks) == [j \in DOMAIN ks |-> Row(shown[ks[j]])]
        slots == Slots(shown)
        options == SetToSortSeq(DOMAIN shown \ Range(slots), <)
    IN  <<name \o (IF about = << >> THEN << >> ELSE Chars(" -- ") \o about), << >>, Usage(name, specs), << >>>>
        \o (IF slots = << >> THEN << >> ELSE <<Chars("positional arguments:")>> \o Rows(slots) \o <<<< >>>>)
        \o (IF options = << >> THEN << >> ELSE <<Chars("options:")>> \o Rows(options))

-----------------------------------------------------------------------------

AsText(n) == (IF n < 0 THEN <<"-">> ELSE << >>) \o Decimal(IF n < 0 THEN -n ELSE n)
Registered(specs, spec) == arg_register(specs, spec).v
Example ==
    FoldLeft(Registered, << >>,
      <<ArgSpec(Optional, Chars("-n"), Chars("--num"), Chars("a number"), "i8", <<0>>),
        ArgSpec(Positional, << >>, Chars("file"), Chars("a file"), "STR", << << >> >>),
        ArgSpec(Count, Chars("-v"), Chars("--verbose"), Chars("more"), "u8", <<0>>),
        ArgSpec(Flag, Chars("-q"), << >>, Chars("less"), "BOOL", <<FALSE>>),
        ArgSpec(Required, << >>, Chars("--out-dir"), Chars("where to"), "ZSTR", << << >> >>)>>)

\* The other spellings of a token.
Spelled(tok) ==
    LET eq == ZstrFindChar(tok, "=")
    IN  CASE tok = Chars("-vv") -> <<Chars("-v"), Chars("--verbose")>>
          [] tok = Chars("-qv") -> <<Chars("-q"), Chars("-v")>>
          [] tok = Chars("-n") -> <<Chars("--num")>>
          [] starts_with(tok, Chars("--num=")) \/ starts_with(tok, Chars("--out-dir=")) -> <<SubSeq(tok, 1, eq), From(tok, eq + 1)>>
          [] OTHER -> <<tok>>

\* However options are spelled, a run comes to the same; a run that succeeds
\* has seen all it needs; what follows a refused token or --help has no effect,
\* and what follows -- only fills the slots; a complete run sets the same
\* whatever an earlier one has left.
TokensSound(args) ==
    LET run == ArgParseRun(Example, args)
        ready == ArgParseRun(Example, <<Chars("--out-dir=o"), Chars("f")>>).specs
        Settings(specs) == [k \in DOMAIN specs |-> specs[k].value]
        later == ArgParseRun(ready, args)
    IN  /\ args # << >> => ArgParseRun(Example, Spelled(args[1]) \o Tail(args)) = run
        /\ Len(args) > 1 /\ args[1] = Chars("-v") =>
             ArgParseRun(Example, <<args[1]>> \o Spelled(args[2]) \o SubSeq(args, 3, Len(args))) = run
        /\ run.result = "OK" => /\ \A k \in DOMAIN Example : Example[k].role \in {Required, Positional} => run.specs[k].seen
                               /\ \A k \in DOMAIN Example : ~run.specs[k].seen => run.specs[k].value = Example[k].value
        /\ run.rest # << >> => ArgParseRun(Example, SubSeq(args, 1, Len(args) - Len(run.rest))).specs = run.specs
        /\ run.result = "HELP" => \E k \in DOMAIN args : args[k] \in {Chars("-h"), Chars("--help")}
        /\ LET forced == ArgParseRun(Example, <<Chars("--out-dir=o"), Chars("--")>> \o args)
           IN  (forced.result = "OK" <=> Len(args) = 1) /\ (args # << >> => forced.specs[2].value = <<args[1]>>)
        /\ run.result = "OK" => later.result = "OK" /\ Settings(later.specs) = Settings(run.specs)

\* A number is taken exactly by the kinds that hold it, and the variable stays
\* as it was otherwise; nothing else may be in the token.  What does not fit an
\* i64 is left open: ArgParse.c:124-127 refuses it, the code takes the nearest.
ValueSound(n) ==
    /\ \A kind \in Signeds \cup Unsigneds :
         LET self == arg_register(<< >>, ArgSpec(Optional, << >>, Chars("--n"), << >>, kind, <<7>>)).v
             run == ArgParseRun(self, <<Chars("--n"), AsText(n)>>)
             fits == InRange(n, kind)
         IN  /\ fits \/ kind # "i64" => (run.result = "OK" <=> fits) /\ run.specs[1].value = <<IF fits THEN n ELSE 7>>
             /\ \A more \in {"x", " ", ".0"} : ~store_value(kind, AsText(n) \o Chars(more)).ok
    /\ SameDec(store_value("f64", AsText(n) \o Chars(".50")).v, Dec(n < 0, 10 * (IF n < 0 THEN -n ELSE n) + 5, -1))

\* The help page lists every specification once, positionals first, with all
\* the explanations below each other.
HelpSound(specs) ==
    LET page == print_help(Chars("p"), << >>, specs)
        Lines(help) == {k \in DOMAIN page : help # << >> /\ ends_with(page[k], help)}
        column == UNION {{Len(page[k]) - Len(specs[j].help) : k \in Lines(specs[j].help)} : j \in DOMAIN specs}
    IN  /\ \A j \in DOMAIN specs : Cardinality(Lines(specs[j].help)) = 1
        /\ Cardinality(column) = (IF specs = << >> THEN 0 ELSE 1)
        /\ \A i, j \in DOMAIN specs :
             specs[i].role = Positional /\ specs[j].role # Positional => \A a \in Lines(specs[i].help), b \in Lines(specs[j].help) : a < b

ArgsSound(input) ==
    CASE input.kind = "tokens" -> TokensSound(input.args)
      [] input.kind = "value" -> ValueSound(input.n)
      [] input.kind = "help" -> HelpSound([k \in DOMAIN input.order |-> Example[input.order[k]]])
      [] OTHER -> TRUE
=============================================================================
