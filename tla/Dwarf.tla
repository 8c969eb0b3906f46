-------------------------------- MODULE Dwarf --------------------------------
(***************************************************************************)
(* The line number programs (Parsers/Dwarf.c) and the call frame           *)
(* information (Parsers/DwarfUnwind.c) of an executable, read from the     *)
(* bytes of their sections, 0 to 255 each.  A cursor is the bytes in front *)
(* of it.  Integers are u64, and those of four bytes and more keep what    *)
(* U64Max holds of them.  Memory never runs out.                           *)
(***************************************************************************)
EXTENDS Text

Wrapped(n) == n % (U64Max + 1)
Signed64(n) == IF n > I64Max THEN n - (U64Max + 1) ELSE n
Reading(v, rest) == [ok |-> TRUE, v |-> v, rest |-> rest]
Stuck(rest) == [ok |-> FALSE, rest |-> rest]

\* Little endian, `wide` bytes.
Word(bytes) == FoldRight(LAMBDA b, n : (n % ((U64Max + 1) \div 256)) * 256 + b, bytes, 0)
ReadWord(rest, wide) ==
    IF Len(rest) < wide THEN Stuck(rest) ELSE Reading(Word(SubSeq(rest, 1, wide)), From(rest, wide))

\* Seven bits in each byte, the lowest first; the high bit says that more follow.
RECURSIVE LebFrom(_, _, _)
LebFrom(rest, scale, sum) ==
    LET b == rest[1]
        now == Wrapped(sum + Wrapped((b % 128) * scale))
    IN  IF rest = << >> THEN Stuck(rest)
        ELSE IF b < 128 THEN Reading(<<now, 128 * scale, b>>, Tail(rest))
        ELSE IF 128 * scale > U64Max THEN Stuck(Tail(rest)) ELSE LebFrom(Tail(rest), 128 * scale, now)
BufReadULeb128(rest) == LET n == LebFrom(rest, 1, 0) IN IF n.ok THEN Reading(n.v[1], n.rest) ELSE n
BufReadSLeb128(rest) ==
    LET n == LebFrom(rest, 1, 0)
        negative == n.v[3] >= 64 /\ n.v[2] <= U64Max
    IN  IF n.ok THEN Reading(Signed64(IF negative THEN Wrapped(n.v[1] - n.v[2]) ELSE n.v[1]), n.rest) ELSE n

\* A string and its terminator; without one the cursor is at the end.
BufReadZstr(rest) ==
    LET n == Leading(rest, 1..255) IN IF n = Len(rest) THEN Stuck(<< >>) ELSE Reading(SubSeq(rest, 1, n), From(rest, n + 1))

\* A value of one kind; the kinds with an s in front are signed.
ReadOne(rest, kind) ==
    LET Signed(n, top) == IF n.ok THEN [n EXCEPT !.v = IF @ >= top THEN @ - 2 * top ELSE @] ELSE n
    IN  CASE kind = "u8" -> ReadWord(rest, 1)
          [] kind = "u16" -> ReadWord(rest, 2)
          [] kind = "u32" -> ReadWord(rest, 4)
          [] kind = "u64" -> ReadWord(rest, 8)
          [] kind = "s8" -> Signed(ReadWord(rest, 1), 128)
          [] kind = "s16" -> Signed(ReadWord(rest, 2), 32768)
          [] kind = "s32" -> Signed(ReadWord(rest, 4), I64Max + 1)
          [] kind = "s64" -> Signed(ReadWord(rest, 8), I64Max + 1)
          [] kind = "uleb" -> BufReadULeb128(rest)
          [] kind = "sleb" -> BufReadSLeb128(rest)
          [] kind = "zstr" -> BufReadZstr(rest)

\* Several of them; the values are a sequence.
ReadAll(rest, kinds) ==
    LET Next1(got, kind) ==
            LET one == ReadOne(got.rest, kind)
            IN  IF ~got.ok THEN got ELSE IF one.ok THEN Reading(Append(got.v, one.v), one.rest) ELSE one
    IN  FoldLeft(Next1, Reading(<< >>, rest), kinds)

\* An address moves on by `n` times `unit`, and stays at the top once there.
Advanced(address, unit, n) ==
    IF unit > 0 /\ n > (U64Max - address) \div unit THEN U64Max ELSE address + unit * n

-----------------------------------------------------------------------------
(* Line number programs *)

\* The header of a unit, up to its tables.  It is read from what is left of
\* the section, not of the unit.
HeaderKinds == [v3 |-> <<"u32", "u8", "u8", "s8", "u8", "u8">>, v4 |-> <<"u32", "u8", "u8", "u8", "s8", "u8", "u8">>]
decode_line_program_header(section) ==
    LET start == ReadAll(section, <<"u32", "u16">>)
        version == start.v[2]
        v3 == version = 3
        tail == ReadAll(start.rest, IF v3 THEN HeaderKinds.v3 ELSE HeaderKinds.v4)
        F(k) == tail.v[IF v3 /\ k > 2 THEN k - 1 ELSE k]
        count == IF F(7) = 0 THEN 0 ELSE F(7) - 1
    IN  CASE ~start.ok -> Stuck(section)
          [] start.ok /\ (version \notin {3, 4} \/ SubSeq(section, 1, 4) = <<255, 255, 255, 255>>) -> Stuck(section)
          [] OTHER ->
               IF ~tail.ok THEN Stuck(section)
               ELSE IF F(6) = 0 \/ Len(tail.rest) < count THEN Stuck(section)
               ELSE Reading([min_instr_len |-> F(2), default_is_stmt |-> F(4) # 0, line_base |-> F(5), line_range |-> F(6),
                          opcode_base |-> F(7), standard_opcode_lengths |-> SubSeq(tail.rest, 1, count)], From(tail.rest, count))

\* The tables of a unit: names up to an empty one, a file's name with three
\* numbers.  Once to collect the names and once to find what follows them.
RECURSIVE TableFrom(_, _, _)
TableFrom(rest, kinds, entries) ==
    LET entry == ReadAll(rest, kinds)
    IN  IF rest = << >> THEN Reading(entries, rest)
        ELSE IF rest[1] = 0 THEN Reading(entries, Tail(rest))
        ELSE IF entry.ok THEN TableFrom(entry.rest, kinds, Append(entries, entry.v)) ELSE entry
collect_cu_strings(rest) ==
    LET dirs == TableFrom(rest, <<"zstr">>, << >>)
        files == TableFrom(dirs.rest, <<"zstr", "uleb", "uleb", "uleb">>, << >>)
    IN  IF ~dirs.ok THEN dirs ELSE IF ~files.ok THEN files ELSE Reading([dirs |-> dirs.v, files |-> files.v], files.rest)
skip_line_program_tables(rest) == collect_cu_strings(rest).rest

\* The names of all units stand in one pool, each with its terminator.  What
\* stands at its beginning has the offset that means no name.
PooledLen(cs) == FoldLeft(LAMBDA n, e : n + Len(e[1]) + 1, 0, cs.dirs \o cs.files)
NameOf(cs, pool, k) == IF pool = 0 /\ k = 1 THEN << >> ELSE (cs.dirs \o cs.files)[k][1]

\* The registers that no row shows are left out.
lnp_reset(hdr) == [address |-> 0, file |-> 1, line |-> 1, column |-> 0, is_stmt |-> hdr.default_is_stmt, end_sequence |-> FALSE]
lnp_emit(cs, pool, st) ==
    LET file == cs.files[st.file]
        named == st.file \in 1..Len(cs.files)
        dir == IF named THEN file[2] ELSE 0
    IN  [address |-> st.address, line |-> st.line, column |-> st.column, is_stmt |-> st.is_stmt, end_sequence |-> st.end_sequence,
         file |-> IF named THEN NameOf(cs, pool, Len(cs.dirs) + st.file) ELSE << >>,
         dir |-> IF dir \in 1..Len(cs.dirs) THEN NameOf(cs, pool, dir) ELSE << >>]

\* What follows the length of an extended operation is its body; the cursor
\* goes to the end of the body whatever was read.
Extended(rest, hdr, st) ==
    LET length == BufReadULeb128(rest)
        body == SubSeq(length.rest, 1, length.v)
        operand == Tail(body)
        after == From(length.rest, length.v)
        To(next, rows) == Reading([st |-> next, rows |-> rows], after)
    IN  IF ~length.ok THEN length
        ELSE IF length.v = 0 \/ Len(length.rest) < length.v THEN Stuck(length.rest)
        ELSE CASE body[1] = 1 -> To(lnp_reset(hdr), <<[st EXCEPT !.end_sequence = TRUE]>>)
               [] body[1] = 2 -> IF Len(operand) \in {4, 8} THEN To([st EXCEPT !.address = Word(operand)], << >>) ELSE Stuck(after)
               [] body[1] = 4 -> IF BufReadULeb128(Tail(length.rest)).ok THEN To(st, << >>) ELSE Stuck(after)
               [] OTHER -> To(st, << >>)

LineOperands == [op \in 1..12 |-> CASE op \in {2, 4, 5, 12} -> <<"uleb">> [] op = 3 -> <<"sleb">> [] op = 9 -> <<"u16">> [] OTHER -> << >>]
Standard(rest, op, hdr, st) ==
    LET unknown == op > 12
        kinds == IF unknown THEN [k \in 1..hdr.standard_opcode_lengths[op] |-> "uleb"] ELSE LineOperands[op]
        got == ReadAll(rest, kinds)
        v == got.v[1]
        next == CASE op = 2 -> [st EXCEPT !.address = Advanced(@, hdr.min_instr_len, v)]
                  [] op = 3 -> [st EXCEPT !.line = Wrapped(@ + v)]
                  [] op = 4 -> [st EXCEPT !.file = v]
                  [] op = 5 -> [st EXCEPT !.column = v]
                  [] op = 6 -> [st EXCEPT !.is_stmt = ~@]
                  [] op = 8 -> [st EXCEPT !.address = Advanced(@, hdr.min_instr_len, (255 - hdr.opcode_base) \div hdr.line_range)]
                  [] op = 9 -> [st EXCEPT !.address = Advanced(@, 1, v)]
                  [] OTHER -> st
    IN  IF got.ok THEN Reading([st |-> next, rows |-> IF op = 1 THEN <<st>> ELSE << >>], got.rest) ELSE got

Special(rest, op, hdr, st) ==
    LET adjusted == op - hdr.opcode_base
        next == [st EXCEPT !.address = Advanced(@, hdr.min_instr_len, adjusted \div hdr.line_range),
                           !.line = Wrapped(@ + hdr.line_base + (adjusted % hdr.line_range))]
    IN  Reading([st |-> next, rows |-> <<next>>], rest)

RECURSIVE LinesFrom(_, _, _, _, _, _)
LinesFrom(rest, hdr, cs, pool, st, rows) ==
    LET op == rest[1]
        done == IF op = 0 THEN Extended(Tail(rest), hdr, st)
                ELSE IF op < hdr.opcode_base THEN Standard(Tail(rest), op, hdr, st) ELSE Special(Tail(rest), op, hdr, st)
        emitted == [k \in DOMAIN done.v.rows |-> lnp_emit(cs, pool, done.v.rows[k])]
    IN  IF rest = << >> THEN Reading(rows, rest)
        ELSE IF done.ok THEN LinesFrom(done.rest, hdr, cs, pool, done.v.st, rows \o emitted) ELSE done
run_line_program(rest, hdr, cs, pool) == LinesFrom(rest, hdr, cs, pool, lnp_reset(hdr), << >>)

\* Unit after unit.  One whose header is refused is left out; anything else
\* that is wrong leaves no row at all.  A header that reaches past its unit
\* aborts.
RECURSIVE UnitsFrom(_, _, _)
UnitsFrom(section, pool, rows) ==
    LET length == Word(SubSeq(section, 1, 4))
        hdr == decode_line_program_header(section)
        unit == SubSeq(section, 1, 4 + length)
        after == From(section, 4 + length)
        used == Len(section) - Len(hdr.rest)
        tables == collect_cu_strings(From(unit, used))
        run == run_line_program(skip_line_program_tables(From(unit, used)), hdr.v, tables.v, pool)
    IN  IF section = << >> THEN [outcome |-> "built", rows |-> rows]
        ELSE CASE Len(section) < 4 \/ SubSeq(section, 1, 4) = <<255, 255, 255, 255>> \/ 4 + length > Len(section) -> [outcome |-> "refused"]
               [] OTHER ->
                    IF ~hdr.ok THEN UnitsFrom(after, pool, rows)
                    ELSE IF used > Len(unit) THEN [outcome |-> "aborts"]
                    ELSE IF ~tables.ok THEN [outcome |-> "refused"]
                    ELSE IF ~run.ok THEN [outcome |-> "refused"]
                    ELSE UnitsFrom(after, pool + PooledLen(tables.v), rows \o run.v)
dwarf_lines_build_from_elf(section) == UnitsFrom(section, 0, << >>)

\* The last row at or below the address, in the sequence that covers it.
DwarfLinesResolve(rows, vaddr) ==
    LET Scan1(s, e) ==
            IF s.found # << >> THEN s
            ELSE IF e.end_sequence
                 THEN IF s.open # << >> /\ s.open[1].address <= vaddr /\ vaddr < e.address THEN [s EXCEPT !.found = <<s.best>>]
                      ELSE [s EXCEPT !.open = << >>, !.best = << >>]
            ELSE [s EXCEPT !.open = IF @ = << >> THEN <<e>> ELSE @, !.best = IF e.address <= vaddr THEN <<e>> ELSE @]
        end == FoldLeft(Scan1, [found |-> << >>, open |-> << >>, best |-> << >>], rows)
    IN  IF end.found = << >> THEN << >> ELSE end.found[1]

-----------------------------------------------------------------------------
(* Call frame information *)

\* A pointer is a value of one kind, counted from where it stands or not;
\* whatever was read is consumed when it is refused.
PointerKinds == (0 :> "u64") @@ (1 :> "uleb") @@ (2 :> "u16") @@ (3 :> "u32") @@ (4 :> "u64")
                @@ (9 :> "sleb") @@ (10 :> "s16") @@ (11 :> "s32") @@ (12 :> "s64")
decode_eh_ptr(rest, encoding, here_vaddr) ==
    LET value == ReadOne(rest, PointerKinds[encoding % 16])
        pcrel == (encoding \div 16) % 8 = 1
    IN  IF encoding = 255 \/ encoding % 16 \notin DOMAIN PointerKinds THEN Stuck(rest)
        ELSE IF ~value.ok \/ encoding >= 128 THEN Stuck(value.rest)
        ELSE Reading(Wrapped(IF pcrel THEN here_vaddr + value.v ELSE value.v), value.rest)

\* What the letters behind the z of an augmentation say; only R is kept.  A
\* letter nobody knows does not end the walk.
Augmentation(rest, letters) ==
    LET Letter1(s, a) ==
            LET enc == ReadWord(s.rest, 1)
            IN  CASE ~s.ok \/ a \notin {76, 80, 82} -> s
                  [] s.ok /\ a = 76 -> IF enc.ok THEN Reading(s.v, enc.rest) ELSE enc
                  [] s.ok /\ a = 80 -> IF enc.ok THEN Reading(s.v, decode_eh_ptr(enc.rest, enc.v, 0).rest) ELSE enc
                  [] s.ok /\ a = 82 -> enc
    IN  FoldLeft(Letter1, Reading(0, rest), letters)

parse_cie(body, cie_offset) ==
    LET start == ReadAll(body, <<"u8", "zstr">>)
        version == start.v[1]
        augmentation == start.v[2]
        sizes == ReadAll(start.rest, IF version >= 4 THEN <<"u8", "u8">> ELSE << >>)
        factors == ReadAll(sizes.rest, <<"uleb", "sleb", IF version >= 3 THEN "uleb" ELSE "u8">>)
        Cie(enc, has, insns) ==
            Reading([offset |-> cie_offset, code_alignment_factor |-> Signed64(factors.v[1]), data_alignment_factor |-> factors.v[2],
                  return_address_register |-> factors.v[3] % 256, fde_pointer_encoding |-> enc, has_augmentation |-> has,
                  initial_instructions |-> insns], << >>)
        length == BufReadULeb128(factors.rest)
        letters == Augmentation(length.rest, Tail(augmentation))
    IN  IF ~start.ok THEN start
        ELSE IF version \notin {1, 3, 4} THEN Stuck(body)
        ELSE IF ~sizes.ok \/ (version = 4 /\ sizes.v # <<8, 0>>) THEN Stuck(body)
        ELSE IF ~factors.ok THEN factors
        ELSE IF ~OneOf(augmentation, {122}) THEN Cie(0, FALSE, factors.rest)
        ELSE IF ~length.ok THEN length
        ELSE IF length.v > Len(length.rest) \/ ~letters.ok THEN Stuck(body)
        ELSE Cie(letters.v, TRUE, From(length.rest, length.v))

DwarfCfiFindCie(cies, cie_offset) == SelectSeq(cies, LAMBDA c : c.offset = cie_offset)
parse_fde(body, offset, cie_offset, cies, at_vaddr) ==
    LET cie == DwarfCfiFindCie(cies, cie_offset)[1]
        enc == cie.fde_pointer_encoding
        begin == decode_eh_ptr(body, enc, at_vaddr)
        range == decode_eh_ptr(begin.rest, enc % 16, at_vaddr)
        length == BufReadULeb128(range.rest)
        Fde(insns) == Reading([offset |-> offset, cie_offset |-> cie_offset, pc_begin |-> begin.v, pc_range |-> range.v, instructions |-> insns], << >>)
    IN  IF DwarfCfiFindCie(cies, cie_offset) = << >> THEN Stuck(body)
        ELSE IF ~begin.ok THEN begin
        ELSE IF ~range.ok THEN range
        ELSE IF ~cie.has_augmentation THEN Fde(range.rest)
        ELSE IF ~length.ok THEN length
        ELSE IF length.v > Len(length.rest) THEN Stuck(body) ELSE Fde(From(length.rest, length.v))

\* Record after record, up to one that ends the section or does not fit in it.
\* One that cannot be read is left out.  A record holds at least its id here:
\* the length of the body of a shorter one wraps.
RECURSIVE RecordsFrom(_, _, _, _, _)
RecordsFrom(section, at, section_addr, is_debug_frame, cfi) ==
    LET rest == From(section, at)
        length == Word(SubSeq(rest, 1, 4))
        id == Word(SubSeq(rest, 5, 8))
        body == SubSeq(rest, 9, 4 + length)
        is_cie == SubSeq(rest, 5, 8) = IF is_debug_frame THEN <<255, 255, 255, 255>> ELSE <<0, 0, 0, 0>>
        cie == parse_cie(body, at)
        fde == parse_fde(body, at, IF is_debug_frame THEN id ELSE at + 4 - id, cfi.cies, section_addr + at + 8)
        next == CASE is_cie -> IF cie.ok THEN [cfi EXCEPT !.cies = Append(@, cie.v)] ELSE cfi
                  [] ~is_cie -> IF (is_debug_frame \/ id <= at + 4) /\ fde.ok THEN [cfi EXCEPT !.fdes = Append(@, fde.v)] ELSE cfi
    IN  IF Len(rest) < 4 THEN cfi
        ELSE IF length = 0 \/ SubSeq(rest, 1, 4) = <<255, 255, 255, 255>> \/ length > Len(rest) - 4 \/ Len(rest) < 8 THEN cfi
        ELSE RecordsFrom(section, at + 4 + length, section_addr, is_debug_frame, next)
cfi_parse_section(section, section_addr, is_debug_frame) ==
    RecordsFrom(section, 0, section_addr, is_debug_frame, [cies |-> << >>, fdes |-> << >>])

\* The one section is only looked at when there is nothing in the other.
dwarf_cfi_build_from_elf(eh_frame, debug_frame, addr) ==
    IF eh_frame # << >> THEN cfi_parse_section(eh_frame, addr, FALSE) ELSE cfi_parse_section(debug_frame, addr, TRUE)

DwarfCfiFindFde(fdes, vaddr) == SelectSeq(fdes, LAMBDA f : f.pc_begin <= vaddr /\ vaddr < Wrapped(f.pc_begin + f.pc_range))

\* A row: the rule of the frame address, one for each register, and the
\* register of the return address.
CfaUndefined == [kind |-> "undefined", reg |-> 0, offset |-> 0]
Registers == 0..31
CFI_STATE_STACK == 4
cfi_vm_init(cie, fde_pc_begin) ==
    LET row == [cfa |-> CfaUndefined, regs |-> [r \in Registers |-> CfaUndefined], ra |-> cie.return_address_register]
    IN  [row |-> row, initial |-> row, stack |-> << >>, location |-> fde_pc_begin, stopped |-> FALSE,
         code_align |-> IF cie.code_alignment_factor > 0 THEN cie.code_alignment_factor ELSE 1,
         data_align |-> IF cie.data_alignment_factor # 0 THEN cie.data_alignment_factor ELSE 1]

\* The operands of an operation, the one in its low bits aside; operations that
\* are not here are refused.  An expression is its length and its bytes.
CfaOperands ==
    [op \in 0..22 |-> CASE op \in {0, 10, 11} -> << >>
                        [] op = 1 -> <<"u64">> [] op = 2 -> <<"u8">> [] op = 3 -> <<"u16">> [] op = 4 -> <<"u32">>
                        [] op \in {5, 9, 12, 16, 20, 22} -> <<"uleb", "uleb">>
                        [] op \in {6, 7, 8, 13, 14, 15} -> <<"uleb">>
                        [] op \in {17, 18, 21} -> <<"uleb", "sleb">>
                        [] op = 19 -> <<"sleb">>]

\* An advance over the address that is asked for stops in front of it.
Advances(vm, next, stop_at) ==
    IF vm.location <= stop_at /\ stop_at < next THEN [vm EXCEPT !.stopped = TRUE] ELSE [vm EXCEPT !.location = next]

\* What an operation changes of a rule; a register there is no room for is left
\* out.
Ruled(vm, reg, change) == IF reg \in Registers THEN [vm EXCEPT !.row.regs[reg] = change @@ @] ELSE vm
CfaRuled(vm, change) == [vm EXCEPT !.row.cfa = change @@ @]
RegRules == [op \in {5, 7, 8, 9, 16, 17, 20, 21, 22} |->
    CASE op \in {5, 17} -> "offset" [] op = 7 -> "undefined" [] op = 8 -> "same_value" [] op = 9 -> "register"
      [] op \in {16, 22} -> "expression" [] op \in {20, 21} -> "val_offset"]

\* The operations that have no operand in their low bits.
Extensions(vm, op, v, stop_at) ==
    LET Scaled(n) == Signed64(Wrapped(Signed64(n) * vm.data_align))
        top == Len(vm.stack)
    IN  CASE op = 0 -> vm
          [] op = 1 -> Advances(vm, v[1], stop_at)
          [] op \in 2..4 -> Advances(vm, Advanced(vm.location, vm.code_align, v[1]), stop_at)
          [] op \in {5, 17, 20, 21} -> Ruled(vm, v[1], [kind |-> RegRules[op], offset |-> Scaled(v[2])])
          [] op \in {7, 8, 16, 22} -> Ruled(vm, v[1], [kind |-> RegRules[op]])
          [] op = 6 -> IF v[1] \in Registers THEN Ruled(vm, v[1], vm.initial.regs[v[1]]) ELSE vm
          [] op = 9 -> Ruled(vm, v[1], [kind |-> RegRules[op], reg |-> v[2] % 256])
          [] op = 10 -> [vm EXCEPT !.stack = Append(@, vm.row)]
          [] op = 11 -> [vm EXCEPT !.stack = Front(@), !.row = [vm.stack[top] EXCEPT !.ra = vm.row.ra]]
          [] op = 12 -> CfaRuled(vm, [kind |-> "reg_offset", reg |-> v[1] % 256, offset |-> Signed64(v[2])])
          [] op = 13 -> CfaRuled(vm, [kind |-> "reg_offset", reg |-> v[1] % 256])
          [] op = 14 -> CfaRuled(vm, [kind |-> "reg_offset", offset |-> Signed64(v[1])])
          [] op = 15 -> CfaRuled(vm, [kind |-> "expression"])
          [] op = 18 -> CfaRuled(vm, [kind |-> "reg_offset", reg |-> v[1] % 256, offset |-> Scaled(v[2])])
          [] op = 19 -> CfaRuled(vm, [kind |-> "reg_offset", offset |-> Scaled(v[1])])

\* One operation.  The rows that can be remembered have a limit.
cfi_vm_step(vm, rest, stop_at) ==
    LET op == rest[1]
        high == op \div 64
        low == op % 64
        got == ReadAll(Tail(rest), IF high = 2 THEN <<"uleb">> ELSE IF high = 0 THEN CfaOperands[op] ELSE << >>)
        expression == IF high = 0 /\ op \in {15, 16, 22} THEN Last(got.v) ELSE 0
    IN  IF high = 0 /\ op \notin DOMAIN CfaOperands THEN Stuck(rest)
        ELSE IF ~got.ok THEN got
        ELSE IF \/ expression > Len(got.rest)
                \/ op = 10 /\ Len(vm.stack) >= CFI_STATE_STACK
                \/ op = 11 /\ vm.stack = << >>
             THEN Stuck(got.rest)
        ELSE CASE high = 0 -> Reading(Extensions(vm, op, got.v, stop_at), From(got.rest, expression))
               [] high = 1 -> Reading(Advances(vm, Advanced(vm.location, vm.code_align, low), stop_at), got.rest)
               [] high = 2 -> Reading(Ruled(vm, low, [kind |-> "offset", offset |-> Signed64(Wrapped(Signed64(got.v[1]) * vm.data_align))]), got.rest)
               [] high = 3 -> Reading(IF low \in Registers THEN Ruled(vm, low, vm.initial.regs[low]) ELSE vm, got.rest)

RECURSIVE cfi_vm_run(_, _, _)
cfi_vm_run(vm, insns, stop_at) ==
    LET done == cfi_vm_step(vm, insns, stop_at)
    IN  IF insns = << >> \/ vm.stopped THEN Reading(vm, insns)
        ELSE IF done.ok THEN cfi_vm_run(done.v, done.rest, stop_at) ELSE done

\* The row of an address: what the record of the unit says, then what its own
\* record says up to there.
DwarfCfiBuildRow(cfi, fde, target_pc) ==
    LET cie == DwarfCfiFindCie(cfi.cies, fde.cie_offset)
        first == cfi_vm_run(cfi_vm_init(cie[1], fde.pc_begin), cie[1].initial_instructions, U64Max)
        last == cfi_vm_run([first.v EXCEPT !.initial = first.v.row, !.stopped = FALSE], fde.instructions, target_pc)
    IN  IF target_pc < fde.pc_begin \/ target_pc >= Wrapped(fde.pc_begin + fde.pc_range) \/ cie = << >> THEN Stuck(<< >>)
        ELSE IF ~first.ok THEN first ELSE IF ~last.ok THEN last ELSE Reading(last.v.row, << >>)

-----------------------------------------------------------------------------
(* What is assembled is read back. *)

Little(n, wide) == [k \in 1..wide |-> IF k > 3 THEN 0 ELSE (n \div 256 ^ (k - 1)) % 256]
RECURSIVE Uleb(_), Sleb(_)
Uleb(n) == IF n < 128 THEN <<n>> ELSE <<128 + (n % 128)>> \o Uleb(n \div 128)
Sleb(n) == IF n \in -64..63 THEN <<n % 128>> ELSE <<128 + (n % 128)>> \o Sleb(n \div 128)

\* A unit with one directory, two files and special operations that move the
\* line by -1 to 2.
Unit(version, program) ==
    LET rest == Little(version, 2) \o Little(0, 4) \o <<1>> \o (IF version = 3 THEN << >> ELSE <<1>>) \o <<1, 255, 4, 13>>
                \o <<0, 1, 1, 1, 1, 0, 0, 0, 1, 0, 0, 1>> \o <<100, 0, 0, 102, 0, 1, 0, 0, 103, 0, 0, 0, 0, 0>> \o program
    IN  Little(Len(rest), 4) \o rest
BaseAddress == 300
RowCode(how, row) ==
    LET slow == (IF how = "fixed" THEN <<9>> \o Little(row.pc, 2) ELSE <<2>> \o Uleb(row.pc)) \o <<3>> \o Sleb(row.line) \o <<1>>
        op == 13 + row.line + 1 + 4 * row.pc
    IN  <<4, row.file>> \o IF how = "special" /\ row.line \in -1..2 /\ op <= 255 THEN <<op>>
                           ELSE IF how = "const" /\ row.pc >= 60 THEN <<8>> \o <<2>> \o Uleb(row.pc - 60) \o <<3>> \o Sleb(row.line) \o <<1>>
                           ELSE slow
LineCode(how, table) == <<0, 9, 2>> \o Little(BaseAddress, 8) \o FlattenSeq([k \in DOMAIN table |-> RowCode(how, table[k])]) \o <<2, 4, 0, 1, 1>>

\* Every encoding of a table of lines gives its rows, whatever stands around
\* the unit; an address has the last row at or below it; a program that is cut
\* short gives the first rows or none at all.  The directory of the first unit is
\* the first name in the pool and left open: Dwarf.c:644-645 gives it no name.
LineTableSound(how, version, table) ==
    LET Total(k) == FoldLeft(LAMBDA n, r : <<n[1] + r.pc, n[2] + r.line>>, <<BaseAddress, 1>>, SubSeq(table, 1, k))
        Expected(k) ==
            LET end == k > Len(table)
                at == Total(IF end THEN k - 1 ELSE k)
                file == table[IF end THEN k - 1 ELSE k].file
            IN  [address |-> at[1] + IF end THEN 4 ELSE 0, line |-> Wrapped(at[2]), column |-> 0, is_stmt |-> TRUE, end_sequence |-> end,
                 file |-> CASE file = 1 -> <<102>> [] file = 2 -> <<103>> [] OTHER -> << >>,
                 dir |-> IF file = 1 THEN <<100>> ELSE << >>]
        rows == [k \in 1..Len(table) + 1 |-> Expected(k)]
        Undirected(some) == [k \in DOMAIN some |-> IF some[k].file = <<102>> THEN [some[k] EXCEPT !.dir = << >>] ELSE some[k]]
        program == LineCode(how, table)
        unit == Unit(version, program)
        built == dwarf_lines_build_from_elf(unit \o Unit(5, program) \o unit)
        first == SubSeq(built.rows, 1, Len(rows))
        top == rows[Len(rows)].address
    IN  /\ built = [outcome |-> "built", rows |-> first \o rows] /\ Undirected(first) = Undirected(rows)
        /\ \A v \in BaseAddress - 1..top + 1 :
               LET below == {k \in 1..Len(table) : rows[k].address <= v}
               IN  DwarfLinesResolve(built.rows, v) = IF below = {} \/ v >= top THEN << >> ELSE <<first[Max(below)]>>
        /\ \A cut \in 0..Len(program) - 1 :
               LET short == dwarf_lines_build_from_elf(Unit(version, SubSeq(program, 1, cut)))
               IN  short.outcome = "refused" \/ IsPrefix(Undirected(short.rows), Undirected(rows))
        /\ \A cut \in 1..Len(unit) - 1 : dwarf_lines_build_from_elf(unit \o SubSeq(unit, 1, cut)).outcome = "refused"

\* The frame of a function: changes of its rows, each `pc` words of two bytes
\* behind the one before it.
Moves(form, n, at) ==
    CASE form = 0 -> <<64 + n>> [] form = 1 -> <<2, n>> [] form = 2 -> <<3>> \o Little(n, 2) [] form = 3 -> <<4>> \o Little(n, 4)
      [] form = 4 -> <<1>> \o Little(at, 8)
ChangeCode(form, c) ==
    CASE c.what = "offset" -> IF form = 1 THEN <<19>> \o Sleb(-c.n) ELSE <<14>> \o Uleb(8 * c.n)
      [] c.what = "frame" -> <<13, c.n>>
      [] c.what = "save" -> CASE form = 0 -> <<128 + c.n, 2>> [] form = 1 -> <<17, c.n>> \o Sleb(2) [] OTHER -> <<5, c.n, 2>>
      [] c.what = "restore" -> IF form = 0 THEN <<192 + c.n>> ELSE <<6, c.n>>
      [] c.what = "remember" -> <<10>>
      [] c.what = "recall" -> <<11>>
      [] c.what = "skip" -> <<0, 16, 40, 2, 9, 9>>
PcAfter(changes, k) == FoldLeft(LAMBDA n, c : n + 2 * c.pc, BaseAddress, SubSeq(changes, 1, k))
FrameCode(form, changes) ==
    FlattenSeq([k \in DOMAIN changes |-> Moves((form + k) % 5, changes[k].pc, PcAfter(changes, k)) \o ChangeCode((form + k) % 3, changes[k])])
Size == 8
Record(id, body) == Little(4 + Len(body), 4) \o id \o body
InitialCode == <<12, 7, 8, 144, 1>>
EhFrame(addr, code) ==
    LET cie == Record(<<0, 0, 0, 0>>, <<1, 122, 82, 0, 2, 120, 16, 1, 27>> \o InitialCode)
        at == Len(cie) + 8
    IN  cie \o Record(Little(Len(cie) + 4, 4), Little(Wrapped(BaseAddress - (addr + at)), 3) \o <<IF addr + at > BaseAddress THEN 255 ELSE 0>>
                      \o Little(Size, 4) \o <<0>> \o code)
DebugFrame(code) ==
    Record(<<255, 255, 255, 255>>, <<1, 0, 2, 120, 16>> \o InitialCode) \o Record(Little(0, 4), Little(BaseAddress, 8) \o Little(Size, 8) \o code)

\* What the changes say: a row that is recalled is the one that was remembered.
Depth(changes, j, k) == FoldLeft(LAMBDA n, c : n + (CASE c.what = "remember" -> 1 [] c.what = "recall" -> -1 [] OTHER -> 0), 0, SubSeq(changes, j, k))
Sensible(changes) == \A k \in 0..Len(changes) : Depth(changes, 1, k) \in 0..4
RECURSIVE RowAfter(_, _)
RowAfter(changes, k) ==
    LET c == changes[k]
        before == RowAfter(changes, k - 1)
        matching == {j \in 1..k - 1 : changes[j].what = "remember" /\ Depth(changes, j, k - 1) = 1}
    IN  IF k = 0 THEN [frame |-> 7, offset |-> 8, saved |-> (16 :> -8)]
        ELSE CASE c.what = "offset" -> [before EXCEPT !.offset = 8 * c.n]
               [] c.what = "frame" -> [before EXCEPT !.frame = c.n]
               [] c.what = "save" -> [before EXCEPT !.saved = IF c.n \in Registers THEN (c.n :> -16) @@ @ ELSE @]
               [] c.what = "restore" -> [before EXCEPT !.saved = IF c.n = 16 THEN (16 :> -8) @@ @ ELSE [r \in DOMAIN @ \ {c.n} |-> @[r]]]
               [] c.what = "recall" -> RowAfter(changes, Max(matching) - 1)
               [] OTHER -> before

\* Every encoding of a frame, in either section and wherever it is loaded, has
\* the row of an address that the changes up to it make; a row is recalled as
\* it was remembered; what makes no sense has no row, and nothing has one
\* outside of its function.
UnwindSound(form, changes) ==
    LET code == FrameCode(form, changes)
        Seen(row) == [frame |-> row.cfa.reg, offset |-> row.cfa.offset,
                      saved |-> [r \in {q \in Registers : row.regs[q].kind = "offset"} |-> row.regs[r].offset]]
    IN  \A cfi \in {dwarf_cfi_build_from_elf(EhFrame(addr, code), <<1>>, addr) : addr \in {16, 4096}}
                    \cup {dwarf_cfi_build_from_elf(<< >>, DebugFrame(code), 16)} :
            /\ Len(cfi.cies) = 1 /\ Len(cfi.fdes) = 1
            /\ \A pc \in BaseAddress - 1..BaseAddress + Size :
                   LET known == {k \in 0..Len(changes) : PcAfter(changes, k) <= pc}
                       inside == pc \in BaseAddress..BaseAddress + Size - 1
                       reached == SubSeq(changes, 1, Max(known))
                       row == DwarfCfiBuildRow(cfi, cfi.fdes[1], pc)
                   IN  /\ (DwarfCfiFindFde(cfi.fdes, pc) = cfi.fdes) <=> inside
                       /\ row.ok <=> inside /\ Sensible(reached)
                       /\ inside /\ Sensible(reached) => Seen(row.v) = RowAfter(reached, Len(reached))

\* Numbers of any length are read back, and refused when they end too soon.
NumbersSound(n) ==
    /\ BufReadULeb128(Uleb(n) \o <<7>>) = Reading(n, <<7>>)
    /\ \A m \in {n, -n} : m \in -(I64Max + 1)..I64Max => BufReadSLeb128(Sleb(m) \o <<7>>) = Reading(m, <<7>>)
    /\ \A cut \in 0..Len(Uleb(n)) - 1 : ~BufReadULeb128(SubSeq(Uleb(n), 1, cut)).ok

DwarfSound(input) ==
    CASE input.kind = "lines" -> LineTableSound(input.how, input.version, input.table)
      [] input.kind = "unwind" -> UnwindSound(input.form, input.changes)
      [] input.kind = "leb" -> NumbersSound(input.n)
      [] OTHER -> TRUE
=============================================================================
