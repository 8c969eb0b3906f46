---------------------------- MODULE ObjectFiles ----------------------------
(***************************************************************************)
(* Executables and their debug files, read from their bytes: ELF           *)
(* (Parsers/Elf.c), Mach-O (Parsers/MachO.c), PE (Parsers/Pe.c), PDB       *)
(* (Parsers/Pdb.c), and the functions that the debug information of an ELF *)
(* file lists (Parsers/DwarfInfo.c).  Bytes, cursors and integers are      *)
(* those of Dwarf: U64Max stands for the largest u32 as well.  A file that *)
(* is refused leaves nothing behind.  The caps on the numbers of symbols   *)
(* and streams are beyond a file that fits in the model.                   *)
(***************************************************************************)
EXTENDS Dwarf

\* A part of a file that is inside it, as the tables in it have to be.
elf_range_ok(file, offset, size) == offset <= Len(file) /\ size <= Len(file) - offset
Slice(file, offset, size) == SubSeq(file, offset + 1, offset + size)
Copies(kind, n) == [k \in 1..n |-> kind]
Table(bytes, wide, kinds) == [k \in 1..Len(bytes) \div wide |-> ReadAll(Slice(bytes, wide * (k - 1), wide), kinds).v]
Ascii(text) == LET s == Chars(text) IN [k \in DOMAIN s |-> Code[s[k]]]
NulName(bytes) == SubSeq(bytes, 1, Leading(bytes, 1..255))
First(s) == IF s = << >> THEN << >> ELSE <<s[1]>>

-----------------------------------------------------------------------------
(* ELF *)

ElfIdent == <<127, 69, 76, 70, 2, 1>>
ElfHeaderKinds == Copies("u16", 2) \o <<"u32">> \o Copies("u64", 3) \o <<"u32">> \o Copies("u16", 6)
elf_decode_header(file) ==
    LET h == ReadAll(From(file, 16), ElfHeaderKinds).v
    IN  IF Len(file) < 64 \/ ~IsPrefix(ElfIdent, file) THEN NotParsed
        ELSE IF h[11] # 64 /\ h[12] > 0 THEN NotParsed
        ELSE Parsed([type |-> h[1], machine |-> h[2], entry |-> h[4], phoff |-> h[5], shoff |-> h[6],
                     phnum |-> h[10], shnum |-> h[12], shstrndx |-> h[13]])

\* A name that does not end inside of its table is empty.
elf_str_at(strings, idx) ==
    LET name == BufReadZstr(From(strings, idx)) IN IF idx < Len(strings) /\ name.ok THEN name.v ELSE << >>

SectionKinds == Copies("u32", 2) \o Copies("u64", 4) \o Copies("u32", 2) \o Copies("u64", 2)
elf_decode_sections(file, h) ==
    LET rows == Table(Slice(file, h.shoff, 64 * h.shnum), 64, SectionKinds)
        names == rows[h.shstrndx + 1]
        Section(r) == [name |-> elf_str_at(Slice(file, names[5], names[6]), r[1]), type |-> r[2], flags |-> r[3], addr |-> r[4],
                       offset |-> r[5], size |-> r[6], link |-> r[7], info |-> r[8], entry_size |-> r[10]]
    IN  IF ~elf_range_ok(file, h.shoff, 64 * h.shnum) \/ h.shstrndx >= h.shnum THEN NotParsed
        ELSE IF ~elf_range_ok(file, names[5], names[6]) THEN NotParsed
        ELSE Parsed([k \in DOMAIN rows |-> Section(rows[k])])

elf_decode_segments(file, h) ==
    LET rows == Table(Slice(file, h.phoff, 56 * h.phnum), 56, Copies("u32", 2) \o Copies("u64", 6))
        Segment(r) == [type |-> r[1], flags |-> r[2], offset |-> r[3], vaddr |-> r[4], filesz |-> r[6], memsz |-> r[7], align |-> r[8]]
    IN  IF h.phnum = 0 THEN Parsed(<< >>)
        ELSE IF elf_range_ok(file, h.phoff, 56 * h.phnum) THEN Parsed([k \in DOMAIN rows |-> Segment(rows[k])]) ELSE NotParsed

ElfSymbol(r, strings) ==
    [name |-> elf_str_at(strings, r[1]), bind |-> r[2] \div 16, type |-> r[2] % 16, section_index |-> r[4], value |-> r[5], size |-> r[6]]
elf_decode_symbol_table(file, sections, table) ==
    LET strings == sections[table.link + 1]
        rows == Table(Slice(file, table.offset, table.size), 24, <<"u32", "u8", "u8", "u16", "u64", "u64">>)
    IN  IF table.size = 0 THEN Parsed(<< >>)
        ELSE IF table.entry_size # 24 \/ ~elf_range_ok(file, table.offset, table.size) \/ table.link >= Len(sections) THEN NotParsed
        ELSE IF ~elf_range_ok(file, strings.offset, strings.size) THEN NotParsed
        ELSE Parsed([k \in DOMAIN rows |-> ElfSymbol(rows[k], Slice(file, strings.offset, strings.size))])

\* The last table of either type counts.
SYMTAB == 2
DYNSYM == 11
elf_decode_symbols(file, sections, type) ==
    LET tables == SelectSeq(sections, LAMBDA s : s.type = type)
    IN  IF tables = << >> THEN Parsed(<< >>) ELSE elf_decode_symbol_table(file, sections, Last(tables))

elf_find_section_zstr(sections, name) == First(SelectSeq(sections, LAMBDA s : s.name = name))

\* What a stripped file says of its debug file; when it makes no sense, nothing.
BuildIdName == Ascii(".note.gnu.build-id")
DebugLinkName == Ascii(".gnu_debuglink")
elf_decode_build_id(file, note) ==
    LET head == ReadAll(Slice(file, note.offset, note.size), Copies("u32", 3))
        padded == 4 * ((head.v[1] + 3) \div 4)
    IN  IF ~elf_range_ok(file, note.offset, note.size) \/ note.size < 16 THEN << >>
        ELSE IF head.v[3] # 3 \/ padded > Len(head.rest) THEN << >>
        ELSE IF Len(head.rest) - padded < head.v[2] THEN << >> ELSE <<Slice(head.rest, padded, head.v[2])>>
elf_decode_debug_link(file, dl) ==
    LET bytes == Slice(file, dl.offset, dl.size)
        name == NulName(SubSeq(bytes, 1, dl.size - 4))
    IN  IF ~elf_range_ok(file, dl.offset, dl.size) \/ dl.size < 5 THEN << >>
        ELSE IF name = << >> \/ Len(name) >= dl.size - 4 THEN << >> ELSE <<[name |-> name, crc |-> Word(From(bytes, dl.size - 4))]>>
elf_decode_debug_metadata(file, sections) ==
    LET note == elf_find_section_zstr(sections, BuildIdName)
        dl == elf_find_section_zstr(sections, DebugLinkName)
    IN  [build_id |-> IF note = << >> THEN << >> ELSE elf_decode_build_id(file, note[1]),
         debuglink |-> IF dl = << >> THEN << >> ELSE elf_decode_debug_link(file, dl[1])]

ElfOpenFromMemory(file) ==
    LET header == elf_decode_header(file)
        sections == elf_decode_sections(file, header.v)
        segments == elf_decode_segments(file, header.v)
        symbols == elf_decode_symbols(file, sections.v, SYMTAB)
        dynamic == elf_decode_symbols(file, sections.v, DYNSYM)
    IN  IF ~header.ok THEN NotParsed ELSE IF ~sections.ok THEN NotParsed
        ELSE IF segments.ok /\ symbols.ok /\ dynamic.ok
             THEN Parsed([header |-> header.v, sections |-> sections.v, segments |-> segments.v, symbols |-> symbols.v,
                          dynamic_symbols |-> dynamic.v, debug |-> elf_decode_debug_metadata(file, sections.v)])
             ELSE NotParsed

\* The symbol at an address: one without a size is at its own address only, and
\* a global one wins over what was found before.
GLOBAL == 1
elf_search_symbols(symbols, vaddr) ==
    LET Covers(s) == IF s.size = 0 THEN s.value = vaddr ELSE s.value <= vaddr /\ vaddr < Wrapped(s.value + s.size)
        Better(best, s) == IF Covers(s) /\ (best = << >> \/ s.bind = GLOBAL) THEN <<s>> ELSE best
    IN  FoldLeft(Better, << >>, symbols)
ElfResolveAddress(elf, vaddr) ==
    LET hit == elf_search_symbols(elf.symbols, vaddr) IN IF hit # << >> THEN hit ELSE elf_search_symbols(elf.dynamic_symbols, vaddr)

-----------------------------------------------------------------------------
(* Mach-O *)

MH_MAGIC_64 == <<207, 250, 237, 254>>
decode_header(file) ==
    LET h == ReadAll(file, Copies("u32", 8)).v
    IN  IF Len(file) < 32 \/ ~IsPrefix(MH_MAGIC_64, file) THEN NotParsed
        ELSE Parsed([cputype |-> h[2], filetype |-> h[4], ncmds |-> h[5], sizeofcmds |-> h[6]])

\* A segment and the sections that stand behind it.
MachoSectionOf(bytes) ==
    LET v == ReadAll(From(bytes, 32), Copies("u64", 2) \o Copies("u32", 8)).v
    IN  [section |-> NulName(SubSeq(bytes, 1, 16)), segment |-> NulName(SubSeq(bytes, 17, 32)), addr |-> v[1], size |-> v[2],
         offset |-> v[3], flags |-> v[7]]
decode_segment_64(cmd, m) ==
    LET v == ReadAll(From(cmd, 24), Copies("u64", 4) \o Copies("u32", 4)).v
        segment == [name |-> NulName(Slice(cmd, 8, 16)), vmaddr |-> v[1], vmsize |-> v[2], fileoff |-> v[3], filesize |-> v[4],
                    nsects |-> v[7], flags |-> v[8]]
        sections == [k \in 1..v[7] |-> MachoSectionOf(Slice(cmd, 72 + 80 * (k - 1), 80))]
    IN  IF Len(cmd) < 72 THEN NotParsed ELSE IF v[7] > (Len(cmd) - 72) \div 80 THEN NotParsed
        ELSE Parsed([m EXCEPT !.segments = Append(@, segment), !.sections = @ \o sections])
decode_symtab(cmd, m) ==
    LET v == ReadAll(From(cmd, 8), Copies("u32", 4)).v
    IN  IF Len(cmd) < 24 THEN NotParsed ELSE Parsed([m EXCEPT !.symtab = <<[symoff |-> v[1], nsyms |-> v[2], stroff |-> v[3], strsize |-> v[4]]>>])
decode_uuid(cmd, m) == IF Len(cmd) < 24 THEN NotParsed ELSE Parsed([m EXCEPT !.uuid = <<Slice(cmd, 8, 16)>>])

\* One command after the other; the highest bit of its number is not looked at,
\* and those nobody knows are passed over.
RECURSIVE CommandsFrom(_, _, _)
CommandsFrom(rest, left, m) ==
    LET size == Word(SubSeq(rest, 5, 8))
        cmd == SubSeq(rest, 1, size)
        type == [SubSeq(cmd, 1, 4) EXCEPT ![4] = @ % 128]
        done == CASE type = Little(25, 4) -> decode_segment_64(cmd, m)
                  [] type = Little(2, 4) -> decode_symtab(cmd, m)
                  [] type = Little(27, 4) -> decode_uuid(cmd, m)
                  [] OTHER -> Parsed(m)
    IN  IF left = 0 THEN Parsed(m)
        ELSE IF Len(rest) < 8 THEN NotParsed
        ELSE IF size < 8 \/ size > Len(rest) THEN NotParsed
        ELSE IF done.ok THEN CommandsFrom(From(rest, size), left - 1, done.v) ELSE NotParsed
walk_load_commands(file, h) ==
    IF 32 + h.sizeofcmds > Len(file) THEN NotParsed
    ELSE CommandsFrom(Slice(file, 32, h.sizeofcmds), h.ncmds, [segments |-> << >>, sections |-> << >>, uuid |-> << >>, symtab |-> << >>])

\* A symbol whose name is outside of the table, or does not end in it, is left
\* out.
decode_symbols(file, symtab) ==
    LET t == symtab[1]
        strings == Slice(file, t.stroff, t.strsize)
        rows == Table(Slice(file, t.symoff, 16 * t.nsyms), 16, <<"u32", "u8", "u8", "u16", "u64">>)
        Symbol(r) == [name |-> BufReadZstr(From(strings, r[1])).v, value |-> r[5], type |-> r[2], section_index |-> r[3]]
        Named(r) == r[1] < t.strsize /\ BufReadZstr(From(strings, r[1])).ok
        kept == SelectSeq(rows, Named)
    IN  IF symtab = << >> THEN Parsed(<< >>) ELSE IF t.nsyms = 0 THEN Parsed(<< >>)
        ELSE IF t.nsyms > Len(file) \/ ~elf_range_ok(file, t.symoff, 16 * t.nsyms) \/ ~elf_range_ok(file, t.stroff, t.strsize) THEN NotParsed
        ELSE Parsed([k \in DOMAIN kept |-> Symbol(kept[k])])

MachoOpenFromMemory(file) ==
    LET header == decode_header(file)
        walk == walk_load_commands(file, header.v)
        symbols == decode_symbols(file, walk.v.symtab)
    IN  IF ~header.ok THEN NotParsed ELSE IF ~walk.ok THEN NotParsed ELSE IF ~symbols.ok THEN NotParsed
        ELSE Parsed([cputype |-> header.v.cputype, filetype |-> header.v.filetype, segments |-> walk.v.segments,
                     sections |-> walk.v.sections, uuid |-> walk.v.uuid, symbols |-> symbols.v])
macho_find_section(m, segment, section) == First(SelectSeq(m.sections, LAMBDA s : s.segment = segment /\ s.section = section))

\* Symbols have no size: the last of the highest ones at or below the address
\* that are in a section and no debug entries.  The next symbol above is never
\* at or below the address, so that nothing ends the last one.
MachoResolveAddress(m, vaddr) ==
    LET Better(best, s) ==
            IF s.type < 32 /\ s.section_index # 0 /\ s.value <= vaddr /\ (best = << >> \/ s.value >= best[1].value) THEN <<s>> ELSE best
    IN  FoldLeft(Better, << >>, m.symbols)

-----------------------------------------------------------------------------
(* PE *)

pe_decode_dos(file) ==
    LET e_lfanew == Word(Slice(file, 60, 4))
    IN  IF Len(file) < 64 \/ ~IsPrefix(Ascii("MZ"), file) THEN NotParsed ELSE IF e_lfanew >= Len(file) THEN NotParsed ELSE Parsed(e_lfanew)
pe_decode_nt(file, nt_offset) ==
    LET got == ReadAll(From(file, nt_offset + 4), Copies("u16", 2) \o Copies("u32", 3) \o Copies("u16", 2))
    IN  IF Slice(file, nt_offset, 4) # <<80, 69, 0, 0>> \/ ~got.ok THEN NotParsed
        ELSE Parsed([machine |-> got.v[1], num_sections |-> got.v[2], opt_hdr_size |-> got.v[6], opt_offset |-> nt_offset + 24])

\* The header of 64-bit images has one number less, and wider ones.
OptionalKinds(is64) ==
    Copies("u8", 2) \o Copies("u32", 5) \o (IF is64 THEN <<"u64">> ELSE Copies("u32", 2)) \o Copies("u32", 2) \o Copies("u16", 6)
    \o Copies("u32", 4) \o Copies("u16", 2) \o Copies(IF is64 THEN "u64" ELSE "u32", 4) \o Copies("u32", 2)
DIR_INDEX_DEBUG == 6
pe_decode_optional(file, nt) ==
    LET header == Slice(file, nt.opt_offset, nt.opt_hdr_size)
        is64 == SubSeq(header, 1, 2) = <<11, 2>>
        got == ReadAll(From(header, 2), OptionalKinds(is64))
        F(k) == got.v[IF is64 THEN k - 1 ELSE k]
        dir == ReadAll(From(got.rest, 8 * DIR_INDEX_DEBUG), Copies("u32", 2))
        Optional(rva, size) == Parsed([is_pe32_plus |-> is64, image_base |-> F(9), size_of_image |-> F(19), debug_rva |-> rva, debug_size |-> size])
    IN  IF ~elf_range_ok(file, nt.opt_offset, nt.opt_hdr_size) \/ SubSeq(header, 1, 2) \notin {<<11, 1>>, <<11, 2>>} THEN NotParsed
        ELSE IF ~got.ok THEN NotParsed
        ELSE IF F(29) <= DIR_INDEX_DEBUG THEN Optional(0, 0)
        ELSE IF dir.ok THEN Optional(dir.v[1], dir.v[2]) ELSE NotParsed

pe_decode_sections(file, nt) ==
    LET table == From(file, nt.opt_offset + nt.opt_hdr_size)
        Section(bytes) ==
            LET v == ReadAll(From(bytes, 8), Copies("u32", 6) \o Copies("u16", 2) \o <<"u32">>).v
            IN  [name |-> NulName(SubSeq(bytes, 1, 8)), virtual_size |-> v[1], virtual_address |-> v[2], raw_size |-> v[3],
                 raw_offset |-> v[4], characteristics |-> v[9]]
    IN  IF Len(table) < 40 * nt.num_sections THEN NotParsed
        ELSE Parsed([k \in 1..nt.num_sections |-> Section(Slice(table, 40 * (k - 1), 40))])

\* Where the first section that covers an address has it in the file.
PeRvaToOffset(file, sections, rva) ==
    LET over == SelectSeq(sections, LAMBDA s : s.virtual_address <= rva /\ rva < s.virtual_address + s.virtual_size)
        offset == over[1].raw_offset + (rva - over[1].virtual_address)
    IN  IF over = << >> THEN NotParsed ELSE IF offset >= Len(file) THEN NotParsed ELSE Parsed(offset)

\* The first entry of the debug directory that is a CodeView record with a name
\* that ends.
CodeView(file, entry) ==
    LET size == entry[6]
        got == ReadAll(Slice(file, entry[8] + 20, size - 20), <<"u32", "zstr">>)
    IN  IF entry[5] # 2 \/ ~elf_range_ok(file, entry[8], size) \/ size < 25 THEN << >>
        ELSE IF Slice(file, entry[8], 4) # Ascii("RSDS") \/ ~got.ok THEN << >>
        ELSE <<[guid |-> Slice(file, entry[8] + 4, 16), age |-> got.v[1], pdb_path |-> got.v[2]]>>
pe_decode_codeview(file, sections, optional) ==
    LET at == PeRvaToOffset(file, sections, optional.debug_rva)
        n == optional.debug_size \div 28
        entries == Table(Slice(file, at.v, 28 * n), 28, Copies("u32", 2) \o Copies("u16", 2) \o Copies("u32", 4))
    IN  IF optional.debug_rva = 0 \/ optional.debug_size = 0 THEN << >>
        ELSE IF ~at.ok THEN << >> ELSE IF ~elf_range_ok(file, at.v, 28 * n) THEN << >>
        ELSE First(FlattenSeq([k \in 1..n |-> CodeView(file, entries[k])]))

PeOpenFromMemory(file) ==
    LET dos == pe_decode_dos(file)
        nt == pe_decode_nt(file, dos.v)
        optional == pe_decode_optional(file, nt.v)
        sections == pe_decode_sections(file, nt.v)
    IN  IF ~dos.ok THEN NotParsed ELSE IF ~nt.ok THEN NotParsed ELSE IF ~optional.ok THEN NotParsed ELSE IF ~sections.ok THEN NotParsed
        ELSE Parsed([machine |-> nt.v.machine, is_pe32_plus |-> optional.v.is_pe32_plus, image_base |-> optional.v.image_base,
                     size_of_image |-> optional.v.size_of_image, sections |-> sections.v,
                     codeview |-> pe_decode_codeview(file, sections.v, optional.v)])

-----------------------------------------------------------------------------
(* PDB: a file of blocks, and streams that are made of them. *)

MSF_MAGIC_7 == Ascii("Microsoft C/C++ MSF 7.00") \o <<13, 10, 26, 68, 83, 0, 0, 0>>
BlockSizes == {512, 1024, 2048, 4096}
NIL_STREAM == U64Max
div_ceil_u32(a, b) == (a + b - 1) \div b
Words4(bytes) == [k \in 1..Len(bytes) \div 4 |-> Word(Slice(bytes, 4 * (k - 1), 4))]

parse_superblock(file) ==
    LET v == Words4(Slice(file, 32, 24))
    IN  IF Len(file) < 56 \/ ~IsPrefix(MSF_MAGIC_7, file) THEN NotParsed
        ELSE IF v[1] \in BlockSizes THEN Parsed([block_size |-> v[1], dir_bytes |-> v[4], block_map |-> v[6]]) ELSE NotParsed

\* The bytes of some blocks, in their order; none when one is outside.
block_ptr(file, bs, id) == IF id < Len(file) \div bs THEN <<Slice(file, bs * id, bs)>> ELSE << >>
Blocks(file, bs, ids) ==
    IF \A k \in DOMAIN ids : block_ptr(file, bs, ids[k]) # << >> THEN Parsed(FlattenSeq([k \in DOMAIN ids |-> block_ptr(file, bs, ids[k])[1]]))
    ELSE NotParsed

\* The directory is listed on one page.
reconstruct_directory(file, sb) ==
    LET n == div_ceil_u32(sb.dir_bytes, sb.block_size)
        map_page == block_ptr(file, sb.block_size, sb.block_map)
        blocks == Blocks(file, sb.block_size, Words4(Slice(map_page[1], 0, 4 * n)))
    IN  IF 4 * n > sb.block_size \/ map_page = << >> THEN NotParsed
        ELSE IF blocks.ok THEN Parsed(SubSeq(blocks.v, 1, sb.dir_bytes)) ELSE NotParsed

\* The sizes of the streams, then the blocks of each; an absent stream has none.
parse_directory(dir, bs) ==
    LET n == Word(SubSeq(dir, 1, 4))
        sizes == Words4(Slice(dir, 4, 4 * n))
        Count(k) == IF sizes[k] = NIL_STREAM THEN 0 ELSE div_ceil_u32(sizes[k], bs)
        Before(k) == FoldLeft(LAMBDA sum, j : sum + Count(j), 0, [j \in 1..k |-> j])
        ids == Words4(From(dir, 4 + 4 * n))
    IN  IF Len(dir) < 4 THEN NotParsed ELSE IF n > (Len(dir) - 4) \div 4 THEN NotParsed
        ELSE IF 4 + 4 * n + 4 * Before(n) > Len(dir) THEN NotParsed
        ELSE Parsed([k \in 1..n |-> [size |-> sizes[k], blocks |-> SubSeq(ids, Before(k - 1) + 1, Before(k))]])

\* A part of a stream, from the blocks it is on.
Present(pdb, idx) == idx < Len(pdb.streams) /\ pdb.streams[idx + 1].size # NIL_STREAM
stream_read(pdb, idx, offset, n) ==
    LET stream == pdb.streams[idx + 1]
        page == offset \div pdb.block_size
        last == (offset + n - 1) \div pdb.block_size
        blocks == Blocks(pdb.file, pdb.block_size, SubSeq(stream.blocks, page + 1, last + 1))
    IN  IF ~Present(pdb, idx) THEN NotParsed
        ELSE IF n > stream.size \/ offset > stream.size - n THEN NotParsed
        ELSE IF n = 0 THEN Parsed(<< >>)
        ELSE IF last < Len(stream.blocks) /\ blocks.ok THEN Parsed(Slice(blocks.v, offset % pdb.block_size, n)) ELSE NotParsed

parse_pdb_info(pdb) ==
    LET got == stream_read(pdb, 1, 0, 28)
        v == Words4(got.v)
    IN  IF ~Present(pdb, 1) THEN Parsed(<< >>)
        ELSE IF got.ok THEN Parsed(<<[version |-> v[1], signature |-> v[2], age |-> v[3], guid |-> From(got.v, 12)]>>) ELSE NotParsed

\* The streams of the publics and of the sections; the second is the sixth of
\* a list that stands behind the other parts.
DBI_STREAM_INDEX == 3
DbiKinds == Copies("u32", 3) \o Copies("u16", 6) \o Copies("u32", 8) \o Copies("u16", 2) \o <<"u32">>
parse_dbi_header(pdb) ==
    LET head == stream_read(pdb, DBI_STREAM_INDEX, 0, 64)
        v == ReadAll(head.v, DbiKinds).v
        optdbg == 64 + v[10] + v[11] + v[12] + v[13] + v[14] + v[17]
        size == pdb.streams[DBI_STREAM_INDEX + 1].size
        hdr == stream_read(pdb, DBI_STREAM_INDEX, optdbg + 10, 2)
    IN  IF ~head.ok THEN NotParsed
        ELSE IF optdbg + v[16] > size \/ v[16] < 12 THEN NotParsed
        ELSE IF hdr.ok THEN Parsed([symrec_stream |-> v[8], section_hdr_stream |-> Word(hdr.v)]) ELSE NotParsed

load_section_table(pdb, idx) ==
    LET size == pdb.streams[idx + 1].size
        got == stream_read(pdb, idx, 0, size)
    IN  IF ~Present(pdb, idx) THEN << >> ELSE IF size % 40 # 0 \/ ~got.ok THEN << >>
        ELSE [k \in 1..size \div 40 |-> Word(Slice(got.v, 40 * (k - 1) + 12, 4))]

\* Records up to one that does not fit.  A public symbol of a section that
\* exists, with a name, is at an address of 32 bits.
S_PUB32 == 4366
Public(record, sections) ==
    LET got == ReadAll(record, <<"u16", "u16", "u32", "u32", "u16", "zstr">>)
        rva == sections[got.v[5]] + got.v[4]
    IN  IF Word(SubSeq(record, 3, 4)) # S_PUB32 \/ Len(record) < 15 \/ ~got.ok THEN << >>
        ELSE IF got.v[5] \notin DOMAIN sections \/ got.v[6] = << >> THEN << >>
        ELSE IF rva > U64Max THEN << >> ELSE <<[rva |-> rva, name |-> got.v[6]]>>
RECURSIVE PublicsFrom(_, _, _)
PublicsFrom(rest, sections, found) ==
    LET size == 2 + Word(SubSeq(rest, 1, 2))
    IN  IF Len(rest) < 4 \/ size < 4 \/ size > Len(rest) THEN found
        ELSE PublicsFrom(From(rest, size), sections, found \o Public(SubSeq(rest, 1, size), sections))
walk_publics(pdb, idx, sections) ==
    LET got == stream_read(pdb, idx, 0, pdb.streams[idx + 1].size)
    IN  IF idx >= Len(pdb.streams) THEN NotParsed
        ELSE IF ~Present(pdb, idx) THEN Parsed(<< >>)
        ELSE IF got.ok THEN Parsed(PublicsFrom(got.v, sections, << >>)) ELSE NotParsed

\* Sorted; what is at the same address is in no order, here in that of the file.
\* Each reaches to the next.
parse_pdb_functions(pdb) ==
    LET dbi == parse_dbi_header(pdb)
        sections == load_section_table(pdb, dbi.v.section_hdr_stream)
        publics == walk_publics(pdb, dbi.v.symrec_stream, sections)
        sorted == SortSeq(publics.v, LAMBDA a, b : a.rva < b.rva)
    IN  IF ~dbi.ok THEN Parsed(<< >>) ELSE IF sections = << >> THEN Parsed(<< >>)
        ELSE IF ~publics.ok THEN NotParsed
        ELSE Parsed([k \in DOMAIN sorted |-> [rva |-> sorted[k].rva, name |-> sorted[k].name,
                                              size |-> IF k < Len(sorted) THEN sorted[k + 1].rva - sorted[k].rva ELSE 0]])

PdbOpenFromMemory(file) ==
    LET sb == parse_superblock(file)
        dir == reconstruct_directory(file, sb.v)
        streams == parse_directory(dir.v, sb.v.block_size)
        pdb == [file |-> file, block_size |-> sb.v.block_size, streams |-> streams.v]
        info == parse_pdb_info(pdb)
        functions == parse_pdb_functions(pdb)
    IN  IF ~sb.ok THEN NotParsed ELSE IF ~dir.ok THEN NotParsed ELSE IF ~streams.ok THEN NotParsed
        ELSE IF info.ok /\ functions.ok THEN Parsed([info |-> info.v, functions |-> functions.v]) ELSE NotParsed

\* The last function at or below the address; the last of all has no end.
PdbResolveRva(functions, rva) ==
    LET lo == Cardinality({k \in DOMAIN functions : functions[k].rva <= rva})
        f == functions[lo]
    IN  IF lo = 0 THEN << >> ELSE IF f.size > 0 /\ rva >= f.rva + f.size THEN << >> ELSE <<f>>

-----------------------------------------------------------------------------
(* Functions in the debug information *)

\* Attributes up to a pair of zeros.
RECURSIVE AttrsFrom(_, _)
AttrsFrom(rest, attrs) ==
    LET got == ReadAll(rest, Copies("uleb", 2))
    IN  IF ~got.ok THEN got ELSE IF got.v = <<0, 0>> THEN Reading(attrs, got.rest)
        ELSE AttrsFrom(got.rest, Append(attrs, [name |-> got.v[1], form |-> got.v[2]]))
\* Entries up to code zero, or to the end of the section.
RECURSIVE parse_abbrev_table(_, _)
parse_abbrev_table(rest, table) ==
    LET code == BufReadULeb128(rest)
        head == ReadAll(code.rest, <<"uleb", "u8">>)
        attrs == AttrsFrom(head.rest, << >>)
    IN  IF rest = << >> THEN Parsed(table)
        ELSE IF ~code.ok THEN NotParsed ELSE IF code.v = 0 THEN Parsed(table)
        ELSE IF ~head.ok THEN NotParsed ELSE IF ~attrs.ok THEN NotParsed
        ELSE parse_abbrev_table(attrs.rest, Append(table, [code |-> code.v, tag |-> head.v[1], has_children |-> head.v[2] # 0, attrs |-> attrs.v]))
abbrev_table_find(table, code) == First(SelectSeq(table, LAMBDA e : e.code = code))

\* A value of one form: a number, a signed one, a text, the place of one, or
\* nothing that is kept.  A length that makes the cursor go back is left out.
DW_FORM_addr == 1
NumberForms ==
    [form \in {5, 6, 7, 11, 12, 15, 16, 17, 18, 19, 20, 21, 23, 32} |->
        CASE form \in {11, 12, 17} -> "u8" [] form \in {5, 18} -> "u16" [] form \in {6, 16, 19, 23} -> "u32"
          [] form \in {7, 20, 32} -> "u64" [] form \in {15, 21} -> "uleb"]
BlockForms == (10 :> "u8") @@ (3 :> "u16") @@ (4 :> "u32") @@ (9 :> "uleb") @@ (24 :> "uleb")
AttrVal(kind, got) == IF got.ok THEN Reading([kind |-> kind, v |-> got.v], got.rest) ELSE got
RECURSIVE read_form(_, _, _)
read_form(rest, form, addr_size) ==
    LET block == ReadOne(rest, BlockForms[form])
        indirect == BufReadULeb128(rest)
    IN  CASE form = DW_FORM_addr -> IF addr_size \in {4, 8} THEN AttrVal("u64", ReadWord(rest, addr_size)) ELSE Stuck(rest)
          [] form \in DOMAIN NumberForms -> AttrVal("u64", ReadOne(rest, NumberForms[form]))
          [] form = 14 -> AttrVal("str_offset", ReadWord(rest, 4))
          [] form = 13 -> AttrVal("i64", BufReadSLeb128(rest))
          [] form = 8 -> AttrVal("cstr", BufReadZstr(rest))
          [] form = 25 -> AttrVal("flag_present", Reading(1, rest))
          [] form \in DOMAIN BlockForms ->
               IF ~block.ok THEN block ELSE IF block.v > Len(block.rest) THEN Stuck(rest) ELSE AttrVal("none", Reading(0, From(block.rest, block.v)))
          [] form = 22 -> IF indirect.ok THEN read_form(indirect.rest, indirect.v, addr_size) ELSE indirect
          [] OTHER -> Stuck(rest)

\* What a subprogram says of itself.  A name is kept before a linkage name,
\* whatever their order; one that does not end counts, and is none.
DW_TAG_subprogram == 46
DW_AT_name == 3
DW_AT_low_pc == 17
DW_AT_high_pc == 18
NameAttrs == {DW_AT_name, 110, 8199}
NoFunction == [name |-> << >>, low |-> << >>, high |-> << >>, offset |-> FALSE]
Noted(f, attr, value, debug_str) ==
    LET pooled == BufReadZstr(From(debug_str, value.v))
        text == IF value.kind = "cstr" THEN value.v ELSE IF pooled.ok THEN pooled.v ELSE << >>
        named == value.kind = "cstr" \/ (value.kind = "str_offset" /\ value.v < Len(debug_str))
        number == value.kind \in {"u64", "i64"}
    IN  CASE attr.name \in NameAttrs -> IF named /\ (f.name = << >> \/ attr.name = DW_AT_name) THEN [f EXCEPT !.name = <<text>>] ELSE f
          [] attr.name = DW_AT_low_pc -> IF value.kind = "u64" THEN [f EXCEPT !.low = <<value.v>>] ELSE f
          [] attr.name = DW_AT_high_pc ->
               IF number THEN [f EXCEPT !.high = <<Wrapped(value.v)>>, !.offset = value.kind = "i64" \/ attr.form # DW_FORM_addr] ELSE f
          [] OTHER -> f
Attributes(rest, attrs, addr_size, debug_str) ==
    LET Next1(got, attr) ==
            LET value == read_form(got.rest, attr.form, addr_size)
            IN  IF ~got.ok THEN got ELSE IF value.ok THEN Reading(Noted(got.v, attr, value.v, debug_str), value.rest) ELSE value
    IN  FoldLeft(Next1, Reading(NoFunction, rest), attrs)
\* A function with a name and addresses; an end that overflows is none.  (Nor
\* is a name of 64 KiB in the section itself.)
FunctionOf(f) ==
    LET high == IF f.offset THEN f.low[1] + f.high[1] ELSE f.high[1]
    IN  IF f.name = << >> \/ f.low = << >> \/ f.high = << >> THEN << >>
        ELSE IF high > U64Max \/ high <= f.low[1] \/ f.name[1] = << >> THEN << >>
        ELSE <<[low_pc |-> f.low[1], high_pc |-> high, name |-> f.name[1]]>>

\* One entry after the other, up to the zero that ends the outermost level.
RECURSIVE walk_cu_dies(_, _, _, _, _, _)
walk_cu_dies(rest, depth, abbrevs, addr_size, debug_str, found) ==
    LET code == BufReadULeb128(rest)
        e == abbrev_table_find(abbrevs, code.v)
        got == Attributes(code.rest, e[1].attrs, addr_size, debug_str)
        more == IF e[1].tag = DW_TAG_subprogram THEN FunctionOf(got.v) ELSE << >>
    IN  IF rest = << >> THEN Parsed(found)
        ELSE IF ~code.ok THEN NotParsed
        ELSE IF code.v = 0 THEN IF depth = 0 THEN Parsed(found) ELSE walk_cu_dies(code.rest, depth - 1, abbrevs, addr_size, debug_str, found)
        ELSE IF e = << >> THEN NotParsed ELSE IF ~got.ok THEN NotParsed
        ELSE walk_cu_dies(got.rest, depth + IF e[1].has_children THEN 1 ELSE 0, abbrevs, addr_size, debug_str, found \o more)

\* Unit after unit; those of other versions are passed over.  A unit of this
\* one that ends inside of its header is read beyond the section.
RECURSIVE InfoFrom(_, _, _, _)
InfoFrom(info, abbrev, debug_str, found) ==
    LET length == Word(SubSeq(info, 1, 4))
        head == ReadAll(From(info, 4), <<"u16", "u32", "u8">>)
        abbrevs == parse_abbrev_table(From(abbrev, head.v[2]), << >>)
        dies == walk_cu_dies(SubSeq(info, 12, 4 + length), 0, abbrevs.v, head.v[3], debug_str, found)
    IN  IF info = << >> THEN [outcome |-> "built", functions |-> SortSeq(found, LAMBDA a, b : a.low_pc < b.low_pc)]
        ELSE IF Len(info) < 4 \/ SubSeq(info, 1, 4) = <<255, 255, 255, 255>> \/ 4 + length > Len(info) THEN [outcome |-> "refused"]
        ELSE IF ~head.ok THEN [outcome |-> "refused"]
        ELSE IF head.v[1] # 4 THEN InfoFrom(From(info, 4 + length), abbrev, debug_str, found)
        ELSE IF head.v[2] >= Len(abbrev) THEN [outcome |-> "refused"]
        ELSE IF ~abbrevs.ok THEN [outcome |-> "refused"]
        ELSE IF length < 7 THEN [outcome |-> "undefined"]
        ELSE IF dies.ok THEN InfoFrom(From(info, 4 + length), abbrev, debug_str, dies.v) ELSE [outcome |-> "refused"]
DwarfFunctionsBuildFromSlices(info, abbrev, debug_str) ==
    IF info = << >> THEN [outcome |-> "built", functions |-> << >>]
    ELSE IF abbrev = << >> THEN [outcome |-> "refused"] ELSE InfoFrom(info, abbrev, debug_str, << >>)
DwarfFunctionsResolve(functions, vaddr) ==
    LET lo == Cardinality({k \in DOMAIN functions : functions[k].low_pc <= vaddr})
    IN  IF lo = 0 THEN << >> ELSE IF vaddr < functions[lo].high_pc THEN <<functions[lo]>> ELSE << >>

-----------------------------------------------------------------------------
(* What is assembled is read back. *)

ZeroBytes(n) == [k \in 1..n |-> 0]
Packed(kinds, values) ==
    LET Wide == [u8 |-> 1, u16 |-> 2, u32 |-> 4, u64 |-> 8] IN FlattenSeq([k \in DOMAIN kinds |-> Little(values[k], Wide[kinds[k]])])
Packed4(values) == FlattenSeq([k \in DOMAIN values |-> IF values[k] = -1 THEN <<255, 255, 255, 255>> ELSE Little(values[k], 4)])
Padded(bytes, wide) == SubSeq(bytes \o ZeroBytes(wide), 1, wide)
\* Where the parts of a file end.
Ends(parts) == {Len(FlattenSeq(SubSeq(parts, 1, k))) : k \in DOMAIN parts}
Cuts(parts) == {0} \cup Ends(parts) \cup {e - 1 : e \in Ends(parts)}

\* The names of symbols: aa, bb and, without an end, cc.
Pool == <<0>> \o Ascii("aa") \o <<0>> \o Ascii("bb") \o <<0>> \o Ascii("cc")
PoolName(idx) == CASE idx = 1 -> Ascii("aa") [] idx = 2 -> Ascii("a") [] idx = 4 -> Ascii("bb") [] OTHER -> << >>

ElfSymbolCode(s) == Packed(<<"u32", "u8", "u8", "u16", "u64", "u64">>, <<s.name, 16 * s.bind + 2, 0, 1, s.value, s.size>>)
ElfNames == <<0>> \o BuildIdName \o <<0>> \o DebugLinkName \o <<0>>
ElfNote == Little(4, 4) \o Little(3, 4) \o Little(3, 4) \o Ascii("GNU") \o <<0, 7, 8, 9>>
ElfLink == Ascii("x.debug") \o <<0, 0>> \o Little(4660, 4)
ElfRows == \* name, type, link, size of an entry
    << <<0, 3, 0, 0>>, <<0, 2, 3, 24>>, <<0, 3, 0, 0>>, <<0, 11, 3, 24>>, <<1, 7, 0, 0>>, <<20, 1, 0, 0>> >>
ElfParts(first, symbols, dynamic) ==
    LET Codes(t) == FlattenSeq([k \in DOMAIN t |-> ElfSymbolCode(t[k])])
        bodies == <<ElfNames, Codes(symbols), Pool, Codes(dynamic), ElfNote, ElfLink>>
        start == 120 + IF first THEN 64 * 7 ELSE 0
        At(k) == start + Len(FlattenSeq(SubSeq(bodies, 1, k - 1)))
        Row(k) == Packed(SectionKinds, <<ElfRows[k][1], ElfRows[k][2], 0, 0, At(k), Len(bodies[k]), ElfRows[k][3], 0, 1, ElfRows[k][4]>>)
        table == ZeroBytes(64) \o FlattenSeq([k \in 1..6 |-> Row(k)])
        header == ElfIdent \o ZeroBytes(10) \o Packed(ElfHeaderKinds, <<3, 62, 1, 4096, 64, IF first THEN 120 ELSE At(7), 0, 64, 56, 1, 64, 7, 1>>)
        segment == Packed(Copies("u32", 2) \o Copies("u64", 6), <<1, 5, 0, 4096, 4096, 300, 400, 16>>)
    IN  <<header, segment>> \o IF first THEN <<table>> \o bodies ELSE bodies \o <<table>>

\* Every symbol is read with its name; an address has the last global symbol
\* over it, or the first other one, and a dynamic one only when there is no
\* other; whatever ends early is refused, except that what names the debug file
\* may be missing.
ElfSound(first, symbols, dynamic) ==
    LET parts == ElfParts(first, symbols, dynamic)
        file == FlattenSeq(parts)
        elf == ElfOpenFromMemory(file)
        Symbol(s) == [name |-> PoolName(s.name), bind |-> s.bind, type |-> 2, section_index |-> 1, value |-> s.value, size |-> s.size]
        Best(t, v) ==
            LET over == {k \in DOMAIN t : v \in t[k].value..t[k].value + t[k].size - 1 \/ v = t[k].value}
                global == {k \in over : t[k].bind = GLOBAL}
            IN  IF global # {} THEN <<Symbol(t[Max(global)])>> ELSE IF over # {} THEN <<Symbol(t[Min(over)])>> ELSE << >>
        tables == Len(FlattenSeq(SubSeq(parts, 1, 7)))
        note == Len(FlattenSeq(SubSeq(parts, 1, IF first THEN 7 ELSE 6)))
    IN  /\ elf.ok
        /\ elf.v.symbols = [k \in DOMAIN symbols |-> Symbol(symbols[k])] /\ elf.v.dynamic_symbols = [k \in DOMAIN dynamic |-> Symbol(dynamic[k])]
        /\ elf.v.segments = <<[type |-> 1, flags |-> 5, offset |-> 0, vaddr |-> 4096, filesz |-> 300, memsz |-> 400, align |-> 16]>>
        /\ elf.v.debug = [build_id |-> <<(<<7, 8, 9>>)>>, debuglink |-> <<[name |-> Ascii("x.debug"), crc |-> 4660]>>]
        /\ \A v \in 0..24 : ElfResolveAddress(elf.v, v) = IF Best(symbols, v) # << >> THEN Best(symbols, v) ELSE Best(dynamic, v)
        /\ \A cut \in Cuts(parts) \ {Len(file)} :
               LET short == ElfOpenFromMemory(SubSeq(file, 1, cut))
               IN  /\ short.ok <=> first /\ cut >= tables
                   /\ short.ok => /\ short.v.symbols = elf.v.symbols /\ short.v.debug.debuglink = << >>
                                  /\ (short.v.debug.build_id # << >>) <=> cut >= tables + Len(ElfNote)
        /\ \A change \in {<<1, 13>>, <<5, 4>>, <<9, 4>>} :
               ElfOpenFromMemory([file EXCEPT ![note + change[1]] = change[2]]) = Parsed([elf.v EXCEPT !.debug.build_id = << >>])
        /\ \A k \in 1..6 \cup {59} : ~ElfOpenFromMemory([file EXCEPT ![k] = @ + 1]).ok
        /\ ~ElfOpenFromMemory([file EXCEPT ![63] = 7]).ok

MachoSymbolCode(s) == Packed(<<"u32", "u8", "u8", "u16", "u64">>, <<s.name, s.type, s.sect, 0, s.value>>)
MachoName(text) == Padded(Ascii(text), 16)
MachoParts(symbols) ==
    LET table == FlattenSeq([k \in DOMAIN symbols |-> MachoSymbolCode(symbols[k])])
        segment == Packed(Copies("u32", 2), <<25, 152>>) \o MachoName("__TEXT") \o Packed(Copies("u64", 4) \o Copies("u32", 4), <<4096, 64, 0, 64, 7, 5, 1, 0>>)
                   \o MachoName("__text") \o MachoName("__TEXT") \o Packed(Copies("u64", 2) \o Copies("u32", 8), <<4096, 40, 16, 0, 0, 0, 9, 0, 0, 0>>)
        symtab == <<2, 0, 0, 128>> \o Packed(Copies("u32", 5), <<24, 244, Len(symbols), 244 + Len(table), Len(Pool)>>)
        commands == segment \o Packed(Copies("u32", 3), <<50, 12, 1>>) \o Packed(Copies("u32", 2), <<27, 24>>) \o [k \in 1..16 |-> k] \o symtab
    IN  <<MH_MAGIC_64 \o Packed(Copies("u32", 7), <<7, 3, 2, 4, Len(commands), 0, 0>>), commands, table, Pool>>
\* Every symbol whose name ends is read; an address up to the end of the section
\* has the last of the highest symbols at or below it, debug entries and what is
\* in no section aside; whatever ends early, or has a command that is too short
\* or too long, is refused.  Past the section, where MachO.c:496-498 ends the
\* last symbol and the code does not, nothing is said.
MachoSound(symbols) ==
    LET parts == MachoParts(symbols)
        file == FlattenSeq(parts)
        m == MachoOpenFromMemory(file)
        kept == SelectSeq(symbols, LAMBDA s : s.name < 7)
        needed == IF symbols = << >> THEN Len(parts[1] \o parts[2]) ELSE Len(file)
        section == [section |-> Ascii("__text"), segment |-> Ascii("__TEXT"), addr |-> 4096, size |-> 40, offset |-> 16, flags |-> 9]
    IN  /\ m.ok
        /\ m.v.symbols = [k \in DOMAIN kept |-> [name |-> PoolName(kept[k].name), value |-> kept[k].value, type |-> kept[k].type,
                                                 section_index |-> kept[k].sect]]
        /\ m.v.uuid = <<[k \in 1..16 |-> k]>> /\ m.v.segments[1].name = Ascii("__TEXT") /\ m.v.segments[1].vmaddr = 4096
        /\ macho_find_section(m.v, Ascii("__TEXT"), Ascii("__text")) = <<section>> /\ macho_find_section(m.v, Ascii("__DATA"), Ascii("__text")) = << >>
        /\ \A v \in (section.addr - 1..section.addr + 24) \cup {section.addr + section.size - 1} :
               LET low == {k \in DOMAIN kept : kept[k].type < 32 /\ kept[k].sect # 0 /\ kept[k].value <= v}
                   highest == {k \in low : \A j \in low : kept[j].value <= kept[k].value}
               IN  MachoResolveAddress(m.v, v) = IF low = {} THEN << >> ELSE <<m.v.symbols[Max(highest)]>>
        /\ \A cut \in Cuts(parts) : MachoOpenFromMemory(SubSeq(file, 1, cut)).ok <=> cut >= needed
        /\ \A size \in {7, 71, 151, 229} : ~MachoOpenFromMemory([file EXCEPT ![37] = size]).ok
        /\ \A k \in {1, 2, 3, 4, 17} : ~MachoOpenFromMemory([file EXCEPT ![k] = @ + 1]).ok

PdbPath == Ascii("a.pdb")
Guid(n) == [k \in 1..16 |-> n]
CodeViewBytes(kind) ==
    CASE kind = "good" -> Ascii("RSDS") \o Guid(1) \o Little(5, 4) \o PdbPath \o <<0>>
      [] kind = "better" -> Ascii("RSDS") \o Guid(2) \o Little(6, 4) \o <<0>>
      [] kind = "endless" -> Ascii("RSDS") \o Guid(3) \o Little(7, 4) \o PdbPath
      [] kind = "old" -> Ascii("NB10") \o Guid(4) \o Little(8, 4) \o PdbPath \o <<0>>
      [] kind = "short" -> Ascii("RSDS") \o Guid(5) \o Little(9, 4)
      [] OTHER -> Ascii("RSDS") \o Guid(6) \o Little(10, 4) \o <<0>>
PeParts(plus, entries) ==
    LET opt_size == (IF plus THEN 112 ELSE 96) + 56
        at == 64 + 24 + opt_size + 80
        records == [k \in DOMAIN entries |-> CodeViewBytes(entries[k])]
        RecordAt(k) == at + 28 * Len(entries) + Len(FlattenSeq(SubSeq(records, 1, k - 1)))
        Entry(k) == Packed(Copies("u32", 2) \o Copies("u16", 2) \o Copies("u32", 4),
                          <<0, 0, 0, 0, IF entries[k] = "other" THEN 1 ELSE 2, Len(records[k]), 0, IF entries[k] = "outside" THEN 8000 ELSE RecordAt(k)>>)
        values == [k \in 1..29 |-> CASE k = 9 -> 65536 [] k = 19 -> 12288 [] k = 29 -> 7 [] OTHER -> k]
        optional == <<11, IF plus THEN 2 ELSE 1>> \o Packed(OptionalKinds(plus), IF plus THEN Tail(values) ELSE values)
                    \o ZeroBytes(48) \o Little(8192, 4) \o Little(28 * Len(entries), 4)
        Section(name, va, size, raw) == Padded(Ascii(name), 8) \o Packed(Copies("u32", 6) \o Copies("u16", 2) \o <<"u32">>, <<size, va, size, raw, 0, 0, 0, 0, 7>>)
    IN  <<Ascii("MZ") \o ZeroBytes(58) \o Little(64, 4), <<80, 69, 0, 0>> \o Packed(Copies("u16", 2) \o Copies("u32", 3) \o Copies("u16", 2), <<332, 2, 0, 0, 0, opt_size, 0>>),
          optional, Section(".text", 4096, 64, 0) \o Section(".rdata", 8192, 4096, at),
          FlattenSeq([k \in DOMAIN entries |-> Entry(k)]), FlattenSeq(records)>>
\* An image of either size says where its debug file is: in the first entry
\* that makes sense, and without one nowhere; every byte of a section is found
\* at its address; tables that end early are refused, a directory that does
\* says nothing.
PeSound(plus, entries) ==
    LET parts == PeParts(plus, entries)
        file == FlattenSeq(parts)
        pe == PeOpenFromMemory(file)
        useful == SelectSeq(entries, LAMBDA e : e \in {"good", "better"})
        tables == Len(FlattenSeq(SubSeq(parts, 1, 4)))
        good == [guid |-> Guid(1), age |-> 5, pdb_path |-> PdbPath]
        better == [guid |-> Guid(2), age |-> 6, pdb_path |-> << >>]
    IN  /\ pe.ok /\ pe.v.is_pe32_plus = plus /\ pe.v.image_base = 65536 /\ pe.v.size_of_image = 12288 /\ pe.v.machine = 332
        /\ pe.v.codeview = IF useful = << >> THEN << >> ELSE IF useful[1] = "good" THEN <<good>> ELSE <<better>>
        /\ \A rva \in {0, 4095, 4096, 4159, 4160, 8191} \cup 8192..8200 \cup {8191 + Len(file) - tables, 8192 + Len(file) - tables} :
               PeRvaToOffset(file, pe.v.sections, rva) =
                   IF rva \in 4096..4159 THEN Parsed(rva - 4096) ELSE IF rva - 8192 \in 0..Len(file) - tables - 1 THEN Parsed(tables + rva - 8192) ELSE NotParsed
        /\ \A cut \in Cuts(parts) :
               LET short == PeOpenFromMemory(SubSeq(file, 1, cut))
               IN  (short.ok <=> cut >= tables) /\ (short.ok => short.v.codeview \in {<< >>, pe.v.codeview})
        /\ \A k \in {1, 2, 65, 66, 89} : ~PeOpenFromMemory([file EXCEPT ![k] = @ + 1]).ok

\* A public symbol; those without an address come to nothing.
PublicCode(p) ==
    LET body == Packed(<<"u16", "u32", "u32", "u16">>, <<IF p.kind = "other" THEN 4365 ELSE S_PUB32, 2, p.offset, p.segment>>) \o p.name
                \o (IF p.kind = "endless" THEN << >> ELSE <<0>>) \o ZeroBytes(p.gap)
    IN  Little(Len(body), 2) \o body
BaseOfSection(segment) == 4096 * segment
PdbStreams(publics) ==
    LET section(k) == ZeroBytes(8) \o Little(4096, 4) \o Little(BaseOfSection(k), 4) \o ZeroBytes(24)
        dbi == Packed(DbiKinds, <<1, 2, 3, 0, 0, 0, 0, 4, 0, 2, 1, 0, 1, 0, 0, 12, 2, 0, 0, 0>>) \o ZeroBytes(6) \o ZeroBytes(10) \o Little(5, 2)
    IN  << << >>, Little(20, 4) \o Little(1, 4) \o Little(9, 4) \o Guid(3), << >>, dbi,
           FlattenSeq([k \in DOMAIN publics |-> PublicCode(publics[k])]), section(1) \o section(2)>>
\* The blocks behind the first are laid out from the front or from the back.
PdbFile(publics, backwards) ==
    LET streams == PdbStreams(publics)
        Pages(k) == div_ceil_u32(Len(streams[k]), 512)
        pages == FlattenSeq([k \in DOMAIN streams |-> [j \in 1..Pages(k) |-> Padded(SubSeq(streams[k], 512 * (j - 1) + 1, Min({512 * j, Len(streams[k])})), 512)]])
        total == 2 + Len(pages)
        At(k) == IF backwards THEN total + 1 - k ELSE k
        dir == Packed4(<<6>> \o [k \in 1..6 |-> IF k = 3 THEN -1 ELSE Len(streams[k])] \o [k \in 1..Len(pages) |-> At(2 + k)])
        super == MSF_MAGIC_7 \o Packed4(<<512, 1, total + 1, Len(dir), 0, At(1)>>)
        blocks == <<Padded(Packed4(<<At(2)>>), 512), Padded(dir, 512)>> \o pages
    IN  Padded(super, 512) \o FlattenSeq([k \in 1..total |-> blocks[At(k)]])
\* The functions are the public symbols that have a name and an address, sorted,
\* wherever their blocks are; an address has the last one at or below it; a
\* file that ends early has all of them, none, or is refused.
PdbSound(publics, backwards) ==
    LET file == PdbFile(publics, backwards)
        pdb == PdbOpenFromMemory(file)
        real == SelectSeq(publics, LAMBDA p : p.kind = "pub" /\ p.segment \in 1..2 /\ p.name # << >>)
        Rva(p) == BaseOfSection(p.segment) + p.offset
        found == [k \in DOMAIN pdb.v.functions |-> pdb.v.functions[k].rva]
        NameAt(rva) == real[CHOOSE k \in DOMAIN real : Rva(real[k]) = rva].name
    IN  /\ pdb.ok /\ pdb.v.info = <<[version |-> 20, signature |-> 1, age |-> 9, guid |-> Guid(3)]>>
        /\ Range(found) = {Rva(p) : p \in Range(real)} /\ Len(found) = Len(real)
        /\ \A f \in Range(pdb.v.functions) : f.name = NameAt(f.rva)
        /\ \A rva \in UNION {{Rva(p) - 1, Rva(p), Rva(p) + 1} : p \in Range(real)} \cup {0, 65535} :
               LET below == {r \in Range(found) : r <= rva}
                   f == PdbResolveRva(pdb.v.functions, rva)
               IN  IF below = {} THEN f = << >> ELSE f # << >> /\ f[1].rva = Max(below)
        /\ \A n \in 0..Len(file) \div 512 - 1 :
               LET short == PdbOpenFromMemory(SubSeq(file, 1, 512 * n + 511))
               IN  short.ok => short.v.functions \in {<< >>, pdb.v.functions}

\* A subprogram of every form its attributes come in: the name beside a number
\* or in the pool, alone, before or behind a linkage name, and the end as an
\* address or as an offset of every width; then those that are none.
FunctionForms ==
    LET inline == <<3, 8, 17, 1, 18, 11>>
        pooled == <<17, 1, 18, 1, 3, 14>>
    IN  [inline |-> inline, pooled |-> pooled, both |-> <<110, 8, 3, 8, 17, 1, 18, 15>>, late |-> <<3, 8, 8199, 8, 17, 1, 18, 13>>,
         linked |-> <<110, 14, 17, 1, 18, 22>>, nameless |-> <<17, 1, 18, 11>>, empty |-> inline, wraps |-> <<3, 8, 17, 1, 18, 7>>,
         outside |-> pooled, declared |-> <<3, 8>>]
WholeForms == {"inline", "pooled", "both", "late", "linked"}
FormOrder == <<"inline", "pooled", "both", "late", "linked", "nameless", "empty", "wraps", "outside", "declared">>
FunctionAbbrevs ==
    LET Ulebs(s) == FlattenSeq([k \in DOMAIN s |-> Uleb(s[k])])
    IN  <<1, 17, 1, 3, 8, 2, 24, 73, 19, 63, 25, 0, 0>> \o <<2, 11, 1, 64, 10, 0, 0>>
        \o FlattenSeq([k \in DOMAIN FormOrder |-> Ulebs(<<2 + k, DW_TAG_subprogram, 0>> \o FunctionForms[FormOrder[k]]) \o <<0, 0>>]) \o <<0>>
UnitRoot == <<1, 120, 0, 2, 0, 0>> \o Little(11, 4)
NestedBlock == <<2, 3, 1, 2, 3>>
NamePool == <<0>> \o FlattenSeq([k \in 1..3 |-> <<96 + k, 0>>])
FunctionCode(how, k, low, wide) ==
    LET name == <<96 + k, 0>>
        linkage == <<64 + k, 0>>
        pc == Little(low, wide)
        values == CASE how = "inline" -> name \o pc \o <<4>>
                    [] how = "pooled" -> pc \o Little(low + 4, wide) \o Little(2 * k - 1, 4)
                    [] how = "both" -> linkage \o name \o pc \o Uleb(4)
                    [] how = "late" -> name \o linkage \o pc \o Sleb(4)
                    [] how = "linked" -> Little(2 * k - 1, 4) \o pc \o <<5>> \o Little(4, 2)
                    [] how = "nameless" -> pc \o <<4>>
                    [] how = "empty" -> name \o pc \o <<0>>
                    [] how = "wraps" -> name \o pc \o Little(U64Max, 8)
                    [] how = "outside" -> pc \o Little(low + 4, wide) \o Little(Len(NamePool), 4)
                    [] how = "declared" -> name
    IN  <<2 + CHOOSE j \in DOMAIN FormOrder : FormOrder[j] = how>> \o values
InfoUnit(wide, body) == Little(7 + Len(body), 4) \o <<4, 0>> \o Little(0, 4) \o <<wide>> \o body
LaterVersion == Little(9, 4) \o <<5, 0, 1, 8, 0, 0, 0, 0, 1>>
\* The functions are those that have a name and addresses, sorted, in one unit
\* or in many, and an address has the one that covers it; a unit that ends
\* between two entries has those in front, and one that ends inside of an entry
\* is refused with all others.
FunctionsSound(hows, rising, nested) ==
    LET Low(k) == IF rising THEN 20 * k ELSE 100 - 20 * k
        Function(k) == [low_pc |-> Low(k), high_pc |-> Low(k) + 4, name |-> <<96 + k>>]
        kept == {k \in DOMAIN hows : hows[k] \in WholeForms}
        open == IF nested THEN <<UnitRoot, NestedBlock, (<<0>>)>> ELSE <<UnitRoot>>
        entries == [k \in DOMAIN hows |-> FunctionCode(hows[k], k, Low(k), 8)]
        parts == open \o entries \o <<(<<0>>), <<0>>, (<<99>>)>>
        body == FlattenSeq(parts)
        alone == [k \in DOMAIN hows |-> LET wide == 4 * (k % 2) + 4 IN InfoUnit(wide, UnitRoot \o FunctionCode(hows[k], k, Low(k), wide) \o <<0>>)]
        Built(info) == DwarfFunctionsBuildFromSlices(info, FunctionAbbrevs, NamePool)
    IN  /\ \A info \in {InfoUnit(8, body), LaterVersion \o FlattenSeq(alone)} :
               LET got == Built(info)
               IN  /\ got.outcome = "built" /\ Len(got.functions) = Cardinality(kept)
                   /\ \A v \in 0..104 : LET over == {k \in kept : v \in Low(k)..Low(k) + 3}
                                      IN  DwarfFunctionsResolve(got.functions, v) = IF over = {} THEN << >> ELSE <<Function(Max(over))>>
        /\ \A cut \in 0..Len(body) :
               LET got == Built(InfoUnit(8, SubSeq(body, 1, cut)))
                   seen == {k \in kept : Len(FlattenSeq(SubSeq(parts, 1, Len(open) + k))) <= cut}
               IN  IF cut \in {0} \cup Ends(parts) THEN got.outcome = "built" /\ Range(got.functions) = {Function(k) : k \in seen}
                   ELSE got.outcome = "refused"
        /\ DwarfFunctionsBuildFromSlices(LaterVersion, << >>, NamePool).outcome = "refused"

ObjectsSound(input) ==
    CASE input.kind = "elf" -> ElfSound(input.first, input.symbols, input.dynamic)
      [] input.kind = "macho" -> MachoSound(input.symbols)
      [] input.kind = "pe" -> PeSound(input.plus, input.entries)
      [] input.kind = "pdb" -> PdbSound(input.publics, input.backwards)
      [] input.kind = "functions" -> FunctionsSound(input.hows, input.rising, input.nested)
      [] OTHER -> TRUE
=============================================================================
