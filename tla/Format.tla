-------------------------------- MODULE Format --------------------------------
(* The .dis file: a module of ricevm-core (module.rs), what the writer of the  *)
(* compiler makes of it (ricevm-limbo, writer.rs), and what the loader makes   *)
(* of that (ricevm-loader, decode.rs and reader.rs).  A file is a sequence of  *)
(* bytes; the bytes of a name are one number above 255.                        *)
EXTENDS Integers, SequencesExt

\* Long sequences are taken in parts of this many elements: what is nested as deeply as they are
\* long would run out of stack.
Short == 16
Parts(n) == (n + Short - 1) \div Short
EndOf(part, n) == IF Short * part < n THEN Short * part ELSE n
Flat(seqs) ==
  FlattenSeq([part \in 1 .. Parts(Len(seqs)) |-> FlattenSeq(SubSeq(seqs, Short * (part - 1) + 1, EndOf(part, Len(seqs))))])
Each(Op(_), items) == Flat([n \in DOMAIN items |-> Op(items[n])])
IndexOf(seq, x) == SelectInSeq(seq, LAMBDA y: y = x) - 1

-----------------------------------------------------------------------------
(* Modules.                                                                    *)

\* In the order of their codes.
Opcodes ==
  <<"nop", "alt", "nbalt", "goto", "call", "frame", "spawn", "runt", "load", "mcall", "mspawn", "mframe", "ret", "jmp", "casew",
    "exit", "new", "newa", "newcb", "newcw", "newcf", "newcp", "newcm", "newcmp", "send", "recv", "consb", "consw", "consp",
    "consf", "consm", "consmp", "headb", "headw", "headp", "headf", "headm", "headmp", "tail", "lea", "indx", "movp", "movm",
    "movmp", "movb", "movw", "movf", "cvtbw", "cvtwb", "cvtfw", "cvtwf", "cvtca", "cvtac", "cvtwc", "cvtcw", "cvtfc", "cvtcf",
    "addb", "addw", "addf", "subb", "subw", "subf", "mulb", "mulw", "mulf", "divb", "divw", "divf", "modw", "modb", "andb",
    "andw", "orb", "orw", "xorb", "xorw", "shlb", "shlw", "shrb", "shrw", "insc", "indc", "addc", "lenc", "lena", "lenl",
    "beqb", "bneb", "bltb", "bleb", "bgtb", "bgeb", "beqw", "bnew", "bltw", "blew", "bgtw", "bgew", "beqf", "bnef", "bltf",
    "blef", "bgtf", "bgef", "beqc", "bnec", "bltc", "blec", "bgtc", "bgec", "slicea", "slicela", "slicec", "indw", "indf",
    "indb", "negf", "movl", "addl", "subl", "divl", "modl", "mull", "andl", "orl", "xorl", "shll", "shrl", "bnel", "bltl",
    "blel", "bgtl", "bgel", "beql", "cvtlf", "cvtfl", "cvtlw", "cvtwl", "cvtlc", "cvtcl", "headl", "consl", "newcl", "casec",
    "indl", "movpc", "tcmp", "mnewz", "cvtrf", "cvtfr", "cvtws", "cvtsw", "lsrw", "lsrl", "eclr", "newz", "newaz", "raise",
    "casel", "mulx", "divx", "cvtxx", "mulx0", "divx0", "cvtxx0", "mulx1", "divx1", "cvtxx1", "cvtfx", "cvtxf", "expw", "expl",
    "expf", "self", "brkpt">>
CodeOf(opcode) == IndexOf(Opcodes, opcode)

\* A module is [signature, header, code, types, data, name, exports, imports, handlers].  An
\* instruction is [op, src, mid, dst]; a type [id, size, map]; an item of the data [kind, at, vals],
\* where a value of 64 bits is two words; an export [pc, frame, sig, name]; an import the functions
\* [sig, name] of one module; a handler [at, from, to, type, cases], its cases [name, pc], the last
\* nameless.
XMagic == 819248
SMagic == 923426
MustCompile == 1
DontCompile == 2
HasHandler == 32
HasImport == 64
Has(flags, flag) == (flags \div flag) % 2 = 1
NoName == <<>>
Operand(mode, at, off) == [mode |-> mode, at |-> at, off |-> off]
UnusedOperand == Operand("none", 0, 0)
Modes == <<"mp", "fp", "imm", "none", "mpind", "ind">>
MiddleModes == <<"none", "imm", "fp", "mp">>
OneNumber == {"mp", "fp", "imm"}
TwoNumbers == {"mpind", "ind"}
ItemKinds == <<"bytes", "words", "string", "reals", "array", "setarray", "restore", "bigs">>
Wide == {"reals", "bigs"}       \* whose values are two words
Narrow == {"bytes", "string"}    \* whose values are bytes
Single == {"array", "setarray", "restore"}

\* What they can be.  A name has no null byte, no word is too wide, and only the
\* last case of a handler has no name.
LargestInt32 == 2147483647
Int32 == -LargestInt32 - 1 .. LargestInt32
NameSet == Seq(Nat \ {0})
MiddleSet == {UnusedOperand} \cup [mode : {"imm", "fp", "mp"}, at : Int, off : {0}]
OperandSet == {UnusedOperand} \cup [mode : OneNumber, at : Int, off : {0}] \cup [mode : TwoNumbers, at : Int, off : Int]
InstrSet == [op : ToSet(Opcodes), src : OperandSet, mid : MiddleSet, dst : OperandSet]
TypeSet == [id : Int, size : Int, map : Seq(Nat)]
ItemSet ==
  [kind : Narrow, at : Nat, vals : Seq(Nat)] \cup [kind : {"words"}, at : Nat, vals : Seq(Int32)]
    \cup [kind : Wide, at : Nat, vals : Seq([1 .. 2 -> Int32])] \cup [kind : {"array"}, at : Nat, vals : [1 .. 2 -> Int32]]
    \cup [kind : {"setarray"}, at : Nat, vals : [1 .. 1 -> Int32]] \cup [kind : {"restore"}, at : {0}, vals : {<<>>}]
ExportSet == [pc : Int, frame : Int, sig : Int32, name : NameSet]
FunctionSet == [sig : Int32, name : NameSet]
CaseSet == [name : NameSet, pc : Int]
MostCases == 65536   \* 2 ^ 16
HandlerSet ==
  {h \in [at : Int, from : Int, to : Int, type : Int, cases : Seq(CaseSet)] :
     /\ Len(h.cases) \in 1 .. MostCases
     /\ \A n \in DOMAIN h.cases : h.cases[n].name = NoName <=> n = Len(h.cases)}
HeaderSet == [flags : Int, stack : Int, code : Int, data : Int, types : Int, exports : Int, pc : Int, frame : Int]
\* The header counts the sections and announces the imports, of which there is a module then, and the
\* handlers, which come after them.
IsModule(m) ==
  /\ m \in [signature : Seq(Nat), header : HeaderSet, code : Seq(InstrSet), types : Seq(TypeSet), data : Seq(ItemSet),
            name : NameSet, exports : Seq(ExportSet), imports : Seq(Seq(FunctionSet)), handlers : Seq(HandlerSet)]
  /\ m.header.code = Len(m.code) /\ m.header.types = Len(m.types) /\ m.header.exports = Len(m.exports)
  /\ Has(m.header.flags, HasImport) <=> m.imports # <<>>
  /\ Has(m.header.flags, HasHandler) => Has(m.header.flags, HasImport)
  /\ ~Has(m.header.flags, HasHandler) => m.handlers = <<>>

-----------------------------------------------------------------------------
(* Writing.                                                                    *)

\* The file is refused if an operand is out of the range that the longest form has, 2 ^ 29.
OutOfRange == -1
Byte1 == 256
Byte2 == 256 * 256
Byte3 == 256 * 256 * 256
OperandLimit == 32 * Byte3
WriteOp(v) ==
  CASE v \in 0 .. 63        -> <<v>>
    [] v \in -64 .. -1      -> <<64 + (v % 64)>>
    [] v \in -8192 .. -65 \/ v \in 64 .. 8191 -> <<128 + ((v \div Byte1) % 64), v % 256>>
    [] v < -OperandLimit \/ v >= OperandLimit -> <<OutOfRange>>
    [] OTHER -> <<192 + ((v \div Byte3) % 64), (v \div Byte2) % 256, (v \div Byte1) % 256, v % 256>>
WriteWord(v) == <<(v \div Byte3) % 256, (v \div Byte2) % 256, (v \div Byte1) % 256, v % 256>>
WriteName(name) == name \o <<0>>
WriteHeader(h) == Each(WriteOp, <<h.flags, h.stack, h.code, h.data, h.types, h.exports, h.pc, h.frame>>)

WriteOperand(o) ==
  CASE o.mode = "none" -> <<>>
    [] o.mode \in OneNumber  -> WriteOp(o.at)
    [] o.mode \in TwoNumbers -> Each(WriteOp, <<o.at, o.off>>)
ModeByte(i) == 64 * IndexOf(MiddleModes, i.mid.mode) + 8 * IndexOf(Modes, i.src.mode) + IndexOf(Modes, i.dst.mode)
WriteInstr(i) == <<CodeOf(i.op), ModeByte(i)>> \o Each(WriteOperand, <<i.mid, i.src, i.dst>>)
WriteType(t) == Each(WriteOp, <<t.id, t.size, Len(t.map)>>) \o t.map

WriteWide(v) == Each(WriteWord, v)
WriteValues(kind, vals) ==
  CASE kind \in Wide -> Each(WriteWide, vals) [] kind \in Narrow -> vals [] OTHER -> Each(WriteWord, vals)
\* The kind and a count from 1 to 15 are one byte; the kinds that hold one thing count nothing.
WriteKind(kind, count) ==
  CASE kind \in Single -> <<16 * (1 + IndexOf(ItemKinds, kind)) + 1>>
    [] kind \notin Single /\ count \in 1 .. 15    -> <<16 * (1 + IndexOf(ItemKinds, kind)) + count>>
    [] kind \notin Single /\ count \notin 1 .. 15 -> <<16 * (1 + IndexOf(ItemKinds, kind))>> \o WriteOp(count)
WriteItem(d) == WriteKind(d.kind, Len(d.vals)) \o WriteOp(d.at) \o WriteValues(d.kind, d.vals)

WriteExport(e) == Flat(<<WriteOp(e.pc), WriteOp(e.frame), WriteWord(e.sig), WriteName(e.name)>>)
WriteFunction(f) == Flat(<<WriteWord(f.sig), WriteName(f.name)>>)
WriteImport(functions) == WriteOp(Len(functions)) \o Each(WriteFunction, functions)
\* The section is there whether the flags announce it or not; the byte after it only if it holds something.
WriteImports(imports) ==
  WriteOp(Len(imports)) \o Each(WriteImport, imports) \o IF imports = <<>> THEN <<>> ELSE <<0>>
WriteCase(c) == IF c.name = NoName THEN <<>> ELSE Flat(<<WriteName(c.name), WriteOp(c.pc)>>)
WriteHandler(h) ==
  LET nameless == {n \in DOMAIN h.cases : h.cases[n].name = NoName}
      named == DOMAIN h.cases \ nameless
  IN Each(WriteOp, <<h.at, h.from, h.to, h.type, Cardinality(named) % MostCases>>)
       \o Each(WriteCase, h.cases) \o WriteOp(IF nameless = {} THEN -1 ELSE h.cases[Min(nameless)].pc)
WriteHandlers(handlers) == WriteOp(Len(handlers)) \o Each(WriteHandler, handlers) \o <<0>>

WriteSections(m) ==
  Flat(<<Each(WriteInstr, m.code), Each(WriteType, m.types), Each(WriteItem, m.data) \o <<0>>, WriteName(m.name),
         Each(WriteExport, m.exports), WriteImports(m.imports),
         IF Has(m.header.flags, HasHandler) THEN WriteHandlers(m.handlers) ELSE <<>>>>)
Write(m) == WriteOp(XMagic) \o WriteHeader(m.header) \o WriteSections(m)
\* Not by the code: the file gets a signature, which stands between another magic number and the rest.
WithSignature(bytes, signature) ==
  WriteOp(SMagic) \o WriteOp(Len(signature)) \o signature \o SubSeq(bytes, Len(WriteOp(XMagic)) + 1, Len(bytes))
Writable(bytes) == \A n \in DOMAIN bytes : bytes[n] # OutOfRange

-----------------------------------------------------------------------------
(* Reading.  The state is [file, at, ok, val]: the bytes, the next one,        *)
(* whether nothing was refused yet, and what was read last.                    *)

Reading(file, at, ok, val) == [file |-> file, at |-> at, ok |-> ok, val |-> val]
Left(r) == Len(r.file) - r.at + 1
Refuse(r) == Reading(r.file, r.at, FALSE, r.val)
Given(r, val) == IF r.ok THEN Reading(r.file, r.at, TRUE, val) ELSE r
Require(r, holds) == IF r.ok /\ ~holds THEN Refuse(r) ELSE r
Take(r, n) ==
  IF r.ok /\ n <= Left(r) THEN Reading(r.file, r.at + n, TRUE, SubSeq(r.file, r.at, r.at + n - 1)) ELSE Refuse(r)
ReadByte(r) == IF r.ok /\ Left(r) > 0 THEN Reading(r.file, r.at + 1, TRUE, r.file[r.at]) ELSE Refuse(r)
BigEndian(v, bytes) ==
  LET number[n \in 0 .. Len(bytes)] == IF n = 0 THEN v ELSE 256 * number[n - 1] + bytes[n] IN number[Len(bytes)]
\* The form of an operand is in the first two bits, its sign in the one after them.
HighBitsUnsigned(byte) == byte % 64   \* a negative number comes back positive
HighBits(byte) == IF byte % 64 >= 32 THEN (byte % 64) - 64 ELSE byte % 64
LowBytes(first, rest) == Given(rest, BigEndian(HighBits(first.val), rest.val))
OperandFrom(first) ==
  IF ~first.ok \/ first.val < 64 THEN first
  ELSE IF first.val < 128 THEN Given(first, first.val - 128)
  ELSE LowBytes(first, Take(first, IF first.val < 192 THEN 1 ELSE 3))
ReadOperand(r) == OperandFrom(ReadByte(r))
NotNegative(r) == Require(r, r.val >= 0)
ReadCount(r) == NotNegative(ReadOperand(r))
WordOf(r) == Given(r, BigEndian(IF r.val[1] < 128 THEN r.val[1] ELSE r.val[1] - 256, Tail(r.val)))
ReadWord(r) == WordOf(Take(r, 4))
ReadName(r) ==
  LET ends == {n \in r.at .. Len(r.file) : r.file[n] = 0}
  IN IF r.ok /\ ends # {} THEN Reading(r.file, Min(ends) + 1, TRUE, SubSeq(r.file, r.at, Min(ends) - 1)) ELSE Refuse(r)

\* Things of these kinds, one after the other, each read by Op; and as many of one kind as were
\* counted last, each of which takes a byte at least.
Gathered(done, read) == Given(read, Append(done.val, read.val))
Onward(done, Op(_, _), kind) == IF done.ok THEN Gathered(done, Op(done, kind)) ELSE done
Some(done, Op(_, _), kinds, from, to) ==
  LET upto[n \in from .. to] == IF n = from THEN done ELSE Onward(upto[n - 1], Op, kinds[n])
  IN IF done.ok THEN upto[to] ELSE done
ReadEach(r, Op(_, _), kinds) ==
  LET upto[part \in 0 .. Parts(Len(kinds))] ==
        IF part = 0 THEN Given(r, <<>>) ELSE Some(upto[part - 1], Op, kinds, Short * (part - 1), EndOf(part, Len(kinds)))
  IN upto[Parts(Len(kinds))]
ReadMany(r, Op(_, _), kind) ==
  IF r.ok /\ r.val \in 0 .. Left(r) THEN ReadEach(r, Op, [n \in 1 .. r.val |-> kind]) ELSE Refuse(r)
Counted(r, Op(_, _), kind) == ReadMany(ReadCount(r), Op, kind)
ReadField(r, kind) ==
  CASE kind = "operand" -> ReadOperand(r)
    [] kind = "count"   -> ReadCount(r)
    [] kind = "word"    -> ReadWord(r)
    [] kind = "name"    -> ReadName(r)
\* A section that ends in a null byte.
ClosedAnyhow(r, end) == r   \* the byte is not waited for
ClosedBy(r, end) == IF end.ok /\ end.val = 0 THEN Given(end, r.val) ELSE Refuse(r)
Closed(r) == ClosedBy(r, ReadByte(r))

\* What fields make up: an operand that has a mode, a value of 64 bits, what an import or a handler lists.
OneOperand(r, mode) == Given(r, Operand(mode, r.val, 0))
TwoOperands(r, mode) == Given(r, Operand(mode, r.val[1], r.val[2]))
ReadOperandOf(r, mode) ==
  CASE mode = "none" -> Given(r, UnusedOperand)
    [] mode \in OneNumber  -> OneOperand(ReadOperand(r), mode)
    [] mode \in TwoNumbers -> TwoOperands(ReadEach(r, ReadField, <<"operand", "operand">>), mode)
    [] mode = "reserved"   -> Refuse(r)
ReadWide(r) == ReadEach(r, ReadField, <<"word", "word">>)
FunctionOf(r) == Given(r, [sig |-> r.val[1], name |-> r.val[2]])
ReadFunction(r) == FunctionOf(ReadEach(r, ReadField, <<"word", "name">>))
CaseFrom(r) == Given(r, [name |-> r.val[1], pc |-> r.val[2]])
ReadCase(r) == CaseFrom(ReadEach(r, ReadField, <<"name", "operand">>))
ReadPart(r, kind) ==
  CASE kind = "wide"     -> ReadWide(r)
    [] kind = "function" -> ReadFunction(r)
    [] kind = "case"     -> ReadCase(r)
    [] kind \notin {"wide", "function", "case"} -> ReadOperandOf(r, kind)

\* An opcode, the three modes in a byte, and the operands that have these modes.
ModeOf(bits) == IF bits < Len(Modes) THEN Modes[bits + 1] ELSE "reserved"
ModesIn(byte) == <<MiddleModes[1 + byte \div 64], ModeOf((byte \div 8) % 8), ModeOf(byte % 8)>>
InstrOf(opcode, r) == Given(r, [op |-> Opcodes[opcode + 1], mid |-> r.val[1], src |-> r.val[2], dst |-> r.val[3]])
InstrFrom(opcode, modes) ==
  IF modes.ok THEN InstrOf(opcode, ReadEach(modes, ReadPart, ModesIn(modes.val))) ELSE modes
WithOpcode(r) == IF r.ok /\ r.val < Len(Opcodes) THEN InstrFrom(r.val, ReadByte(r)) ELSE Refuse(r)
ReadInstr(r) == WithOpcode(ReadByte(r))

MapOf(head, map) == Given(map, [id |-> head[1], size |-> head[2], map |-> map.val])
TypeFrom(r) == IF r.ok THEN MapOf(r.val, Take(r, r.val[3])) ELSE r
ReadType(r) == TypeFrom(ReadEach(r, ReadField, <<"operand", "operand", "count">>))

ReadValues(r, kind, count) ==
  CASE kind \in Narrow    -> Take(r, count)
    [] kind = "words"    -> ReadMany(Given(r, count), ReadField, "word")
    [] kind \in Wide     -> ReadMany(Given(r, count), ReadPart, "wide")
    [] kind = "array"    -> ReadWide(r)
    [] kind = "setarray" -> ReadEach(r, ReadField, <<"word">>)
    [] kind = "restore"  -> Given(r, <<>>)
ItemOf(kind, at, r) == Given(r, [kind |-> kind, at |-> IF kind = "restore" THEN 0 ELSE at, vals |-> r.val])
ItemAt(kind, count, at) ==
  IF at.ok /\ at.val >= 0 /\ kind \in DOMAIN ItemKinds
  THEN ItemOf(ItemKinds[kind], at.val, ReadValues(at, ItemKinds[kind], count)) ELSE Refuse(at)
ItemOfCount(kind, r) == IF r.ok THEN ItemAt(kind, r.val, ReadOperand(r)) ELSE r
ItemFrom(r) ==
  IF r.ok THEN ItemOfCount(r.val \div 16, IF r.val % 16 = 0 THEN ReadCount(r) ELSE Given(r, r.val % 16)) ELSE r
ReadItem(r) == ItemFrom(ReadByte(r))
\* None or one, for a null byte is no item.
AsOne(r) == Given(r, <<r.val>>)
AnyItem(r) == IF Left(r) = 0 \/ r.file[r.at] = 0 THEN Given(r, <<>>) ELSE AsOne(ReadItem(r))

ExportOf(r) == Given(r, [pc |-> r.val[1], frame |-> r.val[2], sig |-> r.val[3], name |-> r.val[4]])
ReadExport(r) == ExportOf(ReadEach(r, ReadField, <<"operand", "operand", "word", "name">>))
ReadImport(r) == Counted(r, ReadPart, "function")

\* The cases of a handler, and the one without a name.
HandlerOf(head, cases, other) ==
  Given(other, [at |-> head[1], from |-> head[2], to |-> head[3], type |-> head[4],
                cases |-> Append(cases, [name |-> NoName, pc |-> other.val])])
HandlerWith(head, cases) == IF cases.ok THEN HandlerOf(head, cases.val, ReadOperand(cases)) ELSE cases
HandlerFrom(r) == IF r.ok THEN HandlerWith(r.val, ReadMany(Given(r, r.val[5] % MostCases), ReadPart, "case")) ELSE r
ReadHandler(r) == HandlerFrom(ReadEach(r, ReadField, <<"operand", "operand", "operand", "operand", "operand">>))

ReadThing(r, kind) ==
  CASE kind = "instr"   -> ReadInstr(r)
    [] kind = "type"    -> ReadType(r)
    [] kind = "item"    -> AnyItem(r)
    [] kind = "export"  -> ReadExport(r)
    [] kind = "import"  -> ReadImport(r)
    [] kind = "handler" -> ReadHandler(r)

\* The signature of a signed file is kept and not looked at.
SignatureOf(count) == IF count.ok THEN Take(count, count.val) ELSE count
SignatureFrom(magic) ==
  IF magic.ok /\ magic.val = SMagic THEN SignatureOf(ReadCount(magic)) ELSE Given(Require(magic, magic.val = XMagic), <<>>)
HeaderOf(signature, r) ==
  Given(r, <<signature, [flags |-> r.val[1], stack |-> r.val[2], code |-> r.val[3], data |-> r.val[4],
                         types |-> r.val[5], exports |-> r.val[6], pc |-> r.val[7], frame |-> r.val[8]]>>)
HeaderFrom(r) == IF r.ok THEN HeaderOf(r.val, ReadEach(r, ReadField, [n \in 1 .. 8 |-> "operand"])) ELSE r
ReadHeader(r) == HeaderFrom(SignatureFrom(ReadOperand(r)))

\* The sections that a header announces, in their order, some of a number of things.
Section(kind, count) == [kind |-> kind, count |-> count]
Announced(h, flag, kind) == Section(IF Has(h.flags, flag) THEN kind ELSE "absent", 0)
Sections(h) ==
  <<Section("code", h.code), Section("types", h.types), Section("data", 0), Section("name", 0), Section("exports", h.exports),
    Announced(h, HasImport, "imports"), Announced(h, HasHandler, "handlers")>>
\* An item takes two bytes at least.
InOne(r) == Given(r, Flat(r.val))
ReadData(r) == Closed(InOne(ReadEach(r, ReadThing, [n \in 1 .. Left(r) \div 2 |-> "item"])))
ReadSection(r, s) ==
  CASE s.kind = "code"     -> ReadMany(Given(r, s.count), ReadThing, "instr")
    [] s.kind = "types"    -> ReadMany(Given(r, s.count), ReadThing, "type")
    [] s.kind = "data"     -> ReadData(r)
    [] s.kind = "name"     -> ReadName(r)
    [] s.kind = "exports"  -> ReadMany(Given(r, s.count), ReadThing, "export")
    [] s.kind = "imports"  -> Closed(Counted(r, ReadThing, "import"))
    [] s.kind = "handlers" -> Closed(Counted(r, ReadThing, "handler"))
    [] s.kind = "absent"   -> Given(r, <<>>)
ModuleOf(signature, h, r) ==
  Given(r, [signature |-> signature, header |-> h, code |-> r.val[1], types |-> r.val[2], data |-> r.val[3],
            name |-> r.val[4], exports |-> r.val[5], imports |-> r.val[6], handlers |-> r.val[7]])
ModuleFrom(r) ==
  IF r.ok THEN ModuleOf(r.val[1], r.val[2], ReadEach(r, ReadSection, Sections(r.val[2]))) ELSE r
ReadModule(r) == ModuleFrom(ReadHeader(r))

-----------------------------------------------------------------------------
(* Loading.                                                                    *)

\* What the interpreter takes on trust: every jump into the module and every type that it names is in it.
Valid(m) ==
  LET pcs == 0 .. Len(m.code) - 1
      types == 0 .. Len(m.types) - 1
      ValidCase(h, n) == h.cases[n].pc \in pcs \/ (n = Len(h.cases) /\ h.cases[n].pc = -1)
  IN /\ m.header.pc \in pcs \cup {-1}
     /\ m.types = <<>> \/ m.header.frame \in types \cup {-1}
     /\ ~(Has(m.header.flags, MustCompile) /\ Has(m.header.flags, DontCompile))
     /\ \A e \in ToSet(m.exports) :
          (e.pc >= 0 => e.pc \in pcs) /\ (e.frame >= 0 /\ m.types # <<>> => e.frame \in types)
     /\ \A h \in ToSet(m.handlers) :
          /\ h.from \in pcs /\ h.to \in 0 .. Len(m.code) /\ h.from < h.to
          /\ h.type \in types \cup {-1}
          /\ \A n \in DOMAIN h.cases : ValidCase(h, n)

Checked(r) == Require(r, Valid(r.val))
Load(file) == Checked(ReadModule(Reading(file, 1, TRUE, <<>>)))

=============================================================================
