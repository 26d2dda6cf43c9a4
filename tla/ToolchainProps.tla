---------------------------- MODULE ToolchainProps ----------------------------
(* What the compiler and the loader promise together.                          *)
EXTENDS Toolchain, LimboSources

CONSTANT Meanings   \* of the files that declare data: file -> name -> value

Text == INSTANCE SourceText
Generating == INSTANCE Codegen WITH Adts <- MCAdts
Declaring(interfaces) == INSTANCE ModuleData WITH WordMax <- 511, Interfaces <- interfaces, Words <- WordsOfStrings
Declared(interfaces) == INSTANCE DataMeaning WITH WordMax <- 511, Included <- interfaces
MadeByHand == INSTANCE DisModules
Numeric == INSTANCE NumberMeaning

\* SubSeq makes TLC work each of them out once.
Texts(inputs, runs, spaced) ==
  SubSeq([n \in DOMAIN inputs |->
            [file |-> inputs[n].file, refused |-> inputs[n].refused, runs |-> runs,
             text |-> Text!Written(Text!FileText(inputs[n].file), spaced) \o inputs[n].after]], 1, Len(inputs))
Programs0 == [n \in DOMAIN RunnablePrograms |-> Plain0(RunnablePrograms[n])]
OfData == DataFiles \o NotGenerated
Runnable == Programs0 \o OfData
AllSources ==
  Texts(SyntaxSources, FALSE, FALSE) \o Texts(RefusedSources, FALSE, FALSE) \o Texts(Runnable, TRUE, FALSE)
    \o Texts(SyntaxSources, FALSE, TRUE) \o Texts(RefusedSources, FALSE, TRUE) \o Texts(Runnable, TRUE, TRUE)

\* What is included is read like any other file.
Parsed(text) ==
  LET tokens == Lexing!Tokenize(text) IN IF Lexing!Unreadable(tokens) THEN [ok |-> FALSE] ELSE Parsing!ParseFile(tokens)
Readings == SubSeq([n \in DOMAIN Library |-> Parsed(Text!Written(Text!FileText(Library[n].file.file), FALSE) \o Library[n].file.after)], 1, Len(Library))
\* The files of the library by their paths, of those that are in.
ByPath(in, files) == [path \in {Library[n].path : n \in in} |-> files[CHOOSE n \in in : Library[n].path = path]]
Interfaces ==
  LET readings == Readings
  IN ByPath({n \in DOMAIN readings : readings[n].ok}, [n \in DOMAIN readings |-> IF readings[n].ok THEN readings[n].val ELSE <<>>])
Included == ByPath({n \in DOMAIN Library : Library[n].file.refused = "nowhere"}, [n \in DOMAIN Library |-> Library[n].file.file])

GeneratedFrom(ok, file, image, data, slots) ==
  [ok |-> ok, made |-> [module |-> Pack(file, image, data), shapes |-> Shapes(image), slots |-> slots]]
FromCode(file, image) == GeneratedFrom(TRUE, file, image, [n \in DOMAIN image.data |-> PackItem(image.data[n])], <<>>)
FromData(file, image) == GeneratedFrom(image.ok, file, image, image.data, image.globals)
AllGenerated ==
  LET interfaces == Interfaces
  IN [file \in {Programs0[n].file : n \in DOMAIN Programs0} |-> FromCode(file, Generating!Compile(file))]
       @@ [file \in {OfData[n].file : n \in DOMAIN OfData} |-> FromData(file, Declaring(interfaces)!Compile(file))]
AllModules == Append(MadeByHand!Made, [MadeByHand!Good(MadeByHand!Library, {}) EXCEPT !.operations = Numeric!Operations])
InBytes(v) == IF v.is = "text" THEN [v EXCEPT !.val = Declaring(<<>>)!TextOf(v.val)] ELSE v
Encoded(v) == IF v.is = "array" THEN [v EXCEPT !.val = [n \in DOMAIN v.val |-> InBytes(v.val[n])]] ELSE InBytes(v)
MeaningOf(meaning) == [name \in DOMAIN meaning |-> Encoded(meaning[name])]
AllMeanings ==
  LET included == Included
  IN [file \in {DataFiles[n].file : n \in DOMAIN DataFiles} |-> MeaningOf(Declared(included)!Meaning(file))]
ASSUME SourcesAreWritten == Sources = AllSources
ASSUME GeneratedIsCompiled == Generated = AllGenerated
ASSUME MeaningsAreThose == Meanings = AllMeanings

\* A syntax tree, written with no parentheses and blanks but those that the grammar of Limbo asks
\* for, or with a comment after every token, is what the lexer and the parser make of that text,
\* and no text that is no Limbo gets so far: the binding powers of parser.rs, its lookahead where
\* an arm, a declaration or a label may begin, and the longest match of lexer.rs.
ReadsBack ==
  /\ stage = "tree" => art = Input.file /\ Input.refused # "reading"
  /\ stage = "refused" /\ art \in {"text", "tokens"} => Input.refused = "reading"

\* What the loader takes from a file is what the compiler put into it, and the heap finds the
\* pointers where the code generator marked them; a valid module is never refused, and one that
\* is not, or does not fit into the format, always is (writer.rs, decode.rs, reader.rs, heap.rs).
LoadsBack ==
  /\ stage = "loaded" =>
       /\ Input.refused # "loading" /\ art = made.module /\ Files!IsModule(art)
       /\ \A n \in DOMAIN made.shapes : Traced(art.types[n]) = made.shapes[n]
  /\ stage = "refused" /\ art \in {"module", "file"} /\ cut = 0 => Input.refused = "loading"

\* A file that lost its end is never loaded, for every section ends in something that the loader
\* waits for; only the count of imports that the header does not announce is not missed (decode.rs).
CutFilesAreRefused ==
  stage = "loaded" /\ cut > 0 => cut = 1 /\ ~Files!Has(made.module.header.flags, Files!HasImport)

\* How the memory shows a value at a place of some bytes: of the data, or of an array in it.
Wide(v) == <<IF v < 0 THEN -1 ELSE 0, v>>
BytesOfElem(type) == CASE type.kind = "byte" -> 1 [] type.kind \in {"big", "real"} -> 8 [] OTHER -> 4
Pointers(type) == IF type.kind \in {"int", "byte", "big", "real"} THEN {} ELSE {0}
RECURSIVE Shows(_, _, _, _)
ArrayShows(heap, object, type, vals) ==
  /\ object.is = "array" /\ object.len = Len(vals) /\ object.size = BytesOfElem(type)
  /\ Traced(made.module.types[object.elem + 1]) = Pointers(type)
  /\ \A n \in DOMAIN vals : Shows(heap, object.bytes, BytesOfElem(type) * (n - 1), vals[n])
PointerShows(heap, id, v) ==
  /\ id \in DOMAIN heap
  /\ CASE v.is = "text"  -> heap[id].is = "str" /\ heap[id].val = v.val
       [] v.is = "array" -> ArrayShows(heap, heap[id], v.type, v.val)
Shows(heap, bytes, at, v) ==
  CASE v.is = "int"  -> Memory!WordAt(bytes, at) = v.val
    [] v.is = "byte" -> Memory!ReadValue(bytes, at, "b", 0) = v.val
    [] v.is = "big"  -> Memory!BigAt(bytes, at) = Wide(v.val)
    [] v.is = "real" -> Memory!ReadValue(bytes, at, "f", <<0, 0>>) = Wide(v.val)
    [] v.is = "nil"  -> Memory!WordAt(bytes, at) = 0
    [] v.is \in {"text", "array"} -> PointerShows(heap, Memory!WordAt(bytes, at), v)
GlobalSlots ==
  IF job[1] = "module" THEN Input.slots
  ELSE [n \in DOMAIN made.slots |-> [at |-> made.slots[n].at, holds |-> Meanings[Input.file][made.slots[n].name]]]

\* Every global begins with the value that its declaration means, whatever was folded, imported,
\* hidden, aligned, filled in or nested on the way, and the collector finds the pointers in it; what
\* cannot be worked out before the program runs is refused, never left at zero (codegen.rs
\* collect_consts and collect_globals, includes.rs, data.rs).
DataIsMeaning ==
  /\ made # <<>> => Input.refused # "generating"
  /\ stage = "refused" /\ art = "tree" => Input.refused = "generating"
  /\ stage = "placed" => \A n \in DOMAIN GlobalSlots : Shows(art.heap, art.mp, GlobalSlots[n].at, GlobalSlots[n].holds)

\* A case goes to the range of its table that has the value, or to the place of all others, however
\* many ranges there are and wherever the value lies: on a bound, between two, before or after all
\* (ops/control.rs op_casew, op_casec, op_casel, op_goto).
CasesFindTheirRange ==
  stage = "jumped" =>
    LET s == Input.switches[art.switch]
        having == {r \in DOMAIN s.ranges : s.place \in s.ranges[r][1] .. s.ranges[r][2] - 1}
    IN art.pc = IF having = {} THEN s.other ELSE s.ranges[CHOOSE r \in having : TRUE][3]

\* A call through a loaded module runs the function that it names, on a frame of that function's
\* size, though others have the same signature, are exported in another order or come from another
\* module of that name, and whichever of the files on the way cannot be read; what is found
\* nowhere is a fault (ops/control.rs op_load, module_candidates, op_mframe, op_mcall).
ImportsAreBound ==
  stage = "called" =>
    LET meant == Input.loads[art.load].means[art.func]
    IN art.entry = meant.entry /\ art.frame.size = meant.size

\* A power is the product that it stands for, however it is squared; fixed point rounds toward zero,
\* away from it or down as its opcode and flags say, never by more than one; a conversion takes the
\* nearest number there is; and a text is read as the longest number that it begins with and written
\* as the shortest that is near (ops/arith.rs op_expw, ops/fixedpoint.rs, ops/convert.rs parse_strtol,
\* parse_strtod, format_g, ops/compare.rs).
NumbersAreExact == stage = "computed" => Numeric!Means(art.operation, art.result)
=============================================================================
