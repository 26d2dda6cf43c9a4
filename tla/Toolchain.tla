------------------------------- MODULE Toolchain -------------------------------
(* From Limbo source to a loaded module: the lexer, the parser, the code        *)
(* generator and the writer of the compiler (ricevm-limbo, lib.rs), then the    *)
(* loader (ricevm-loader, lib.rs).  Each hands the next one what it made, or    *)
(* refuses.  A file may lose its end, or be signed, between the two.            *)
EXTENDS Dis

CONSTANTS
  Sources,    \* what is compiled: a text, the file that it is meant to be, where it is refused, whether it is run
  Generated,  \* what the code generator makes of the files that are run
  Modules,    \* what is written without a source: a module, where it is refused, what may be cut off, what it jumps through, loads and computes
  CutLengths, \* how many bytes a compiled file may lose
  MaxArrayBytes, \* the most that an array of the data may have
  MaxData,    \* data up to this size is placed
  Precision   \* the significant digits of a real that is written, 6 in the code

VARIABLES
  job,        \* <<"source", n>> or <<"module", n>>
  stage,      \* what there is: text, tokens, tree, module, file, loaded, placed, jumped, linked, called, computed, or refused
  art,        \* it
  made,       \* the module, how the compiler laid out its types, and where its globals are
  cut         \* what was lost of the file
vars == <<job, stage, art, made, cut>>

Lexing == INSTANCE Lexer
Parsing == INSTANCE Parser
Files == INSTANCE Format
Memory == INSTANCE DataImage
Binding == INSTANCE Linking
Arithmetic == INSTANCE Numbers

Input == IF job[1] = "source" THEN Sources[job[2]] ELSE Modules[job[2]]

-----------------------------------------------------------------------------
(* From the code generator's image to a module (codegen.rs).                   *)

\* The most significant bit of a byte is its first word.
BitOfWord(n) == 2 ^ (7 - (n % 8))
MapOf(type) ==
  LET words == (type.size + 3) \div 4
      marked == {w \in 0 .. words - 1 : 4 * w \in type.pointers /\ 4 * w + 4 <= type.size}
  IN [byte \in 1 .. (words + 7) \div 8 |-> MapThenSumSet(BitOfWord, {w \in marked : w \div 8 = byte - 1})]
\* How the heap reads it (heap.rs).
Traced(type) ==
  {4 * w : w \in {v \in 0 .. 8 * Len(type.map) - 1 :
                    (type.map[1 + v \div 8] \div BitOfWord(v)) % 2 = 1 /\ 4 * v + 4 <= type.size}}

NameOf(word) == <<256 + CHOOSE n \in 1 .. 3 : <<"init", "Test", "Other">>[n] = word>>
OpcodeOf(i) == IF i.op \o i.k \in ToSet(Files!Opcodes) THEN i.op \o i.k ELSE i.op
PackInstr(i) == [op |-> OpcodeOf(i), mid |-> i.mid, src |-> i.src, dst |-> i.dst]
PackItem(d) ==
  [kind |-> IF d.k = "l" THEN "bigs" ELSE "words", at |-> d.at,
   vals |-> IF d.k = "l" THEN <<<<IF d.val < 0 THEN -1 ELSE 0, d.val>>>> ELSE <<d.val>>]
\* The section of the imports is announced, so it holds one block even if nothing is imported.
Pack(file, image, data) ==
  LET frames == {image.types[2 + n].size : n \in DOMAIN SelectSeq(file.decls, LAMBDA d: d.op = "func")}
      exports == IF image.pc < 0 THEN <<>> ELSE <<[pc |-> image.pc, frame |-> image.frame, sig |-> 0, name |-> NameOf("init")]>>
  IN [signature |-> <<>>,
      header |-> [flags |-> Files!HasImport, stack |-> Max({size + 256 : size \in frames} \cup {480}), code |-> Len(image.code),
                  data |-> image.size, types |-> Len(image.types), exports |-> Len(exports), pc |-> image.pc, frame |-> image.frame],
      code |-> [n \in DOMAIN image.code |-> PackInstr(image.code[n])],
      types |-> [n \in DOMAIN image.types |-> [id |-> n - 1, size |-> image.types[n].size, map |-> MapOf(image.types[n])]],
      data |-> data, name |-> NameOf(file.implement[1]), exports |-> exports,
      imports |-> <<<<>>>>, handlers |-> <<>>]

\* The words of each type that the compiler takes for pointers.
Shapes(image) == [n \in DOMAIN image.types |-> image.types[n].pointers]

-----------------------------------------------------------------------------
(* The stages.                                                                 *)

Init ==
  /\ \/ \E n \in DOMAIN Sources :
          job = <<"source", n>> /\ stage = "text" /\ art = Sources[n].text /\ made = <<>>
     \/ \E n \in DOMAIN Modules :
          /\ job = <<"module", n>> /\ stage = "module" /\ art = Modules[n].module
          /\ made = [module |-> Modules[n].module, shapes |-> <<>>, slots |-> <<>>]
  /\ cut = 0

Becomes(what, it) == stage' = what /\ art' = it
\* What was refused is kept.
Refuse == Becomes("refused", stage)

Tokenize ==
  /\ stage = "text"
  /\ \E tokens \in {Lexing!Tokenize(art)} : IF Lexing!Unreadable(tokens) THEN Refuse ELSE Becomes("tokens", tokens)
  /\ UNCHANGED <<job, made, cut>>
ParseTokens ==
  /\ stage = "tokens"
  /\ \E parsed \in {Parsing!ParseFile(art)} : IF parsed.ok THEN Becomes("tree", parsed.val) ELSE Refuse
  /\ UNCHANGED <<job, made, cut>>
Generate ==
  /\ stage = "tree" /\ Input.runs
  /\ \E image \in {Generated[art]} :
       IF image.ok THEN Becomes("module", image.made.module) /\ made' = image.made ELSE Refuse /\ UNCHANGED made
  /\ UNCHANGED <<job, cut>>
WriteFile ==
  /\ stage = "module"
  /\ \E bytes \in {Files!Write(art)} : IF Files!Writable(bytes) THEN Becomes("file", bytes) ELSE Refuse
  /\ UNCHANGED <<job, made, cut>>

\* Not by the code: the file is written in part, or gets a signature.
Cut ==
  /\ stage = "file" /\ cut = 0
  /\ \E n \in IF job[1] = "module" THEN Input.cuts ELSE CutLengths :
       /\ Becomes("file", SubSeq(art, 1, Len(art) - n))
       /\ cut' = n
  /\ UNCHANGED <<job, made>>
Signature == <<0, 255, 7>>
SignFile ==
  /\ stage = "file" /\ cut = 0 /\ made.module.signature = <<>>
  /\ art' = Files!WithSignature(art, Signature)
  /\ made' = [made EXCEPT !.module.signature = Signature]
  /\ UNCHANGED <<job, stage, cut>>

LoadFile ==
  /\ stage = "file"
  /\ \E read \in {Files!Load(art)} : IF read.ok THEN Becomes("loaded", read.val) ELSE Refuse
  /\ UNCHANGED <<job, made, cut>>

\* A module that is run gets its data; then its code jumps through the tables in it.
Place ==
  /\ stage = "loaded" /\ art.header.data \in 0 .. MaxData
  /\ Becomes("placed", Memory!InitMp(art))
  /\ UNCHANGED <<job, made, cut>>
Switch ==
  /\ stage = "placed" /\ job[1] = "module"
  /\ \E n \in DOMAIN Input.switches :
       LET s == Input.switches[n] IN Becomes("jumped", [switch |-> n, pc |-> Memory!Jump(s.op, art, s.at, s.value)])
  /\ UNCHANGED <<job, made, cut>>

\* Or it loads another module and calls through the reference.
LoadOther ==
  /\ stage = "placed" /\ job[1] = "module"
  /\ \E n \in DOMAIN Input.loads :
       \E ref \in {LET l == Input.loads[n] IN Binding!LoadModule(made.module, l.import, l.path, l.root, l.probe, l.files)} :
         Becomes("linked", [load |-> n, ref |-> ref, data |-> Binding!DataOf(ref)])
  /\ UNCHANGED <<job, made, cut>>
CallOther ==
  /\ stage = "linked"
  /\ \E n \in DOMAIN Input.loads[art.load].means :
       Becomes("called", [load |-> art.load, func |-> n, frame |-> Binding!Mframe(art.ref, n), entry |-> Binding!Mcall(art.ref, n)])
  /\ UNCHANGED <<job, made, cut>>

\* Or it computes with what it has.
Compute ==
  /\ stage = "placed" /\ job[1] = "module"
  /\ \E n \in DOMAIN Input.operations : \E o \in Input.operations[n] :
       Becomes("computed", [operation |-> o, result |-> Arithmetic!Computed(o)])
  /\ UNCHANGED <<job, made, cut>>

Next == Tokenize \/ ParseTokens \/ Generate \/ WriteFile \/ Cut \/ SignFile \/ LoadFile \/ Place \/ Switch
          \/ LoadOther \/ CallOther \/ Compute
Spec == Init /\ [][Next]_vars
=============================================================================
