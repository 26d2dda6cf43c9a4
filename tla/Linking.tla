-------------------------------- MODULE Linking --------------------------------
(* How a module gets hold of another one (ricevm-execute, ops/control.rs): load *)
(* finds the module, among those that are built in (builtin.rs) or in the files *)
(* that its path may mean, and binds the functions that the loading module      *)
(* imports to those that it exports; mframe and mcall go through that binding.  *)
(* A path is a sequence of names, the first "/" if it is absolute, the last     *)
(* ".dis" if it ends so.                                                        *)
EXTENDS DataImage

-----------------------------------------------------------------------------
(* The modules that are built in, with the size of the frame of each function   *)
(* (vm.rs; $Sys, $Math, $Draw and $Tk are left out).                            *)

FunctionNames ==
  <<"md5", "sha1", "sha224", "sha256", "sha384", "sha512", "md4", "readauthinfo", "writeauthinfo", "getstring", "putstring",
    "getbytearray", "putbytearray", "auth">>
NameOfBuiltin(name) == <<400 + CHOOSE n \in DOMAIN FunctionNames : FunctionNames[n] = name>>
Builtin(name, sig, size) == [name |-> NameOfBuiltin(name), sig |-> sig, size |-> size]
DigestSig == 124085111
Crypt ==
  <<Builtin("md5", DigestSig, 56), Builtin("sha1", DigestSig, 56), Builtin("sha224", DigestSig, 56), Builtin("sha256", DigestSig, 56),
    Builtin("sha384", DigestSig, 56), Builtin("sha512", DigestSig, 56), Builtin("md4", DigestSig, 56)>>
Keyring ==
  Crypt \o <<Builtin("readauthinfo", -1295507435, 40), Builtin("writeauthinfo", 0, 40), Builtin("getstring", 0, 40), Builtin("putstring", 0, 40),
             Builtin("getbytearray", 0, 40), Builtin("putbytearray", 0, 40), Builtin("auth", 0, 48)>>
Builtins == <<[path |-> <<"$Crypt">>, funcs |-> Crypt], [path |-> <<"$Keyring">>, funcs |-> Keyring]>>
FindBuiltin(path) == SelectInSeq(Builtins, LAMBDA b: b.path = path)

-----------------------------------------------------------------------------
(* The files that a path may mean, in the order in which they are tried.        *)

IsAbsolute(path) == path # <<>> /\ Head(path) = "/"
Under(dir, path) == dir \o IF IsAbsolute(path) THEN Tail(path) ELSE path
WithAndWithout(path) == <<path, path \o <<".dis">>>>
\* What is left of an absolute path without /, /dis/ and /dis/lib/: what keeps the most comes first.
Stripped(path) ==
  LET prefixes == SelectSeq(<<<<"/">>, <<"/", "dis">>, <<"/", "dis", "lib">>>>, LAMBDA p: Len(p) < Len(path) /\ IsPrefix(p, path))
  IN [n \in DOMAIN prefixes |-> SubSeq(path, Len(prefixes[n]) + 1, Len(path))]
Candidates(path, root, probe) ==
  LET stripped == Stripped(path)
      In(dir) == FlattenSeq([n \in DOMAIN stripped |-> WithAndWithout(dir \o stripped[n])])
      InDisOrLib(rest) == WithAndWithout(root \o <<"dis">> \o rest) \o WithAndWithout(root \o <<"dis", "lib">> \o rest)
  IN (IF root # <<>> /\ IsAbsolute(path) THEN WithAndWithout(Under(root, path)) ELSE <<>>)
       \o WithAndWithout(path)
       \o FlattenSeq([n \in DOMAIN probe |-> WithAndWithout(Under(probe[n], path)) \o In(probe[n])])
       \o (IF root # <<>> THEN FlattenSeq([n \in DOMAIN stripped |-> InDisOrLib(stripped[n])]) ELSE <<>>)
       \o <<Under(<<>>, path) \o <<".dis">>>> \o In(<<>>)

-----------------------------------------------------------------------------
(* load.  A reference is [kind, of, map]: the kind of module, the module or the *)
(* functions it is to, and for each imported function its place there, or 0.    *)

\* By the first signature; but the name decides, for functions of one type have one signature.
BoundBySignature(wanted, given) == [n \in DOMAIN wanted |-> SelectInSeq(given, LAMBDA f: f.sig = wanted[n].sig)]
Bound(wanted, given) ==
  [n \in DOMAIN wanted |->
     LET named == SelectInSeq(given, LAMBDA f: f.name = wanted[n].name)
     IN IF named > 0 THEN named ELSE SelectInSeq(given, LAMBDA f: f.sig = wanted[n].sig)]
Reference(kind, of, map) == [kind |-> kind, of |-> of, map |-> map]
Nowhere == Reference("nil", <<>>, <<>>)

\* A file that cannot be read or is no module is passed over.
CanLoad(files, path) == path \in DOMAIN files /\ Load(files[path]).ok
Loaded(wanted, module) == Reference("loaded", module, Bound(wanted, module.exports))
FirstOf(found, wanted, files, candidates) ==
  IF found = {} THEN Nowhere ELSE Loaded(wanted, Load(files[candidates[Min(found)]]).val)
FromFiles(wanted, files, candidates) ==
  FirstOf({n \in DOMAIN candidates : CanLoad(files, candidates[n])}, wanted, files, candidates)
LoadModule(importer, import, path, root, probe, files) ==
  LET wanted == IF import + 1 \in DOMAIN importer.imports THEN importer.imports[import + 1] ELSE <<>>
      builtin == FindBuiltin(path)
  IN CASE path = <<"$self">> -> Reference("main", importer, BoundBySignature(wanted, importer.exports))
       [] path # <<"$self">> /\ builtin > 0 -> Reference("builtin", Builtins[builtin].funcs, Bound(wanted, Builtins[builtin].funcs))
       [] OTHER -> FromFiles(wanted, files, Candidates(path, root, probe))
\* A loaded module gets data of its own.
DataOf(ref) == IF ref.kind = "loaded" THEN InitMp(ref.of) ELSE <<>>

-----------------------------------------------------------------------------
(* mframe and mcall, of the n-th function that is imported.                     *)

\* What is bound to nothing is taken by its place.
Place(ref, n) == IF n \in DOMAIN ref.map /\ ref.map[n] > 0 THEN ref.map[n] ELSE n
NoType == -1
NoFrame == [size |-> 0, type |-> NoType]   \* a fault
AnyFrame == [size |-> 64, type |-> NoType]
FrameOf(module, type) == IF type + 1 \in DOMAIN module.types THEN [size |-> module.types[type + 1].size, type |-> type] ELSE AnyFrame
Mframe(ref, n) ==
  LET place == Place(ref, n)
  IN CASE ref.kind = "nil" -> NoFrame
       [] ref.kind = "builtin" -> IF place \in DOMAIN ref.of THEN [size |-> ref.of[place].size, type |-> NoType] ELSE NoFrame
       [] OTHER -> IF place \in DOMAIN ref.of.exports THEN FrameOf(ref.of, ref.of.exports[place].frame) ELSE AnyFrame
\* Where the call goes: to a pc, or to a function that is built in.
Fault == <<"fault", 0>>
At(pc) == <<"pc", pc>>
Mcall(ref, n) ==
  LET place == Place(ref, n)
  IN CASE ref.kind = "nil" -> Fault
       [] ref.kind = "builtin" -> IF place \in DOMAIN ref.of THEN <<"builtin", ref.of[place].name>> ELSE Fault
       [] OTHER -> IF place \in DOMAIN ref.of.exports THEN At(ref.of.exports[place].pc) ELSE Fault
=============================================================================
