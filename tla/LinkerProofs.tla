----------------------------- MODULE LinkerProofs -----------------------------
(***************************************************************************)
(* Theorems about the package linker, whatever packages there are and      *)
(* however many commands are entered and killed: what was unlinked is as   *)
(* it was, what is linked resolves, and what an install leaves is what is  *)
(* linked.  The writes of a command are looked at together: the invariants *)
(* speak of the files there are and of the files there will be.            *)
(***************************************************************************)
EXTENDS PackageLinker, FiniteSetTheorems, SequenceTheorems, TLAPS

-----------------------------------------------------------------------------
(* The linker's files.  A write replaces a file, the files of a command's    *)
(* writes are distinct, and the one that remembers the originals is written  *)
(* last.                                                                     *)
PackageFile ==
  [dependencies : [NpmPackages -> Ranges],
   overrides : [SharedNpm -> {Absent, Original}]]
ComposerFile ==
  [require : [ComposerPackages -> {Absent, Original, Version}],
   repositories : [ComposerPackages -> {Absent, Original, Local}]]
WorkspaceFile ==
  [packages : SUBSET NpmPackages,
   overrides : [SharedNpm -> {Absent, Original, Local}],
   hoist : BOOLEAN]
LinkEntries ==
  [npm : {Absent, Original, Version}, override : {Absent, Original, Local},
   composer : {Absent, Original, Version},
   repository : {Absent, Original, Local}]
LinksFile == [Packages -> LinkEntries]

LinkerWrites ==
  [file : {"npmrc"}, content : BOOLEAN] \cup [file : {"package"}, content : PackageFile]
  \cup [file : {"composer"}, content : ComposerFile] \cup [file : {"workspace"}, content : WorkspaceFile]
  \cup [file : {"links"}, content : LinksFile]

LinkerFiles ==
  [npmrc : BOOLEAN, package : PackageFile, composer : ComposerFile, workspace : WorkspaceFile, links : LinksFile]

(* A command's parts name the packages they are for.                         *)
LinkerParts ==
  [op : {"enable"}, package : Modules, shared : SUBSET SharedNpm]
  \cup [op : {"enable-shared"}, package : SharedNpm \cup SharedComposer, shared : {{}}]
  \cup [op : {"disable", "disable-shared"}, package : Packages, shared : {{}}]

LinkerTyped ==
  /\ files \in LinkerFiles /\ original \in LinkerFiles
  /\ \A p \in NpmPackages : original.package.dependencies[p] \in {Absent, Original}
  /\ \A p \in ComposerPackages : original.composer.require[p] \in {Absent, Original}
  /\ \A p \in SharedNpm : original.workspace.overrides[p] # Local
  /\ todo \in Seq(LinkerWrites) /\ script \in Seq(LinkerParts)

InOrder(writes) ==
  /\ writes # <<>> => writes[Len(writes)].file = "links"
  /\ \A i, j \in DOMAIN writes : writes[i].file = writes[j].file => i = j

(* The files when all the writes are made.                                   *)
FinalFile(writes, name) ==
  IF \E i \in DOMAIN writes : writes[i].file = name
  THEN writes[CHOOSE i \in DOMAIN writes : writes[i].file = name].content
  ELSE files[name]

Final(writes) == [name \in FileNames |-> FinalFile(writes, name)]

(* A package's originals are in the files, or the link remembers them, and   *)
(* nothing that unlinking looks at is taken away.                            *)
RestoredIn(f, p) ==
  /\ p \in NpmPackages => Reversed(f.package.dependencies[p], original.package.dependencies[p])
  /\ p \in SharedNpm => Pin(f, p) = Pin(original, p)
  /\ p \in ComposerPackages => Reversed(f.composer.require[p], original.composer.require[p])
  /\ p \in SharedComposer => f.composer.repositories[p] = original.composer.repositories[p]

Remembers(e, p) ==
  /\ p \in NpmPackages =>
       e.npm # Absent /\ Reversed(e.npm, original.package.dependencies[p])
  /\ p \in SharedNpm => e.override = Pin(original, p)
  /\ p \in ComposerPackages =>
       e.composer # Absent /\ Reversed(e.composer, original.composer.require[p])
  /\ p \in SharedComposer => e.repository = original.composer.repositories[p]

PackageKept(content, p) ==
  /\ p \in NpmPackages /\ content.dependencies[p] = Absent => original.package.dependencies[p] = Absent
  /\ p \in SharedNpm => content.overrides[p] = Absent
ComposerKept(content, p) ==
  /\ p \in ComposerPackages /\ content.require[p] = Absent => original.composer.require[p] = Absent
  /\ p \in SharedComposer /\ content.repositories[p] = Absent =>
       original.composer.repositories[p] = Absent
WorkspaceKept(content, p) ==
  p \in SharedNpm /\ content.overrides[p] = Absent => Pin(original, p) = Absent

KeptIn(f, p) ==
  Remembers(f.links[p], p) /\ PackageKept(f.package, p) /\ ComposerKept(f.composer, p) /\ WorkspaceKept(f.workspace, p)

SettledIn(f, p) == IF f.links[p] = NoEntry THEN RestoredIn(f, p) ELSE KeptIn(f, p)

(* A write leaves alone what a package has that is not linked, and does a    *)
(* linked one no harm.                                                       *)
SameFor(w, p) ==
  /\ w.file = "package" =>
       /\ p \in NpmPackages => w.content.dependencies[p] = files.package.dependencies[p]
       /\ p \in SharedNpm => w.content.overrides[p] = files.package.overrides[p]
  /\ w.file = "composer" /\ p \in ComposerPackages =>
       /\ w.content.require[p] = files.composer.require[p]
       /\ w.content.repositories[p] = files.composer.repositories[p]
  /\ w.file = "workspace" /\ p \in SharedNpm =>
       w.content.overrides[p] = files.workspace.overrides[p]

HarmlessFor(w, p) ==
  /\ w.file = "package" => PackageKept(w.content, p)
  /\ w.file = "composer" => ComposerKept(w.content, p)
  /\ w.file = "workspace" => WorkspaceKept(w.content, p)

Linking(writes, p) == writes # <<>> /\ writes[Len(writes)].content[p] # NoEntry
Sure(p) == p \in Packages /\ p \notin lost \cup stray

LinkerSafe(p) ==
  /\ SettledIn(Final(todo), p)
  /\ Tracked(p) =>
       KeptIn(files, p) /\ \A i \in DOMAIN todo : HarmlessFor(todo[i], p)
  /\ ~Tracked(p) /\ ~Linking(todo, p) =>
       RestoredIn(files, p) /\ \A i \in DOMAIN todo : SameFor(todo[i], p)

LinkerInv == LinkerTyped /\ InOrder(todo) /\ \A p \in Packages : Sure(p) => LinkerSafe(p)


LEMMA FinalAt ==
  ASSUME NEW writes, InOrder(writes), NEW i \in DOMAIN writes
  PROVE  FinalFile(writes, writes[i].file) = writes[i].content
BY DEF InOrder, FinalFile

LEMMA FinalElse ==
  ASSUME NEW writes, NEW name, \A i \in DOMAIN writes : writes[i].file # name
  PROVE  FinalFile(writes, name) = files[name]
BY DEF FinalFile

LEMMA FinalFields ==
  ASSUME NEW writes
  PROVE  /\ Final(writes).npmrc = FinalFile(writes, "npmrc") /\ Final(writes).package = FinalFile(writes, "package")
         /\ Final(writes).composer = FinalFile(writes, "composer")
         /\ Final(writes).workspace = FinalFile(writes, "workspace")
         /\ Final(writes).links = FinalFile(writes, "links")
BY DEF Final, FileNames

LEMMA WriteFields ==
  ASSUME NEW w \in LinkerWrites
  PROVE  /\ w.file \in FileNames
         /\ w.file = "npmrc" => w.content \in BOOLEAN
         /\ w.file = "package" => w.content \in PackageFile
         /\ w.file = "composer" => w.content \in ComposerFile
         /\ w.file = "workspace" => w.content \in WorkspaceFile
         /\ w.file = "links" => w.content \in LinksFile
BY DEF LinkerWrites, FileNames

LEMMA TypedWrite ==
  ASSUME NEW f \in LinkerFiles, NEW name \in FileNames
  PROVE  [file |-> name, content |-> f[name]] \in LinkerWrites
<1>1. f.npmrc \in BOOLEAN /\ f.package \in PackageFile /\ f.composer \in ComposerFile /\ f.workspace \in WorkspaceFile
      /\ f.links \in LinksFile
  BY DEF LinkerFiles
<1> QED BY <1>1 DEF LinkerWrites, FileNames

(* The writes of the files named, which give them what they hold in f.       *)
Writing(s, names, f) ==
  /\ s \in Seq(LinkerWrites)
  /\ \A i \in DOMAIN s : s[i].file \in names /\ s[i].content = f[s[i].file]
  /\ \A i, j \in DOMAIN s : s[i].file = s[j].file => i = j
  /\ \A name \in names : \E i \in DOMAIN s : s[i].file = name

EndsWith(s, name) == s # <<>> /\ s[Len(s)].file = name

LEMMA WriteOne ==
  ASSUME NEW f \in LinkerFiles, NEW name \in FileNames, NEW content, content = f[name]
  PROVE  Writing(Write(name, content), {name}, f)
<1> DEFINE w == [file |-> name, content |-> content]
<1>1. w \in LinkerWrites /\ w.file = name /\ w.content = f[name]
  BY TypedWrite
<1>2. Write(name, content) = <<w>>
  BY DEF Write
<1> HIDE DEF w
<1> QED BY <1>1, <1>2 DEF Writing

LEMMA WriteMore ==
  ASSUME NEW f \in LinkerFiles, NEW s, NEW names, Writing(s, names, f),
         NEW name \in FileNames, name \notin names, NEW content, content = f[name]
  PROVE  Writing(s \o Write(name, content), names \cup {name}, f) /\ EndsWith(s \o Write(name, content), name)
<1> DEFINE w == [file |-> name, content |-> content]
           t == <<w>>
           both == s \o t
<1>1. w \in LinkerWrites /\ w.file = name /\ w.content = f[name]
  BY TypedWrite
<1>2. Write(name, content) = t
  BY DEF Write
<1> HIDE DEF w
<1>3. t \in Seq(LinkerWrites) /\ Len(t) = 1 /\ t[1] = w /\ s \in Seq(LinkerWrites)
  BY <1>1 DEF Writing
<1> HIDE DEF t
<1>4. /\ both \in Seq(LinkerWrites) /\ Len(both) = Len(s) + 1 /\ Len(s) \in Nat
      /\ \A i \in 1 .. Len(s) + 1 : both[i] = IF i <= Len(s) THEN s[i] ELSE w
  BY <1>3, ConcatProperties, LenProperties
<1>5. DOMAIN s = 1 .. Len(s) /\ DOMAIN both = 1 .. Len(s) + 1
  BY <1>3, <1>4, LenProperties
<1> HIDE DEF both
<1>6. \A i \in DOMAIN s : i \in DOMAIN both /\ both[i] = s[i]
  BY <1>4, <1>5
<1>7. Len(s) + 1 \in DOMAIN both /\ both[Len(s) + 1] = w
  BY <1>4, <1>5
<1>8. \A i \in DOMAIN both : i \in DOMAIN s \/ i = Len(s) + 1
  BY <1>4, <1>5
<1>9. Writing(both, names \cup {name}, f)
  BY <1>1, <1>4, <1>6, <1>7, <1>8 DEF Writing
<1>10. both # <<>> /\ both[Len(both)].file = name
  BY <1>1, <1>4, <1>7
<1> QED BY <1>2, <1>9, <1>10 DEF both, EndsWith

LEMMA WriteIfMore ==
  ASSUME NEW f \in LinkerFiles, NEW s, NEW names, Writing(s, names, f), NEW condition \in BOOLEAN,
         NEW name \in FileNames, name \notin names, NEW content, condition => content = f[name]
  PROVE  Writing(s \o WriteIf(condition, name, content), IF condition THEN names \cup {name} ELSE names, f)
<1>1. CASE condition
  BY <1>1, WriteMore DEF WriteIf
<1>2. CASE ~condition
  <2>1. s \o WriteIf(condition, name, content) = s
    BY <1>2, ConcatEmptySeq DEF WriteIf, Writing
  <2> QED BY <1>2, <2>1
<1> QED BY <1>1, <1>2

LEMMA WriteIfOne ==
  ASSUME NEW f \in LinkerFiles, NEW condition \in BOOLEAN,
         NEW name \in FileNames, NEW content, condition => content = f[name]
  PROVE  Writing(WriteIf(condition, name, content), IF condition THEN {name} ELSE {}, f)
<1>1. CASE condition
  BY <1>1, WriteOne DEF WriteIf
<1>2. CASE ~condition
  BY <1>2 DEF WriteIf, Writing
<1> QED BY <1>1, <1>2

-----------------------------------------------------------------------------
(* A write.                                                                  *)
LEMMA TodoFacts ==
  ASSUME LinkerTyped, InOrder(todo), todo # <<>>
  PROVE  /\ Len(todo) \in Nat \ {0} /\ DOMAIN todo = 1 .. Len(todo) /\ Head(todo) = todo[1]
         /\ \A i \in DOMAIN todo : todo[i] \in LinkerWrites
         /\ Tail(todo) \in Seq(LinkerWrites) /\ DOMAIN Tail(todo) = 1 .. Len(todo) - 1
         /\ Len(Tail(todo)) = Len(todo) - 1
         /\ \A i \in 1 .. Len(todo) - 1 : Tail(todo)[i] = todo[i + 1]
         /\ Tail(todo) # <<>> <=> Len(todo) > 1
         /\ todo[1].file = "links" <=> Len(todo) = 1
<1>1. todo \in Seq(LinkerWrites)
  BY DEF LinkerTyped
<1>2. Len(todo) \in Nat \ {0} /\ DOMAIN todo = 1 .. Len(todo) /\ \A i \in 1 .. Len(todo) : todo[i] \in LinkerWrites
  BY <1>1, EmptySeq, LenProperties
<1>3. /\ Tail(todo) \in Seq(LinkerWrites) /\ Len(Tail(todo)) = Len(todo) - 1
      /\ \A i \in 1 .. Len(todo) - 1 : Tail(todo)[i] = todo[i + 1]
  BY <1>1, HeadTailProperties
<1>4. DOMAIN Tail(todo) = 1 .. Len(todo) - 1
  BY <1>3, LenProperties
<1>5. Tail(todo) # <<>> <=> Len(todo) > 1
  <2> DEFINE rest == Tail(todo)
  <2>1. rest \in Seq(LinkerWrites) /\ Len(rest) = Len(todo) - 1 /\ Len(todo) \in Nat
    BY <1>2, <1>3
  <2> HIDE DEF rest
  <2>2. rest = <<>> => Len(rest) = 0
    BY EmptySeq
  <2>3. rest # <<>> => Len(rest) \in Nat \ {0}
    BY <2>1, EmptySeq
  <2>4. rest # <<>> <=> Len(todo) > 1
    BY <2>1, <2>2, <2>3
  <2> QED BY <2>4 DEF rest
<1>6. todo[1].file = "links" <=> Len(todo) = 1
  BY <1>2 DEF InOrder
<1> QED BY <1>2, <1>3, <1>4, <1>5, <1>6

LEMMA Rewritten ==
  ASSUME LinkerTyped, InOrder(todo), WriteFile
  PROVE  /\ todo # <<>> /\ todo' = Tail(todo) /\ files' \in LinkerFiles
         /\ \A name \in FileNames :
              files'[name] = IF name = todo[1].file THEN todo[1].content ELSE files[name]
         /\ UNCHANGED <<script, original, lost, stray>>
<1>1. /\ todo # <<>> /\ todo' = Tail(todo) /\ files' = [files EXCEPT ![Head(todo).file] = Head(todo).content]
      /\ UNCHANGED <<script, original, lost, stray>>
  BY DEF WriteFile
<1>2. todo[1] \in LinkerWrites /\ Head(todo) = todo[1]
  BY <1>1, TodoFacts
<1>3. files \in LinkerFiles /\ DOMAIN files = FileNames
  BY DEF LinkerTyped, LinkerFiles, FileNames
<1>4. \A name \in FileNames :
        files'[name] = IF name = todo[1].file THEN todo[1].content ELSE files[name]
  BY <1>1, <1>2, <1>3
<1>5. /\ todo[1].file \in FileNames
      /\ todo[1].file = "npmrc" => todo[1].content \in BOOLEAN
      /\ todo[1].file = "package" => todo[1].content \in PackageFile
      /\ todo[1].file = "composer" => todo[1].content \in ComposerFile
      /\ todo[1].file = "workspace" => todo[1].content \in WorkspaceFile
      /\ todo[1].file = "links" => todo[1].content \in LinksFile
  BY <1>2, WriteFields
<1>6. files' \in LinkerFiles
  BY <1>1, <1>2, <1>3, <1>5 DEF LinkerFiles, FileNames
<1> QED BY <1>1, <1>4, <1>6

LEMMA FinalStays ==
  ASSUME LinkerTyped, InOrder(todo), WriteFile
  PROVE  InOrder(todo') /\ Final(todo)' = Final(todo)
<1>1. /\ todo # <<>> /\ todo' = Tail(todo)
      /\ \A name \in FileNames :
           files'[name] = IF name = todo[1].file THEN todo[1].content ELSE files[name]
  BY Rewritten
<1>2. /\ Len(todo) \in Nat \ {0} /\ DOMAIN todo = 1 .. Len(todo)
      /\ DOMAIN todo' = 1 .. Len(todo) - 1 /\ Len(todo') = Len(todo) - 1
      /\ \A i \in 1 .. Len(todo) - 1 : todo'[i] = todo[i + 1]
      /\ todo' # <<>> <=> Len(todo) > 1
  BY <1>1, TodoFacts
<1>3. InOrder(todo')
  <2>1. todo' # <<>> => todo'[Len(todo')].file = "links"
    BY <1>1, <1>2 DEF InOrder
  <2>2. ASSUME NEW i \in DOMAIN todo', NEW j \in DOMAIN todo', todo'[i].file = todo'[j].file PROVE i = j
    <3>1. i + 1 \in DOMAIN todo /\ j + 1 \in DOMAIN todo /\ todo[i + 1].file = todo[j + 1].file
      BY <1>2, <2>2
    <3>2. i + 1 = j + 1
      BY <3>1 DEF InOrder
    <3> QED BY <1>2, <3>2
  <2> QED BY <2>1, <2>2 DEF InOrder
<1>4. ASSUME NEW name \in FileNames PROVE FinalFile(todo, name)' = FinalFile(todo, name)
  <2>1. CASE name = todo[1].file
    <3>1. FinalFile(todo, name) = todo[1].content
      BY <1>2, <2>1, FinalAt
    <3>2. \A i \in DOMAIN todo' : todo'[i].file # name
      BY <1>2, <2>1 DEF InOrder
    <3>3. FinalFile(todo, name)' = files'[name]
      BY <3>2 DEF FinalFile
    <3> QED BY <1>1, <2>1, <3>1, <3>3
  <2>2. CASE name # todo[1].file /\ \E i \in DOMAIN todo' : todo'[i].file = name
    <3>1. PICK i \in DOMAIN todo' : todo'[i].file = name
      BY <2>2
    <3>2. i + 1 \in DOMAIN todo /\ todo[i + 1] = todo'[i]
      BY <1>2
    <3>3. FinalFile(todo, name) = todo[i + 1].content
      BY <3>1, <3>2, FinalAt
    <3>4. FinalFile(todo, name)' = todo'[i].content
      BY <1>3, <3>1 DEF InOrder, FinalFile
    <3> QED BY <3>2, <3>3, <3>4
  <2>3. CASE name # todo[1].file /\ \A i \in DOMAIN todo' : todo'[i].file # name
    <3>1. \A i \in DOMAIN todo : todo[i].file # name
      <4>1. SUFFICES ASSUME NEW i \in DOMAIN todo, i # 1 PROVE todo[i].file # name
        BY <2>3
      <4>2. i - 1 \in DOMAIN todo' /\ todo'[i - 1] = todo[i]
        BY <1>2, <4>1
      <4> QED BY <2>3, <4>2
    <3>2. FinalFile(todo, name) = files[name]
      BY <3>1 DEF FinalFile
    <3>3. FinalFile(todo, name)' = files'[name]
      BY <2>3 DEF FinalFile
    <3> QED BY <1>1, <2>3, <3>2, <3>3
  <2> QED BY <2>1, <2>2, <2>3
<1>5. Final(todo)' = Final(todo)
  BY <1>4 DEF Final, FileNames
<1> QED BY <1>3, <1>5

LEMMA WriteFileKeeps == ASSUME LinkerInv, WriteFile PROVE LinkerInv'
<1>0. LinkerTyped /\ InOrder(todo)
  BY DEF LinkerInv
<1>1. /\ todo # <<>> /\ todo' = Tail(todo) /\ files' \in LinkerFiles
      /\ \A name \in FileNames :
           files'[name] = IF name = todo[1].file THEN todo[1].content ELSE files[name]
      /\ UNCHANGED <<script, original, lost, stray>>
  BY <1>0, Rewritten
<1>2. /\ Len(todo) \in Nat \ {0} /\ DOMAIN todo = 1 .. Len(todo)
      /\ \A i \in DOMAIN todo : todo[i] \in LinkerWrites
      /\ todo' \in Seq(LinkerWrites)
      /\ DOMAIN todo' = 1 .. Len(todo) - 1 /\ Len(todo') = Len(todo) - 1
      /\ \A i \in 1 .. Len(todo) - 1 : todo'[i] = todo[i + 1]
      /\ todo' # <<>> <=> Len(todo) > 1
      /\ todo[1].file = "links" <=> Len(todo) = 1
  BY <1>0, <1>1, TodoFacts
<1>3. InOrder(todo') /\ Final(todo)' = Final(todo)
  BY <1>0, FinalStays
<1>4. LinkerTyped'
  BY <1>0, <1>1, <1>2 DEF LinkerTyped
<1>5. /\ files'.package = IF "package" = todo[1].file THEN todo[1].content ELSE files.package
      /\ files'.composer = IF "composer" = todo[1].file THEN todo[1].content ELSE files.composer
      /\ files'.workspace = IF "workspace" = todo[1].file THEN todo[1].content ELSE files.workspace
      /\ files'.links = IF "links" = todo[1].file THEN todo[1].content ELSE files.links
  BY <1>1 DEF FileNames
<1>6. ASSUME NEW p \in Packages, Sure(p)' PROVE LinkerSafe(p)'
  <2>0. LinkerSafe(p)
    BY <1>1, <1>6 DEF LinkerInv, Sure
  <2>1. SettledIn(Final(todo), p)'
    BY <1>1, <1>3, <2>0 DEF LinkerSafe, SettledIn, RestoredIn, KeptIn, Remembers, PackageKept, ComposerKept,
      WorkspaceKept, Pin
  <2>2. CASE Len(todo) = 1
    <3>1. DOMAIN todo' = {} /\ todo' = <<>>
      BY <1>2, <2>2
    <3>2. \A name : FinalFile(todo, name)' = files'[name]
      BY <3>1 DEF FinalFile
    <3>3. /\ Final(todo)'.package = files'.package /\ Final(todo)'.composer = files'.composer
          /\ Final(todo)'.workspace = files'.workspace /\ Final(todo)'.links = files'.links
      BY <3>2 DEF Final, FileNames
    <3>4. SettledIn(files, p)'
      BY <2>1, <3>3 DEF SettledIn, RestoredIn, KeptIn, Pin
    <3> QED BY <2>1, <3>1, <3>4 DEF LinkerSafe, SettledIn, Tracked
  <2>3. CASE Len(todo) > 1
    <3>1. files'.links = files.links
      BY <1>2, <1>5, <2>3
    <3>2. Linking(todo, p)' <=> Linking(todo, p)
      BY <1>1, <1>2, <2>3 DEF Linking
    <3>3. ASSUME Tracked(p) PROVE KeptIn(files, p)' /\ (\A i \in DOMAIN todo : HarmlessFor(todo[i], p))'
      <4>1. KeptIn(files, p) /\ \A i \in DOMAIN todo : HarmlessFor(todo[i], p)
        BY <2>0, <3>3 DEF LinkerSafe
      <4>2. HarmlessFor(todo[1], p)
        BY <1>2, <4>1
      <4>3. KeptIn(files, p)'
        BY <1>1, <1>5, <3>1, <4>1, <4>2 DEF KeptIn, HarmlessFor, Remembers, PackageKept, ComposerKept, WorkspaceKept,
          Pin
      <4>4. ASSUME NEW i \in DOMAIN todo' PROVE HarmlessFor(todo[i], p)'
        <5>1. i + 1 \in DOMAIN todo /\ todo'[i] = todo[i + 1]
          BY <1>2
        <5>2. HarmlessFor(todo[i + 1], p)
          BY <4>1, <5>1
        <5> QED BY <1>1, <5>1, <5>2 DEF HarmlessFor, PackageKept, ComposerKept, WorkspaceKept, Pin
      <4> QED BY <4>3, <4>4
    <3>4. ASSUME ~Tracked(p), ~Linking(todo, p)
          PROVE  RestoredIn(files, p)' /\ (\A i \in DOMAIN todo : SameFor(todo[i], p))'
      <4>1. RestoredIn(files, p) /\ \A i \in DOMAIN todo : SameFor(todo[i], p)
        BY <2>0, <3>4 DEF LinkerSafe
      <4>2. SameFor(todo[1], p)
        BY <1>2, <4>1
      <4>3. /\ p \in NpmPackages => files'.package.dependencies[p] = files.package.dependencies[p]
            /\ p \in SharedNpm => /\ files'.package.overrides[p] = files.package.overrides[p]
                                         /\ files'.workspace.overrides[p] = files.workspace.overrides[p]
            /\ p \in ComposerPackages => /\ files'.composer.require[p] = files.composer.require[p]
                                         /\ files'.composer.repositories[p] = files.composer.repositories[p]
        BY <1>5, <4>2 DEF SameFor
      <4>4. RestoredIn(files, p)'
        <5>1. p \in SharedComposer => p \in ComposerPackages
          BY DEF SharedComposer
        <5> QED BY <1>1, <4>1, <4>3, <5>1 DEF RestoredIn, Pin, Reversed
      <4>5. ASSUME NEW i \in DOMAIN todo' PROVE SameFor(todo[i], p)'
        <5>1. i + 1 \in DOMAIN todo /\ todo'[i] = todo[i + 1]
          BY <1>2
        <5>2. SameFor(todo[i + 1], p)
          BY <4>1, <5>1
        <5> QED BY <4>3, <5>1, <5>2 DEF SameFor
      <4> QED BY <4>4, <4>5
    <3>5. Tracked(p)' <=> Tracked(p)
      BY <3>1 DEF Tracked
    <3> QED BY <2>1, <3>2, <3>3, <3>4, <3>5 DEF LinkerSafe
  <2> QED BY <1>2, <2>2, <2>3
<1> QED BY <1>3, <1>4, <1>6 DEF LinkerInv

-----------------------------------------------------------------------------
(* A part of a command begins.                                               *)
SameAs(f, p) ==
  /\ p \in NpmPackages => f.package.dependencies[p] = files.package.dependencies[p]
  /\ p \in SharedNpm => /\ f.package.overrides[p] = files.package.overrides[p]
                               /\ f.workspace.overrides[p] = files.workspace.overrides[p]
  /\ p \in ComposerPackages => /\ f.composer.require[p] = files.composer.require[p]
                               /\ f.composer.repositories[p] = files.composer.repositories[p]

PartGood(f, p) ==
  /\ SettledIn(f, p)
  /\ Tracked(p) => PackageKept(f.package, p) /\ ComposerKept(f.composer, p) /\ WorkspaceKept(f.workspace, p)
  /\ ~Tracked(p) /\ f.links[p] = NoEntry => SameAs(f, p)

LEMMA AtRest ==
  ASSUME LinkerInv, todo = <<>>, NEW p \in Packages, Sure(p)
  PROVE  /\ Tracked(p) => KeptIn(files, p)
         /\ ~Tracked(p) => RestoredIn(files, p)
BY DEF LinkerInv, LinkerSafe, Linking

LEMMA PlanHolds ==
  ASSUME LinkerInv, todo = <<>>, NEW f \in LinkerFiles, NEW names, NEW writes, Writing(writes, names, f),
         todo' = writes, EndsWith(writes, "links"),
         \A name \in FileNames : name \notin names => f[name] = files[name],
         files' = files, original' = original, lost' = lost, stray \subseteq stray', script' \in Seq(LinkerParts),
         \A p \in Packages : Sure(p)' => PartGood(f, p)
  PROVE  LinkerInv'
<1>1. InOrder(todo)' /\ writes \in Seq(LinkerWrites)
  BY DEF InOrder, Writing, EndsWith
<1>2. LinkerTyped'
  BY <1>1 DEF LinkerInv, LinkerTyped
<1>3. ASSUME NEW name \in FileNames PROVE FinalFile(todo, name)' = f[name]
  <2>1. CASE name \in names
    <3>1. PICK i \in DOMAIN writes : writes[i].file = name
      BY <2>1 DEF Writing
    <3>2. FinalFile(todo, name)' = writes[i].content
      BY <1>1, <3>1 DEF FinalFile, InOrder
    <3> QED BY <3>1, <3>2 DEF Writing
  <2>2. CASE name \notin names
    <3>1. \A i \in DOMAIN writes : writes[i].file # name
      BY <2>2 DEF Writing
    <3> QED BY <2>2, <3>1 DEF FinalFile
  <2> QED BY <2>1, <2>2
<1>4. /\ Final(todo)'.package = f.package /\ Final(todo)'.composer = f.composer
      /\ Final(todo)'.workspace = f.workspace /\ Final(todo)'.links = f.links
  BY <1>3 DEF Final, FileNames
<1>5. Len(writes) \in DOMAIN writes /\ writes[Len(writes)].content = f.links
  <2>1. Len(writes) \in Nat \ {0} /\ DOMAIN writes = 1 .. Len(writes)
    BY <1>1, EmptySeq, LenProperties DEF EndsWith
  <2> QED BY <2>1 DEF Writing, EndsWith
<1>6. ASSUME NEW p \in Packages, Sure(p)' PROVE LinkerSafe(p)'
  <2>1. PartGood(f, p) /\ Sure(p)
    BY <1>6 DEF Sure
  <2>2. SettledIn(Final(todo), p)'
    BY <1>4, <2>1 DEF PartGood, SettledIn, RestoredIn, KeptIn, Remembers, PackageKept, ComposerKept,
      WorkspaceKept, Pin
  <2>3. (Tracked(p)' <=> Tracked(p)) /\ (Linking(todo, p)' <=> f.links[p] # NoEntry)
    BY <1>5 DEF Tracked, Linking
  <2>4. ASSUME Tracked(p) PROVE KeptIn(files, p)' /\ (\A i \in DOMAIN todo : HarmlessFor(todo[i], p))'
    <3>1. KeptIn(files, p)'
      <4>1. KeptIn(files, p)
        BY <2>1, <2>4, AtRest
      <4> QED BY <4>1 DEF KeptIn, Remembers, PackageKept, ComposerKept, WorkspaceKept, Pin
    <3>2. ASSUME NEW i \in DOMAIN todo' PROVE HarmlessFor(todo[i], p)'
      <4>1. writes[i].content = f[writes[i].file]
        BY DEF Writing
      <4> QED BY <2>1, <2>4, <4>1 DEF PartGood, HarmlessFor, PackageKept, ComposerKept, WorkspaceKept, Pin
    <3> QED BY <3>1, <3>2
  <2>5. ASSUME ~Tracked(p), f.links[p] = NoEntry
        PROVE  RestoredIn(files, p)' /\ (\A i \in DOMAIN todo : SameFor(todo[i], p))'
    <3>1. RestoredIn(files, p)'
      <4>1. RestoredIn(files, p)
        BY <2>1, <2>5, AtRest
      <4> QED BY <4>1 DEF RestoredIn, Pin
    <3>2. ASSUME NEW i \in DOMAIN todo' PROVE SameFor(todo[i], p)'
      <4>1. writes[i].content = f[writes[i].file]
        BY DEF Writing
      <4> QED BY <2>1, <2>5, <4>1 DEF PartGood, SameAs, SameFor
    <3> QED BY <3>1, <3>2
  <2> QED BY <2>2, <2>3, <2>4, <2>5 DEF LinkerSafe
<1> QED BY <1>1, <1>2, <1>6 DEF LinkerInv

(* Linking some packages, in all the files.                                  *)
LinkedTo(f, S) ==
  /\ \A p \in NpmPackages :
       f.package.dependencies[p] = IF p \in S THEN Local ELSE files.package.dependencies[p]
  /\ \A p \in SharedNpm :
       /\ f.package.overrides[p] = IF p \in S THEN Absent ELSE files.package.overrides[p]
       /\ f.workspace.overrides[p] = IF p \in S THEN Local ELSE files.workspace.overrides[p]
  /\ \A p \in ComposerPackages :
       /\ f.composer.require[p] = IF p \in S THEN Entry(p).composer ELSE files.composer.require[p]
       /\ f.composer.repositories[p] = IF p \in S THEN Local ELSE files.composer.repositories[p]
  /\ \A p \in Packages : f.links[p] = IF p \in S THEN Entry(p) ELSE files.links[p]
  /\ f.workspace.packages = files.workspace.packages \cup (S \cap NpmPackages)

LEMMA Ranges4 ==
  /\ Absent = "absent" /\ Original = "original" /\ Version = "version" /\ Local = "local"
  /\ SharedNpm \subseteq NpmPackages /\ SharedComposer \subseteq ComposerPackages
  /\ NpmPackages \subseteq Packages /\ ComposerPackages \subseteq Packages
  /\ NoEntry.npm = "absent" /\ NoEntry.override = "absent"
  /\ NoEntry.composer = "absent" /\ NoEntry.repository = "absent"
BY DEF Absent, Original, Version, Local, SharedNpm, SharedComposer,
  Packages, NoEntry

(* What is remembered of a package that has its originals is its originals.  *)
LEMMA FoundRemembers ==
  ASSUME LinkerTyped, NEW p \in Packages, RestoredIn(files, p)
  PROVE  Remembers(Found(p), p) /\ Found(p) # NoEntry
<1> DEFINE e == Found(p)
<1>1. /\ e.npm = IF p \in NpmPackages THEN NpmRange(p) ELSE Absent
      /\ e.override = IF p \in SharedNpm THEN Pin(files, p) ELSE Absent
      /\ e.composer = IF p \in ComposerPackages THEN ComposerRange(p) ELSE Absent
      /\ e.repository = IF p \in SharedComposer THEN files.composer.repositories[p] ELSE Absent
  BY DEF Found
<1> HIDE DEF e
<1>2. ASSUME p \in NpmPackages
      PROVE  e.npm # Absent /\ Reversed(e.npm, original.package.dependencies[p])
  <2>1. /\ original.package.dependencies[p] \in {Absent, Original}
        /\ Reversed(files.package.dependencies[p], original.package.dependencies[p])
    BY <1>2 DEF LinkerTyped, RestoredIn
  <2> QED BY <1>1, <1>2, <2>1, Ranges4 DEF NpmRange, Reversed
<1>3. ASSUME p \in ComposerPackages
      PROVE  e.composer # Absent /\ Reversed(e.composer, original.composer.require[p])
  <2>1. /\ original.composer.require[p] \in {Absent, Original}
        /\ Reversed(files.composer.require[p], original.composer.require[p])
    BY <1>3 DEF LinkerTyped, RestoredIn
  <2> QED BY <1>1, <1>3, <2>1, Ranges4 DEF ComposerRange, Reversed
<1>4. Remembers(e, p)
  BY <1>1, <1>2, <1>3 DEF Remembers, RestoredIn
<1>5. e # NoEntry
  BY <1>2, <1>3, Ranges4 DEF Packages
<1> QED BY <1>4, <1>5 DEF e

(* What the other packages have stays.                                       *)
LEMMA OthersGood ==
  ASSUME LinkerInv, todo = <<>>, NEW f, NEW p \in Packages, Sure(p),
         SameAs(f, p), f.links[p] = files.links[p]
  PROVE  PartGood(f, p)
<1>1. CASE Tracked(p)
  <2>1. KeptIn(files, p)
    BY <1>1, AtRest
  <2>2. KeptIn(f, p)
    BY <2>1, Ranges4 DEF KeptIn, SameAs, Remembers, PackageKept, ComposerKept, WorkspaceKept
  <2> QED BY <1>1, <2>2 DEF PartGood, SettledIn, KeptIn, Tracked
<1>2. CASE ~Tracked(p)
  <2>1. RestoredIn(files, p)
    BY <1>2, AtRest
  <2>2. RestoredIn(f, p)
    BY <2>1, Ranges4 DEF RestoredIn, SameAs, Pin
  <2> QED BY <1>2, <2>2 DEF PartGood, SettledIn, Tracked
<1> QED BY <1>1, <1>2

LEMMA LinkGood ==
  ASSUME LinkerInv, todo = <<>>, NEW f, NEW S, LinkedTo(f, S), NEW p \in Packages, Sure(p)
  PROVE  PartGood(f, p)
<1>1. CASE p \in S
  <2>1. /\ p \in NpmPackages => f.package.dependencies[p] = Local
        /\ p \in SharedNpm => /\ f.package.overrides[p] = Absent
                                     /\ f.workspace.overrides[p] = Local
        /\ p \in ComposerPackages => /\ f.composer.require[p] = Entry(p).composer
                                     /\ f.composer.repositories[p] = Local
        /\ f.links[p] = Entry(p)
    BY <1>1 DEF LinkedTo
  <2>2. Remembers(Entry(p), p) /\ Entry(p) # NoEntry
    <3>1. CASE Tracked(p)
      BY <3>1, AtRest DEF KeptIn, Entry, Tracked
    <3>2. CASE ~Tracked(p)
      BY <3>2, AtRest, FoundRemembers DEF Entry, LinkerInv
    <3> QED BY <3>1, <3>2
  <2>3. PackageKept(f.package, p) /\ ComposerKept(f.composer, p) /\ WorkspaceKept(f.workspace, p)
    BY <2>1, <2>2, Ranges4 DEF PackageKept, ComposerKept, WorkspaceKept, Remembers
  <2> QED BY <2>1, <2>2, <2>3 DEF PartGood, SettledIn, KeptIn
<1>2. CASE p \notin S
  <2>1. SameAs(f, p) /\ f.links[p] = files.links[p]
    BY <1>2, Ranges4 DEF LinkedTo, SameAs
  <2> QED BY <2>1, OthersGood
<1> QED BY <1>1, <1>2

(* Unlinking a package, in all the files.                                    *)
UnlinkedFrom(f, q) ==
  /\ \A p \in NpmPackages :
       f.package.dependencies[p] =
         IF p = q THEN Back(files.package.dependencies[p], files.links[p].npm)
         ELSE files.package.dependencies[p]
  /\ \A p \in SharedNpm :
       /\ f.package.overrides[p] = files.package.overrides[p]
       /\ f.workspace.overrides[p] =
            IF p = q THEN IF files.workspace.overrides[p] # Absent THEN files.links[p].override ELSE Absent
            ELSE files.workspace.overrides[p]
  /\ \A p \in ComposerPackages :
       /\ f.composer.require[p] =
            IF p = q THEN Back(files.composer.require[p], files.links[p].composer)
            ELSE files.composer.require[p]
       /\ f.composer.repositories[p] =
            IF p = q THEN IF files.composer.repositories[p] = Absent THEN Absent
                          ELSE files.links[p].repository
            ELSE files.composer.repositories[p]
  /\ \A p \in Packages : f.links[p] = IF p = q THEN NoEntry ELSE files.links[p]
  /\ f.workspace.packages = files.workspace.packages \ {q}

LEMMA UnlinkGood ==
  ASSUME LinkerInv, todo = <<>>, NEW f, NEW q \in Packages, UnlinkedFrom(f, q),
         NEW p \in Packages, Sure(p), p = q => Tracked(q)
  PROVE  PartGood(f, p)
<1>1. CASE p = q
  <2>0. Tracked(p) /\ KeptIn(files, p)
    BY <1>1, AtRest
  <2> DEFINE e == files.links[p]
  <2>1. /\ p \in NpmPackages => f.package.dependencies[p] = Back(files.package.dependencies[p], e.npm)
        /\ p \in SharedNpm =>
             /\ f.package.overrides[p] = files.package.overrides[p]
             /\ f.workspace.overrides[p] =
                  IF files.workspace.overrides[p] # Absent THEN e.override ELSE Absent
        /\ p \in ComposerPackages =>
             /\ f.composer.require[p] = Back(files.composer.require[p], e.composer)
             /\ f.composer.repositories[p] =
                  IF files.composer.repositories[p] = Absent THEN Absent ELSE e.repository
        /\ f.links[p] = NoEntry
    BY <1>1 DEF UnlinkedFrom
  <2>2. Remembers(e, p)
    BY <2>0 DEF KeptIn
  <2> HIDE DEF e
  <2>3. PackageKept(files.package, p) /\ ComposerKept(files.composer, p) /\ WorkspaceKept(files.workspace, p)
    BY <2>0 DEF KeptIn
  <2>4. RestoredIn(f, p)
    <3>1. p \in NpmPackages => Reversed(f.package.dependencies[p], original.package.dependencies[p])
      BY <2>1, <2>2, <2>3, Ranges4 DEF Remembers, PackageKept, Back, Reversed
    <3>2. p \in SharedNpm => Pin(f, p) = Pin(original, p)
      <4>1. p \in SharedNpm =>
              /\ f.package.overrides[p] = Absent
              /\ files.workspace.overrides[p] = Absent => Pin(original, p) = Absent
              /\ e.override = Pin(original, p)
        BY <2>1, <2>2, <2>3 DEF Remembers, PackageKept, WorkspaceKept
      <4>2. p \in SharedNpm => f.workspace.overrides[p] = Pin(original, p)
        BY <2>1, <4>1
      <4> QED BY <4>1, <4>2 DEF Pin
    <3>3. p \in ComposerPackages => Reversed(f.composer.require[p], original.composer.require[p])
      BY <2>1, <2>2, <2>3, Ranges4 DEF Remembers, ComposerKept, Back, Reversed
    <3>4. p \in SharedComposer => f.composer.repositories[p] = original.composer.repositories[p]
      BY <2>1, <2>2, <2>3, Ranges4 DEF Remembers, ComposerKept
    <3> QED BY <3>1, <3>2, <3>3, <3>4 DEF RestoredIn
  <2>5. PackageKept(f.package, p)
    BY <2>1, <2>2, <2>3, Ranges4 DEF PackageKept, Remembers, Back
  <2>6. ComposerKept(f.composer, p)
    BY <2>1, <2>2, <2>3, Ranges4 DEF ComposerKept, Remembers, Back
  <2>7. WorkspaceKept(f.workspace, p)
    BY <2>1, <2>2, <2>3, Ranges4 DEF WorkspaceKept, Remembers
  <2> QED BY <2>0, <2>1, <2>4, <2>5, <2>6, <2>7 DEF PartGood, SettledIn
<1>2. CASE p # q
  <2>1. SameAs(f, p) /\ f.links[p] = files.links[p]
    BY <1>2, Ranges4 DEF UnlinkedFrom, SameAs
  <2> QED BY <2>1, OthersGood
<1> QED BY <1>1, <1>2
-----------------------------------------------------------------------------
(* What is written has its type.                                             *)
LEMMA FilesTyped ==
  ASSUME LinkerTyped
  PROVE  /\ files.npmrc \in BOOLEAN /\ files.package \in PackageFile /\ files.composer \in ComposerFile
         /\ files.workspace \in WorkspaceFile /\ files.links \in LinksFile
         /\ files.package.dependencies \in [NpmPackages -> Ranges]
         /\ files.package.overrides \in [SharedNpm -> {Absent, Original}]
         /\ files.composer.require \in [ComposerPackages -> {Absent, Original, Version}]
         /\ files.composer.repositories \in [ComposerPackages -> {Absent, Original, Local}]
         /\ files.workspace.packages \in SUBSET NpmPackages /\ files.workspace.hoist \in BOOLEAN
         /\ files.workspace.overrides \in [SharedNpm -> {Absent, Original, Local}]
         /\ \A p \in Packages : files.links[p] \in LinkEntries
<1>1. /\ files.npmrc \in BOOLEAN /\ files.package \in PackageFile /\ files.composer \in ComposerFile
      /\ files.workspace \in WorkspaceFile /\ files.links \in LinksFile
  BY DEF LinkerTyped, LinkerFiles
<1>2. \A p \in Packages : files.links[p] \in LinkEntries
  BY <1>1 DEF LinksFile
<1> QED BY <1>1, <1>2 DEF PackageFile, ComposerFile, WorkspaceFile

LEMMA EntryTyped ==
  ASSUME LinkerTyped, NEW p \in Packages
  PROVE  Entry(p) \in LinkEntries
<1>1. CASE Tracked(p)
  BY <1>1, FilesTyped DEF Entry
<1>2. CASE ~Tracked(p)
  <2> DEFINE npm == IF p \in NpmPackages THEN NpmRange(p) ELSE Absent
             override == IF p \in SharedNpm THEN Pin(files, p) ELSE Absent
             range == IF p \in ComposerPackages THEN ComposerRange(p) ELSE Absent
             repository == IF p \in SharedComposer THEN files.composer.repositories[p] ELSE Absent
  <2>1. npm \in {Absent, Original, Version}
    BY FilesTyped, Ranges4 DEF NpmRange, Ranges
  <2>2. override \in {Absent, Original, Local}
    BY FilesTyped, Ranges4 DEF Pin
  <2>3. range \in {Absent, Original, Version}
    BY FilesTyped, Ranges4 DEF ComposerRange
  <2>4. repository \in {Absent, Original, Local}
    BY FilesTyped, Ranges4
  <2>5. Entry(p) = [npm |-> npm, override |-> override, composer |-> range, repository |-> repository]
    BY <1>2 DEF Entry, Found
  <2> HIDE DEF npm, override, range, repository
  <2> QED BY <2>1, <2>2, <2>3, <2>4, <2>5 DEF LinkEntries
<1> QED BY <1>1, <1>2

LEMMA LinkedTyped ==
  ASSUME LinkerTyped, NEW S \in SUBSET NpmPackages
  PROVE  /\ LinkedPackage(S) \in PackageFile
         /\ \A p \in NpmPackages :
              LinkedPackage(S).dependencies[p] =
                IF p \in S THEN Local ELSE files.package.dependencies[p]
         /\ \A p \in SharedNpm :
              LinkedPackage(S).overrides[p] =
                IF p \in S THEN Absent ELSE files.package.overrides[p]
         /\ LinkedWorkspace(S) \in WorkspaceFile
         /\ \A p \in SharedNpm :
              LinkedWorkspace(S).overrides[p] =
                IF p \in S THEN Local ELSE files.workspace.overrides[p]
         /\ LinkedWorkspace(S).packages = files.workspace.packages \cup S
<1> DEFINE deps == Over(files.package.dependencies, S, Local)
           pins == Over(files.package.overrides, S, Absent)
           news == Over(files.workspace.overrides, S, Local)
<1>1. /\ deps \in [NpmPackages -> Ranges]
      /\ \A p \in NpmPackages : deps[p] = IF p \in S THEN Local ELSE files.package.dependencies[p]
  <2>1. files.package.dependencies \in [NpmPackages -> Ranges] /\ Local \in Ranges
    BY FilesTyped DEF Ranges
  <2> QED BY <2>1 DEF Over
<1>2. /\ pins \in [SharedNpm -> {Absent, Original}]
      /\ \A p \in SharedNpm : pins[p] = IF p \in S THEN Absent ELSE files.package.overrides[p]
  <2>1. files.package.overrides \in [SharedNpm -> {Absent, Original}] /\ Absent \in {Absent, Original}
    BY FilesTyped
  <2> QED BY <2>1 DEF Over
<1>3. /\ news \in [SharedNpm -> {Absent, Original, Local}]
      /\ \A p \in SharedNpm : news[p] = IF p \in S THEN Local ELSE files.workspace.overrides[p]
  <2>1. files.workspace.overrides \in [SharedNpm -> {Absent, Original, Local}] /\ Local \in {Absent, Original, Local}
    BY FilesTyped
  <2> QED BY <2>1 DEF Over
<1>4. LinkedPackage(S) = [dependencies |-> deps, overrides |-> pins]
  BY DEF LinkedPackage
<1>5. LinkedWorkspace(S) = [packages |-> files.workspace.packages \cup S, overrides |-> news,
                                   hoist |-> files.workspace.hoist \/ files.npmrc]
  <2> DEFINE w == files.workspace
             m == [w EXCEPT !.hoist = w.hoist \/ files.npmrc]
  <2>1. w \in WorkspaceFile
    BY FilesTyped
  <2>2. LinkedWorkspace(S) = [m EXCEPT !.packages = m.packages \cup S, !.overrides = Over(m.overrides, S, Local)]
    BY DEF LinkedWorkspace, Migrated
  <2>3. m = [packages |-> w.packages, overrides |-> w.overrides, hoist |-> w.hoist \/ files.npmrc]
    <3> HIDE DEF w
    <3> QED BY <2>1 DEF WorkspaceFile
  <2> HIDE DEF m
  <2> QED BY <2>2, <2>3
<1>6. /\ files.workspace.packages \cup S \in SUBSET NpmPackages
      /\ (files.workspace.hoist \/ files.npmrc) \in BOOLEAN
  BY FilesTyped
<1> HIDE DEF deps, pins, news
<1> QED BY <1>1, <1>2, <1>3, <1>4, <1>5, <1>6 DEF PackageFile, WorkspaceFile

LEMMA LinkedComposerTyped ==
  ASSUME LinkerTyped, NEW q \in ComposerPackages
  PROVE  /\ LinkedComposer(q) \in ComposerFile
         /\ \A p \in ComposerPackages :
              /\ LinkedComposer(q).require[p] =
                   IF p = q THEN Entry(q).composer ELSE files.composer.require[p]
              /\ LinkedComposer(q).repositories[p] =
                   IF p = q THEN Local ELSE files.composer.repositories[p]
<1> DEFINE range == Entry(q).composer
           requires == Over(files.composer.require, {q}, range)
           repositories == Over(files.composer.repositories, {q}, Local)
<1>1. range \in {Absent, Original, Version}
  BY EntryTyped, Ranges4 DEF LinkEntries
<1>2. LinkedComposer(q) = [require |-> requires, repositories |-> repositories]
  BY DEF LinkedComposer
<1>3. /\ requires \in [ComposerPackages -> {Absent, Original, Version}]
      /\ \A p \in ComposerPackages : requires[p] = IF p \in {q} THEN range ELSE files.composer.require[p]
  <2> HIDE DEF range
  <2>1. files.composer.require \in [ComposerPackages -> {Absent, Original, Version}]
    BY FilesTyped
  <2> QED BY <1>1, <2>1 DEF Over
<1>4. /\ repositories \in [ComposerPackages -> {Absent, Original, Local}]
      /\ \A p \in ComposerPackages :
           repositories[p] = IF p \in {q} THEN Local ELSE files.composer.repositories[p]
  <2>1. /\ files.composer.repositories \in [ComposerPackages -> {Absent, Original, Local}]
        /\ Local \in {Absent, Original, Local}
    BY FilesTyped
  <2> QED BY <2>1 DEF Over
<1>5. range = Entry(q).composer
  OBVIOUS
<1> HIDE DEF range, requires, repositories
<1> QED BY <1>2, <1>3, <1>4, <1>5 DEF ComposerFile

LEMMA RecordedTyped ==
  ASSUME LinkerTyped, NEW S
  PROVE  /\ Recorded(S) \in LinksFile
         /\ \A p \in Packages :
              Recorded(S)[p] = IF p \in S THEN Entry(p) ELSE files.links[p]
BY FilesTyped, EntryTyped DEF Recorded, LinksFile

-----------------------------------------------------------------------------
(* What the writes of each part of a command come to.                        *)
Planned(writes, f) ==
  /\ EndsWith(writes, "links")
  /\ \E names : /\ Writing(writes, names, f)
                /\ \A name \in FileNames : name \notin names => f[name] = files[name]

LinkPlan(writes, S) == \E f \in LinkerFiles : Planned(writes, f) /\ LinkedTo(f, S)
UnlinkPlan(writes, q) ==
  \E f \in LinkerFiles :
    Planned(writes, f) /\ UnlinkedFrom(f, q) /\ (q \in NpmPackages => writes[1].file = "package")

LEMMA EnablePlan ==
  ASSUME LinkerTyped, PackagesAssumption, NEW m \in Modules, NEW shared \in SUBSET SharedNpm
  PROVE  LinkPlan(EnableModule(m, shared), {m} \cup shared)
<1> DEFINE console == ({m} \cap NpmPackages) \cup shared
           package == LinkedPackage(console)
           composer == IF m \in ComposerPackages THEN LinkedComposer(m) ELSE files.composer
           workspace == LinkedWorkspace(console)
           links == Recorded({m} \cup shared)
           f == [npmrc |-> FALSE, package |-> package, composer |-> composer, workspace |-> workspace,
                 links |-> links]
<1>0. console \in SUBSET NpmPackages /\ m \in Packages
  BY DEF SharedNpm, PackagesAssumption
<1>1. /\ package \in PackageFile /\ workspace \in WorkspaceFile
      /\ \A p \in NpmPackages :
           package.dependencies[p] = IF p \in console THEN Local ELSE files.package.dependencies[p]
      /\ \A p \in SharedNpm :
           /\ package.overrides[p] = IF p \in console THEN Absent ELSE files.package.overrides[p]
           /\ workspace.overrides[p] = IF p \in console THEN Local ELSE files.workspace.overrides[p]
      /\ workspace.packages = files.workspace.packages \cup console
  <2> HIDE DEF console
  <2> QED BY <1>0, LinkedTyped
<1>2. /\ composer \in ComposerFile
      /\ \A p \in ComposerPackages :
           /\ composer.require[p] = IF p = m THEN Entry(m).composer ELSE files.composer.require[p]
           /\ composer.repositories[p] = IF p = m THEN Local ELSE files.composer.repositories[p]
      /\ m \in ComposerPackages => composer = LinkedComposer(m)
      /\ m \notin ComposerPackages => composer = files.composer
  <2>1. CASE m \in ComposerPackages
    BY <1>0, <2>1, LinkedComposerTyped
  <2>2. CASE m \notin ComposerPackages
    BY <1>0, <2>2, FilesTyped
  <2> QED BY <2>1, <2>2
<1>3. /\ links \in LinksFile
      /\ \A p \in Packages : links[p] = IF p \in {m} \cup shared THEN Entry(p) ELSE files.links[p]
  BY <1>0, RecordedTyped
<1>4. EnableModule(m, shared) =
        Write("npmrc", FALSE) \o Write("package", package)
        \o WriteIf(m \in ComposerPackages, "composer", LinkedComposer(m))
        \o Write("workspace", workspace) \o Write("links", links)
  BY DEF EnableModule
<1> HIDE DEF package, composer, workspace, links
<1>5. /\ f \in LinkerFiles /\ f.npmrc = FALSE /\ f.package = package /\ f.composer = composer
      /\ f.workspace = workspace /\ f.links = links
  BY <1>1, <1>2, <1>3 DEF LinkerFiles
<1> HIDE DEF f
<1>6. LinkedTo(f, {m} \cup shared)
  <2>1. /\ \A p \in NpmPackages : p \in console <=> p \in {m} \cup shared
        /\ console = ({m} \cup shared) \cap NpmPackages
    BY DEF SharedNpm
  <2>2. \A p \in ComposerPackages : p = m <=> p \in {m} \cup shared
    BY DEF PackagesAssumption, SharedNpm, SharedComposer
  <2> HIDE DEF console
  <2>3. SharedNpm \subseteq NpmPackages
    BY DEF SharedNpm
  <2> QED BY <1>1, <1>2, <1>3, <1>5, <2>1, <2>2, <2>3 DEF LinkedTo
<1>7. FileNames = {"npmrc", "package", "composer", "workspace", "links"}
  BY DEF FileNames
<1> DEFINE s1 == Write("npmrc", FALSE)
           s2 == s1 \o Write("package", package)
           s3 == s2 \o WriteIf(m \in ComposerPackages, "composer", LinkedComposer(m))
           s4 == s3 \o Write("workspace", workspace)
           s5 == s4 \o Write("links", links)
           n3 == IF m \in ComposerPackages THEN {"npmrc", "package"} \cup {"composer"} ELSE {"npmrc", "package"}
           n4 == n3 \cup {"workspace"}
           n5 == n4 \cup {"links"}
<1>8. Writing(s1, {"npmrc"}, f)
  BY <1>5, <1>7, WriteOne
<1> HIDE DEF s1
<1>9. Writing(s2, {"npmrc"} \cup {"package"}, f)
  BY <1>5, <1>7, <1>8, WriteMore
<1>10. Writing(s2, {"npmrc", "package"}, f)
  <2>1. {"npmrc"} \cup {"package"} = {"npmrc", "package"}
    OBVIOUS
  <2> QED BY <1>9, <2>1
<1> HIDE DEF s2
<1>11. Writing(s3, n3, f)
  <2> DEFINE wanted == m \in ComposerPackages
  <2>1. wanted \in BOOLEAN /\ (wanted => LinkedComposer(m) = f["composer"])
    BY <1>2, <1>5
  <2>2. "composer" \in FileNames /\ "composer" \notin {"npmrc", "package"}
    BY <1>7
  <2>3. /\ s3 = s2 \o WriteIf(wanted, "composer", LinkedComposer(m))
        /\ n3 = IF wanted THEN {"npmrc", "package"} \cup {"composer"} ELSE {"npmrc", "package"}
    OBVIOUS
  <2> HIDE DEF wanted, s3, n3
  <2> QED BY <1>5, <1>10, <2>1, <2>2, <2>3, WriteIfMore
<1>12. "workspace" \notin n3 /\ "links" \notin n4
  OBVIOUS
<1> HIDE DEF s3, n3
<1>13. Writing(s4, n4, f)
  BY <1>5, <1>7, <1>11, <1>12, WriteMore
<1> HIDE DEF s4, n4
<1>14. Writing(s5, n5, f) /\ EndsWith(s5, "links")
  <2>1. "links" \in FileNames /\ "links" \notin n4 /\ links = f["links"]
    BY <1>5, <1>7, <1>12
  <2> QED BY <1>5, <1>13, <2>1, WriteMore
<1>15. EnableModule(m, shared) = s5
  BY <1>4 DEF s1, s2, s3, s4
<1>16. ASSUME NEW name \in FileNames, name \notin n5 PROVE f[name] = files[name]
  <2>1. name = "composer" /\ m \notin ComposerPackages
    BY <1>7, <1>16 DEF n3, n4
  <2> QED BY <1>2, <1>5, <2>1
<1> HIDE DEF s5, n5
<1> QED BY <1>5, <1>6, <1>14, <1>15, <1>16 DEF LinkPlan, Planned

LEMMA EnableSharedNpmPlan ==
  ASSUME LinkerTyped, PackagesAssumption, NEW q \in SharedNpm PROVE LinkPlan(EnableShared(q), {q})
<1> DEFINE package == LinkedPackage({q})
           workspace == LinkedWorkspace({q})
           links == Recorded({q})
           f == [npmrc |-> FALSE, package |-> package, composer |-> files.composer, workspace |-> workspace,
                 links |-> links]
<1>0. {q} \in SUBSET NpmPackages /\ q \notin ComposerPackages /\ SharedNpm \subseteq NpmPackages
  BY DEF SharedNpm, SharedComposer, PackagesAssumption
<1>1. /\ package \in PackageFile /\ workspace \in WorkspaceFile
      /\ \A p \in NpmPackages :
           package.dependencies[p] = IF p \in {q} THEN Local ELSE files.package.dependencies[p]
      /\ \A p \in SharedNpm :
           /\ package.overrides[p] = IF p \in {q} THEN Absent ELSE files.package.overrides[p]
           /\ workspace.overrides[p] = IF p \in {q} THEN Local ELSE files.workspace.overrides[p]
      /\ workspace.packages = files.workspace.packages \cup {q}
  BY <1>0, LinkedTyped
<1>2. /\ links \in LinksFile
      /\ \A p \in Packages : links[p] = IF p \in {q} THEN Entry(p) ELSE files.links[p]
  BY <1>0, RecordedTyped
<1>3. EnableShared(q) =
        Write("npmrc", FALSE) \o Write("package", package) \o Write("workspace", workspace) \o Write("links", links)
  BY DEF EnableShared
<1> HIDE DEF package, workspace, links
<1>4. files.composer \in ComposerFile
  BY <1>0, FilesTyped
<1>5. /\ f \in LinkerFiles /\ f.npmrc = FALSE /\ f.package = package /\ f.composer = files.composer
      /\ f.workspace = workspace /\ f.links = links
  BY <1>1, <1>2, <1>4 DEF LinkerFiles
<1> HIDE DEF f
<1>6. LinkedTo(f, {q})
  BY <1>0, <1>1, <1>2, <1>5 DEF LinkedTo
<1>7. FileNames = {"npmrc", "package", "composer", "workspace", "links"}
  BY DEF FileNames
<1> DEFINE s1 == Write("npmrc", FALSE)
           s2 == s1 \o Write("package", package)
           s3 == s2 \o Write("workspace", workspace)
           s4 == s3 \o Write("links", links)
           n2 == {"npmrc"} \cup {"package"}
           n3 == n2 \cup {"workspace"}
           n4 == n3 \cup {"links"}
<1>8. Writing(s1, {"npmrc"}, f)
  BY <1>5, <1>7, WriteOne
<1> HIDE DEF s1
<1>9. Writing(s2, n2, f)
  BY <1>5, <1>7, <1>8, WriteMore
<1>10. "workspace" \notin n2 /\ "links" \notin n3
  OBVIOUS
<1> HIDE DEF s2, n2
<1>11. Writing(s3, n3, f)
  BY <1>5, <1>7, <1>9, <1>10, WriteMore
<1> HIDE DEF s3, n3
<1>12. Writing(s4, n4, f) /\ EndsWith(s4, "links")
  <2>1. "links" \in FileNames /\ "links" \notin n3 /\ links = f["links"]
    BY <1>5, <1>7, <1>10
  <2> QED BY <1>5, <1>11, <2>1, WriteMore
<1>13. EnableShared(q) = s4
  BY <1>3 DEF s1, s2, s3
<1>14. ASSUME NEW name \in FileNames, name \notin n4 PROVE f[name] = files[name]
  <2>1. name = "composer"
    BY <1>7, <1>14 DEF n2, n3
  <2> QED BY <1>5, <2>1
<1> HIDE DEF s4, n4
<1> QED BY <1>5, <1>6, <1>12, <1>13, <1>14 DEF LinkPlan, Planned

LEMMA EnableSharedComposerPlan ==
  ASSUME LinkerTyped, PackagesAssumption, NEW q \in SharedComposer PROVE LinkPlan(EnableShared(q), {q})
<1> DEFINE composer == LinkedComposer(q)
           links == Recorded({q})
           f == [npmrc |-> files.npmrc, package |-> files.package, composer |-> composer,
                 workspace |-> files.workspace, links |-> links]
<1>0. /\ q \in ComposerPackages /\ q \notin NpmPackages /\ q \notin SharedNpm
      /\ SharedNpm \subseteq NpmPackages
  BY DEF SharedNpm, SharedComposer, PackagesAssumption
<1>1. /\ composer \in ComposerFile
      /\ \A p \in ComposerPackages :
           /\ composer.require[p] = IF p = q THEN Entry(q).composer ELSE files.composer.require[p]
           /\ composer.repositories[p] = IF p = q THEN Local ELSE files.composer.repositories[p]
  BY <1>0, LinkedComposerTyped
<1>2. /\ links \in LinksFile
      /\ \A p \in Packages : links[p] = IF p \in {q} THEN Entry(p) ELSE files.links[p]
  BY <1>0, RecordedTyped
<1>3. EnableShared(q) = Write("composer", composer) \o Write("links", links)
  BY <1>0 DEF EnableShared
<1> HIDE DEF composer, links
<1>4. files.npmrc \in BOOLEAN /\ files.package \in PackageFile /\ files.workspace \in WorkspaceFile
  BY <1>0, FilesTyped
<1>5. /\ f \in LinkerFiles /\ f.npmrc = files.npmrc /\ f.package = files.package /\ f.composer = composer
      /\ f.workspace = files.workspace /\ f.links = links
  BY <1>1, <1>2, <1>4 DEF LinkerFiles
<1> HIDE DEF f
<1>6. LinkedTo(f, {q})
  <2>1. {q} \cap NpmPackages = {}
    BY <1>0
  <2> QED BY <1>0, <1>1, <1>2, <1>5, <2>1 DEF LinkedTo
<1>7. FileNames = {"npmrc", "package", "composer", "workspace", "links"}
  BY DEF FileNames
<1> DEFINE s1 == Write("composer", composer)
           s2 == s1 \o Write("links", links)
           n2 == {"composer"} \cup {"links"}
<1>8. Writing(s1, {"composer"}, f)
  BY <1>5, <1>7, WriteOne
<1> HIDE DEF s1
<1>9. Writing(s2, n2, f) /\ EndsWith(s2, "links")
  <2>1. "links" \in FileNames /\ "links" \notin {"composer"} /\ links = f["links"]
    BY <1>5, <1>7
  <2> QED BY <1>5, <1>8, <2>1, WriteMore
<1>10. EnableShared(q) = s2
  BY <1>3 DEF s1
<1>11. ASSUME NEW name \in FileNames, name \notin n2 PROVE f[name] = files[name]
  <2>1. name = "npmrc" \/ name = "package" \/ name = "workspace"
    BY <1>7, <1>11
  <2> QED BY <1>5, <2>1
<1> HIDE DEF s2, n2
<1> QED BY <1>5, <1>6, <1>9, <1>10, <1>11 DEF LinkPlan, Planned

LEMMA UnlinkedNpmTyped ==
  ASSUME LinkerTyped, NEW q \in NpmPackages
  PROVE  /\ UnlinkedPackage(q) \in PackageFile /\ UnlinkedPackage(q).overrides = files.package.overrides
         /\ \A p \in NpmPackages :
              UnlinkedPackage(q).dependencies[p] =
                IF p = q THEN Back(files.package.dependencies[p], files.links[p].npm)
                ELSE files.package.dependencies[p]
         /\ UnlinkedWorkspace(q) \in WorkspaceFile
         /\ \A p \in SharedNpm :
              UnlinkedWorkspace(q).overrides[p] =
                IF p = q THEN IF files.workspace.overrides[p] # Absent THEN files.links[p].override ELSE Absent
                ELSE files.workspace.overrides[p]
         /\ UnlinkedWorkspace(q).packages = files.workspace.packages \ {q}
<1> DEFINE c == files.package
           w == files.workspace
           back == Back(c.dependencies[q], files.links[q].npm)
           pin == IF q \in SharedNpm /\ w.overrides[q] # Absent THEN files.links[q].override ELSE Absent
           deps == Over(c.dependencies, {q}, back)
           news == Over(w.overrides, {q}, pin)
<1>0. /\ c \in PackageFile /\ c.dependencies \in [NpmPackages -> Ranges]
      /\ c.overrides \in [SharedNpm -> {Absent, Original}]
      /\ w \in WorkspaceFile /\ w.packages \in SUBSET NpmPackages
      /\ w.hoist \in BOOLEAN /\ w.overrides \in [SharedNpm -> {Absent, Original, Local}]
  BY FilesTyped
<1>1. files.links[q] \in LinkEntries
  BY FilesTyped, Ranges4
<1>2. back \in Ranges /\ pin \in {Absent, Original, Local}
  BY <1>1 DEF Back, LinkEntries, Ranges
<1>3. /\ UnlinkedPackage(q) = [c EXCEPT !.dependencies = deps]
      /\ UnlinkedWorkspace(q) = [w EXCEPT !.packages = w.packages \ {q}, !.overrides = news]
  BY DEF UnlinkedPackage, UnlinkedWorkspace
<1>4. back = Back(files.package.dependencies[q], files.links[q].npm)
  OBVIOUS
<1>5. q \in SharedNpm =>
        pin = IF files.workspace.overrides[q] # Absent THEN files.links[q].override ELSE Absent
  OBVIOUS
<1> HIDE DEF back, pin
<1>6. /\ deps \in [NpmPackages -> Ranges]
      /\ \A p \in NpmPackages : deps[p] = IF p = q THEN back ELSE c.dependencies[p]
  BY <1>0, <1>2 DEF Over
<1>7. /\ news \in [SharedNpm -> {Absent, Original, Local}]
      /\ \A p \in SharedNpm : news[p] = IF p = q THEN pin ELSE w.overrides[p]
  BY <1>0, <1>2 DEF Over
<1> HIDE DEF deps, news
<1>8. /\ UnlinkedPackage(q) \in PackageFile /\ UnlinkedPackage(q).overrides = c.overrides
      /\ UnlinkedPackage(q).dependencies = deps
  <2> HIDE DEF c
  <2> QED BY <1>0, <1>3, <1>6 DEF PackageFile
<1>9. /\ UnlinkedWorkspace(q) \in WorkspaceFile /\ UnlinkedWorkspace(q).overrides = news
      /\ UnlinkedWorkspace(q).packages = w.packages \ {q}
  <2> HIDE DEF w
  <2> QED BY <1>0, <1>3, <1>7 DEF WorkspaceFile
<1> QED BY <1>4, <1>5, <1>6, <1>7, <1>8, <1>9

LEMMA UnlinkedComposerTyped ==
  ASSUME LinkerTyped, NEW q \in ComposerPackages
  PROVE  /\ UnlinkedComposer(q) \in ComposerFile
         /\ \A p \in ComposerPackages :
              /\ UnlinkedComposer(q).require[p] =
                   IF p = q THEN Back(files.composer.require[p], files.links[p].composer)
                   ELSE files.composer.require[p]
              /\ UnlinkedComposer(q).repositories[p] =
                   IF p = q THEN IF files.composer.repositories[p] = Absent THEN Absent ELSE files.links[p].repository
                   ELSE files.composer.repositories[p]
<1> DEFINE back == Back(files.composer.require[q], files.links[q].composer)
           path == IF files.composer.repositories[q] = Absent THEN Absent ELSE files.links[q].repository
           requires == Over(files.composer.require, {q}, back)
           paths == Over(files.composer.repositories, {q}, path)
<1>0. /\ files.composer.require \in [ComposerPackages -> {Absent, Original, Version}]
      /\ files.composer.repositories \in [ComposerPackages -> {Absent, Original, Local}]
  BY FilesTyped
<1>1. files.links[q] \in LinkEntries
  BY FilesTyped, Ranges4
<1>2. back \in {Absent, Original, Version} /\ path \in {Absent, Original, Local}
  BY <1>1 DEF Back, LinkEntries
<1>3. UnlinkedComposer(q) = [require |-> requires, repositories |-> paths]
  BY DEF UnlinkedComposer
<1>4. /\ back = Back(files.composer.require[q], files.links[q].composer)
      /\ path = IF files.composer.repositories[q] = Absent THEN Absent ELSE files.links[q].repository
  OBVIOUS
<1> HIDE DEF back, path
<1>5. /\ requires \in [ComposerPackages -> {Absent, Original, Version}]
      /\ \A p \in ComposerPackages : requires[p] = IF p = q THEN back ELSE files.composer.require[p]
  BY <1>0, <1>2 DEF Over
<1>6. /\ paths \in [ComposerPackages -> {Absent, Original, Local}]
      /\ \A p \in ComposerPackages : paths[p] = IF p = q THEN path ELSE files.composer.repositories[p]
  BY <1>0, <1>2 DEF Over
<1> HIDE DEF requires, paths
<1> QED BY <1>3, <1>4, <1>5, <1>6 DEF ComposerFile

LEMMA ForgottenTyped ==
  ASSUME LinkerTyped, NEW q \in Packages
  PROVE  /\ Forgotten(q) \in LinksFile
         /\ \A p \in Packages : Forgotten(q)[p] = IF p = q THEN NoEntry ELSE files.links[p]
<1>1. NoEntry \in LinkEntries
  BY DEF NoEntry, LinkEntries
<1> QED BY <1>1, FilesTyped DEF Forgotten, LinksFile

(* What comes first stays first.                                             *)
LEMMA FirstStays ==
  ASSUME NEW S, NEW s \in Seq(S), NEW t \in Seq(S), s # <<>>
  PROVE  s \o t # <<>> /\ (s \o t)[1] = s[1]
<1>1. Len(s) \in Nat \ {0}
  BY EmptySeq, LenProperties
<1>2. /\ s \o t \in Seq(S) /\ Len(s \o t) = Len(s) + Len(t) /\ Len(t) \in Nat
      /\ \A i \in 1 .. Len(s) + Len(t) : (s \o t)[i] = IF i <= Len(s) THEN s[i] ELSE t[i - Len(s)]
  BY ConcatProperties, LenProperties
<1>3. (s \o t)[1] = s[1]
  BY <1>1, <1>2
<1>4. Len(s \o t) # 0
  BY <1>1, <1>2
<1> DEFINE both == s \o t
<1> HIDE DEF both
<1>5. both = <<>> => Len(both) = 0
  BY EmptySeq
<1> QED BY <1>3, <1>4, <1>5 DEF both

LEMMA DisablePlan == ASSUME LinkerTyped, NEW q \in Packages PROVE UnlinkPlan(Disable(q), q)
<1> DEFINE npm == q \in NpmPackages
           php == q \in ComposerPackages
           package == IF npm THEN UnlinkedPackage(q) ELSE files.package
           composer == IF php THEN UnlinkedComposer(q) ELSE files.composer
           workspace == IF npm THEN UnlinkedWorkspace(q) ELSE files.workspace
           links == Forgotten(q)
           f == [npmrc |-> files.npmrc, package |-> package, composer |-> composer, workspace |-> workspace,
                 links |-> links]
<1>0. SharedNpm \subseteq NpmPackages
  BY DEF SharedNpm
<1>1. /\ package \in PackageFile /\ workspace \in WorkspaceFile
      /\ package.overrides = files.package.overrides
      /\ \A p \in NpmPackages :
           package.dependencies[p] =
             IF p = q THEN Back(files.package.dependencies[p], files.links[p].npm)
             ELSE files.package.dependencies[p]
      /\ \A p \in SharedNpm :
           workspace.overrides[p] =
             IF p = q THEN IF files.workspace.overrides[p] # Absent THEN files.links[p].override ELSE Absent
             ELSE files.workspace.overrides[p]
      /\ workspace.packages = files.workspace.packages \ {q}
  <2>1. CASE npm
    BY <1>0, <2>1, UnlinkedNpmTyped
  <2>2. CASE ~npm
    <3>1. files.workspace.packages = files.workspace.packages \ {q}
      BY <2>2, FilesTyped
    <3> QED BY <1>0, <2>2, <3>1, FilesTyped
  <2> QED BY <2>1, <2>2
<1>2. /\ composer \in ComposerFile
      /\ \A p \in ComposerPackages :
           /\ composer.require[p] =
                IF p = q THEN Back(files.composer.require[p], files.links[p].composer)
                ELSE files.composer.require[p]
           /\ composer.repositories[p] =
                IF p = q THEN IF files.composer.repositories[p] = Absent THEN Absent ELSE files.links[p].repository
                ELSE files.composer.repositories[p]
  <2>1. CASE php
    BY <1>0, <2>1, UnlinkedComposerTyped
  <2>2. CASE ~php
    BY <1>0, <2>2, FilesTyped
  <2> QED BY <2>1, <2>2
<1>3. /\ links \in LinksFile
      /\ \A p \in Packages : links[p] = IF p = q THEN NoEntry ELSE files.links[p]
  BY <1>0, ForgottenTyped
<1>4. /\ npm \in BOOLEAN /\ php \in BOOLEAN
      /\ npm => package = UnlinkedPackage(q) /\ workspace = UnlinkedWorkspace(q)
      /\ ~npm => package = files.package /\ workspace = files.workspace
      /\ php => composer = UnlinkedComposer(q)
      /\ ~php => composer = files.composer
  OBVIOUS
<1>5. Disable(q) =
        WriteIf(npm, "package", UnlinkedPackage(q)) \o WriteIf(php, "composer", UnlinkedComposer(q))
        \o WriteIf(npm, "workspace", UnlinkedWorkspace(q)) \o Write("links", links)
  BY DEF Disable
<1> HIDE DEF package, composer, workspace, links, npm, php
<1>6. files.npmrc \in BOOLEAN
  BY <1>0, FilesTyped
<1>7. /\ f \in LinkerFiles /\ f.npmrc = files.npmrc /\ f.package = package /\ f.composer = composer
      /\ f.workspace = workspace /\ f.links = links
  BY <1>1, <1>2, <1>3, <1>6 DEF LinkerFiles
<1> HIDE DEF f
<1>8. UnlinkedFrom(f, q)
  BY <1>1, <1>2, <1>3, <1>7 DEF UnlinkedFrom
<1>9. FileNames = {"npmrc", "package", "composer", "workspace", "links"}
  BY DEF FileNames
<1> DEFINE s1 == WriteIf(npm, "package", UnlinkedPackage(q))
           s2 == s1 \o WriteIf(php, "composer", UnlinkedComposer(q))
           s3 == s2 \o WriteIf(npm, "workspace", UnlinkedWorkspace(q))
           s4 == s3 \o Write("links", links)
           n1 == IF npm THEN {"package"} ELSE {}
           n2 == IF php THEN n1 \cup {"composer"} ELSE n1
           n3 == IF npm THEN n2 \cup {"workspace"} ELSE n2
           n4 == n3 \cup {"links"}
<1>10. Writing(s1, n1, f)
  <2>1. "package" \in FileNames /\ (npm => UnlinkedPackage(q) = f["package"])
    BY <1>4, <1>7, <1>9
  <2> QED BY <1>4, <1>7, <2>1, WriteIfOne
<1>11. "composer" \notin n1 /\ "workspace" \notin n2 /\ "links" \notin n3
  OBVIOUS
<1>12. \A name \in FileNames : name \notin n4 =>
         name = "npmrc" \/ (name = "composer" /\ ~php) \/ (name \in {"package", "workspace"} /\ ~npm)
  BY <1>9
<1> HIDE DEF s1, n1
<1>13. Writing(s2, n2, f)
  <2>1. "composer" \in FileNames /\ "composer" \notin n1 /\ (php => UnlinkedComposer(q) = f["composer"])
    BY <1>4, <1>7, <1>9, <1>11
  <2> QED BY <1>4, <1>7, <1>10, <2>1, WriteIfMore
<1> HIDE DEF s2, n2
<1>14. Writing(s3, n3, f)
  <2>1. "workspace" \in FileNames /\ "workspace" \notin n2 /\ (npm => UnlinkedWorkspace(q) = f["workspace"])
    BY <1>4, <1>7, <1>9, <1>11
  <2> QED BY <1>4, <1>7, <1>13, <2>1, WriteIfMore
<1> HIDE DEF s3, n3
<1>15. Writing(s4, n4, f) /\ EndsWith(s4, "links")
  <2>1. "links" \in FileNames /\ "links" \notin n3 /\ links = f["links"]
    BY <1>7, <1>9, <1>11
  <2> QED BY <1>7, <1>14, <2>1, WriteMore
<1>16. Disable(q) = s4
  BY <1>5 DEF s1, s2, s3
<1> HIDE DEF s4, n4
<1>17. ASSUME NEW name \in FileNames, name \notin n4 PROVE f[name] = files[name]
  <2>1. name = "npmrc" \/ (name = "composer" /\ ~php) \/ (name \in {"package", "workspace"} /\ ~npm)
    BY <1>12, <1>17
  <2> QED BY <1>4, <1>7, <2>1
<1>18. q \in NpmPackages => s4[1].file = "package"
  <2> SUFFICES ASSUME q \in NpmPackages PROVE s4[1].file = "package"
    OBVIOUS
  <2> DEFINE w == [file |-> "package", content |-> UnlinkedPackage(q)]
             t2 == WriteIf(php, "composer", UnlinkedComposer(q))
             t3 == WriteIf(npm, "workspace", UnlinkedWorkspace(q))
             t4 == Write("links", links)
  <2>1. w \in LinkerWrites /\ t2 \in Seq(LinkerWrites) /\ t3 \in Seq(LinkerWrites) /\ t4 \in Seq(LinkerWrites)
    <3>1. UnlinkedPackage(q) \in PackageFile /\ UnlinkedWorkspace(q) \in WorkspaceFile
      BY UnlinkedNpmTyped
    <3>2. php => UnlinkedComposer(q) \in ComposerFile
      BY <1>4, UnlinkedComposerTyped DEF php
    <3>3. /\ w \in LinkerWrites
          /\ php => [file |-> "composer", content |-> UnlinkedComposer(q)] \in LinkerWrites
          /\ [file |-> "workspace", content |-> UnlinkedWorkspace(q)] \in LinkerWrites
          /\ [file |-> "links", content |-> links] \in LinkerWrites
      BY <1>3, <3>1, <3>2 DEF LinkerWrites
    <3>4. t2 \in Seq(LinkerWrites)
      BY <3>3 DEF Write, WriteIf
    <3>5. t3 \in Seq(LinkerWrites) /\ t4 \in Seq(LinkerWrites)
      BY <3>3 DEF Write, WriteIf
    <3> QED BY <3>3, <3>4, <3>5
  <2>2. s1 = <<w>>
    BY DEF s1, npm, WriteIf, Write
  <2>3. s1 \in Seq(LinkerWrites) /\ s1 # <<>> /\ s1[1] = w
    <3> HIDE DEF w
    <3> QED BY <2>1, <2>2
  <2>4. s2 = s1 \o t2 /\ s3 = s2 \o t3 /\ s4 = s3 \o t4
    BY DEF s2, s3, s4
  <2> HIDE DEF t2, t3, t4
  <2>5. s2 \in Seq(LinkerWrites) /\ s2 # <<>> /\ s2[1] = w
    <3> HIDE DEF w
    <3> QED BY <2>1, <2>3, <2>4, FirstStays, ConcatProperties
  <2>6. s3 \in Seq(LinkerWrites) /\ s3 # <<>> /\ s3[1] = w
    <3> HIDE DEF w
    <3> QED BY <2>1, <2>4, <2>5, FirstStays, ConcatProperties
  <2>7. s4[1] = w
    <3> HIDE DEF w
    <3> QED BY <2>1, <2>4, <2>6, FirstStays, ConcatProperties
  <2> QED BY <2>7
<1> QED BY <1>7, <1>8, <1>15, <1>16, <1>17, <1>18 DEF UnlinkPlan, Planned

(* Every part of a command links some packages or unlinks one.               *)
LEMMA BeginPlans ==
  ASSUME LinkerTyped, PackagesAssumption, Begin
  PROVE  /\ todo = <<>> /\ script # <<>> /\ script' = Tail(script) /\ script' \in Seq(LinkerParts)
         /\ Head(script) \in LinkerParts
         /\ UNCHANGED <<files, command, crashes, original, lost>> /\ stray \subseteq stray'
         /\ \/ /\ ~(Head(script).op \in {"disable", "disable-shared"})
               /\ \E S \in SUBSET Packages : LinkPlan(todo', S)
            \/ /\ Head(script).op \in {"disable", "disable-shared"} /\ Head(script).package \in Packages
               /\ UnlinkPlan(todo', Head(script).package)
               /\ Tracked(Head(script).package) \/ Head(script).package \in stray'
<1> DEFINE part == Head(script)
<1>1. /\ todo = <<>> /\ script # <<>> /\ todo' = Writes(part) /\ script' = Tail(script)
      /\ stray' = IF part.op \in {"disable", "disable-shared"} /\ ~Tracked(part.package)
                    THEN stray \cup {part.package} ELSE stray
      /\ UNCHANGED <<files, command, crashes, original, lost>>
  BY DEF Begin
<1>2. part \in LinkerParts /\ script' \in Seq(LinkerParts)
  BY <1>1, HeadTailProperties DEF LinkerTyped
<1> HIDE DEF part
<1>3. CASE part.op = "enable"
  <2>1. part.package \in Modules /\ part.shared \in SUBSET SharedNpm
    BY <1>2, <1>3 DEF LinkerParts
  <2>2. LinkPlan(todo', {part.package} \cup part.shared) /\ {part.package} \cup part.shared \in SUBSET Packages
    BY <1>1, <1>3, <2>1, EnablePlan DEF Writes, PackagesAssumption, SharedNpm, Packages
  <2> QED BY <1>1, <1>2, <1>3, <2>2 DEF part
<1>4. CASE part.op = "enable-shared"
  <2>1. part.package \in SharedNpm \cup SharedComposer
    BY <1>2, <1>4 DEF LinkerParts
  <2>2. LinkPlan(todo', {part.package}) /\ {part.package} \in SUBSET Packages
    BY <1>1, <1>4, <2>1, EnableSharedNpmPlan, EnableSharedComposerPlan DEF Writes, SharedNpm, SharedComposer, Packages
  <2> QED BY <1>1, <1>2, <1>4, <2>2 DEF part
<1>5. CASE part.op \in {"disable", "disable-shared"}
  <2>1. part.package \in Packages
    BY <1>2, <1>5 DEF LinkerParts
  <2>2. UnlinkPlan(todo', part.package)
    BY <1>1, <1>5, <2>1, DisablePlan DEF Writes
  <2>3. Tracked(part.package) \/ part.package \in stray'
    BY <1>1, <1>5
  <2> QED BY <1>1, <1>2, <1>5, <2>1, <2>2, <2>3 DEF part
<1>6. part.op \in {"enable", "enable-shared", "disable", "disable-shared"}
  BY <1>2 DEF LinkerParts
<1> QED BY <1>3, <1>4, <1>5, <1>6

LEMMA BeginHolds == ASSUME LinkerInv, PackagesAssumption, Begin PROVE LinkerInv'
<1>0. LinkerTyped
  BY DEF LinkerInv
<1>1. /\ todo = <<>> /\ script' \in Seq(LinkerParts) /\ stray \subseteq stray'
      /\ files' = files /\ original' = original /\ lost' = lost
  BY <1>0, BeginPlans
<1>2. ASSUME NEW S, LinkPlan(todo', S) PROVE LinkerInv'
  <2>1. PICK f \in LinkerFiles : Planned(todo', f) /\ LinkedTo(f, S)
    BY <1>2 DEF LinkPlan
  <2>2. \A p \in Packages : Sure(p)' => PartGood(f, p)
    <3>1. \A p \in Packages : Sure(p) => PartGood(f, p)
      BY <1>1, <2>1, LinkGood
    <3> QED BY <1>1, <3>1 DEF Sure
  <2> QED BY <1>1, <2>1, <2>2, PlanHolds DEF Planned
<1>3. ASSUME NEW q \in Packages, UnlinkPlan(todo', q), Tracked(q) \/ q \in stray' PROVE LinkerInv'
  <2>1. PICK f \in LinkerFiles : Planned(todo', f) /\ UnlinkedFrom(f, q)
    BY <1>3 DEF UnlinkPlan
  <2>2. ASSUME NEW p \in Packages, Sure(p)' PROVE PartGood(f, p)
    <3>1. Sure(p) /\ (p = q => Tracked(q))
      BY <1>1, <1>3, <2>2 DEF Sure
    <3> QED BY <1>1, <2>1, <3>1, UnlinkGood
  <2> QED BY <1>1, <2>1, <2>2, PlanHolds DEF Planned
<1> QED BY <1>0, <1>2, <1>3, BeginPlans

-----------------------------------------------------------------------------
(* A command is entered.                                                     *)
LEMMA ScriptKeeps ==
  ASSUME LinkerInv, UNCHANGED <<files, todo, original, lost, stray>>, script' \in Seq(LinkerParts)
  PROVE  LinkerInv'
<1>1. LinkerTyped' /\ InOrder(todo)'
  BY DEF LinkerInv, LinkerTyped, InOrder
<1>2. Final(todo)' = Final(todo)
  BY DEF Final, FinalFile
<1>3. ASSUME NEW p \in Packages, Sure(p)' PROVE LinkerSafe(p)'
  <2>1. LinkerSafe(p)
    BY <1>3 DEF LinkerInv, Sure
  <2>2. SettledIn(Final(todo), p)'
    BY <1>2, <2>1 DEF LinkerSafe, SettledIn, RestoredIn, KeptIn, Remembers, PackageKept, ComposerKept,
      WorkspaceKept, Pin
  <2>3. (Tracked(p)' <=> Tracked(p)) /\ (Linking(todo, p)' <=> Linking(todo, p))
    BY DEF Tracked, Linking
  <2>4. ASSUME Tracked(p) PROVE KeptIn(files, p)' /\ (\A i \in DOMAIN todo : HarmlessFor(todo[i], p))'
    BY <2>1, <2>4 DEF LinkerSafe, KeptIn, Remembers, HarmlessFor, PackageKept, ComposerKept, WorkspaceKept, Pin
  <2>5. ASSUME ~Tracked(p), ~Linking(todo, p)
        PROVE  RestoredIn(files, p)' /\ (\A i \in DOMAIN todo : SameFor(todo[i], p))'
    BY <2>1, <2>5 DEF LinkerSafe, RestoredIn, SameFor, Pin
  <2> QED BY <2>2, <2>3, <2>4, <2>5 DEF LinkerSafe
<1> QED BY <1>1, <1>3 DEF LinkerInv

LEMMA ListedOnce ==
  ASSUME NEW S, IsFiniteSet(S)
  PROVE  Cardinality(S) \in Nat /\ SetToSeq(S) \in [1 .. Cardinality(S) -> S]
<1>1. Cardinality(S) \in Nat /\ ExistsBijection(1 .. Cardinality(S), S)
  BY FS_CardinalityType
<1>2. \E f \in [1 .. Cardinality(S) -> S] : IsInjective(f)
  BY <1>1 DEF ExistsBijection, Bijection, Injection
<1> QED BY <1>1, <1>2 DEF SetToSeq

LEMMA PartsOf ==
  ASSUME NEW S, IsFiniteSet(S), NEW op, \A p \in S : Part(op, p, {}) \in LinkerParts
  PROVE  [i \in 1 .. Cardinality(S) |-> Part(op, SetToSeq(S)[i], {})] \in Seq(LinkerParts)
<1>1. Cardinality(S) \in Nat /\ \A i \in 1 .. Cardinality(S) : SetToSeq(S)[i] \in S
  BY ListedOnce
<1> QED BY <1>1, IsASeq

LEMMA PartTypes ==
  /\ \A m \in Modules, S \in SUBSET SharedNpm : Part("enable", m, S) \in LinkerParts
  /\ \A p \in SharedNpm \cup SharedComposer : Part("enable-shared", p, {}) \in LinkerParts
  /\ \A p \in Packages : Part("disable", p, {}) \in LinkerParts /\ Part("disable-shared", p, {}) \in LinkerParts
BY DEF Part, LinkerParts

LEMMA EnterKeeps ==
  ASSUME LinkerInv, NEW kind, NEW parts, parts \in Seq(LinkerParts), Enter(kind, parts) PROVE LinkerInv'
BY ScriptKeeps DEF Enter

LEMMA EnteringHolds ==
  ASSUME LinkerInv, PackagesAssumption,
         \/ \E m \in Modules, shared \in SUBSET (SharedNpm \cup SharedComposer) : EnterEnable(m, shared)
         \/ \E m \in Modules : EnterDisable(m)
         \/ \E p \in SharedNpm \cup SharedComposer : EnterEnableShared(p) \/ EnterDisableShared(p)
         \/ EnterReset
  PROVE  LinkerInv'
<1>0. Modules \subseteq Packages /\ IsFiniteSet(Packages) /\ SharedNpm \cup SharedComposer \subseteq Packages
  BY DEF PackagesAssumption, SharedNpm, SharedComposer, Packages
<1>1. ASSUME NEW m \in Modules, NEW shared \in SUBSET (SharedNpm \cup SharedComposer), EnterEnable(m, shared)
      PROVE  LinkerInv'
  <2> DEFINE S == shared \cap SharedComposer
             api == SetToSeq(S)
             first == <<Part("enable", m, shared \cap SharedNpm)>>
             rest == [i \in DOMAIN api |-> Part("enable-shared", api[i], {})]
  <2>1. IsFiniteSet(S)
    <3>1. S \in SUBSET Packages
      BY <1>0
    <3> QED BY <1>0, <3>1, FS_Subset
  <2>2. first \in Seq(LinkerParts)
    BY PartTypes
  <2>3. \A p \in S : Part("enable-shared", p, {}) \in LinkerParts
    BY PartTypes
  <2>4. DOMAIN api = 1 .. Cardinality(S)
    <3> HIDE DEF S
    <3> QED BY <2>1, ListedOnce
  <2>5. rest = [i \in 1 .. Cardinality(S) |-> Part("enable-shared", SetToSeq(S)[i], {})]
    BY <2>4
  <2>6. rest \in Seq(LinkerParts)
    <3> HIDE DEF S, rest
    <3> QED BY <2>1, <2>3, <2>5, PartsOf
  <2>7. Enter("link", first \o rest)
    BY <1>1 DEF EnterEnable
  <2> HIDE DEF first, rest
  <2>8. first \o rest \in Seq(LinkerParts)
    BY <2>2, <2>6, ConcatProperties
  <2> QED BY <2>7, <2>8, EnterKeeps
<1>2. ASSUME NEW m \in Modules, EnterDisable(m) PROVE LinkerInv'
  <2>1. <<Part("disable", m, {})>> \in Seq(LinkerParts)
    BY <1>0, PartTypes
  <2> QED BY <1>2, <2>1, EnterKeeps DEF EnterDisable
<1>3. ASSUME NEW p \in SharedNpm \cup SharedComposer, EnterEnableShared(p) PROVE LinkerInv'
  <2>1. <<Part("enable-shared", p, {})>> \in Seq(LinkerParts)
    BY PartTypes
  <2> QED BY <1>3, <2>1, EnterKeeps DEF EnterEnableShared
<1>4. ASSUME NEW p \in SharedNpm \cup SharedComposer, EnterDisableShared(p) PROVE LinkerInv'
  <2>1. <<Part("disable-shared", p, {})>> \in Seq(LinkerParts)
    BY <1>0, PartTypes
  <2> QED BY <1>4, <2>1, EnterKeeps DEF EnterDisableShared
<1>5. ASSUME EnterReset PROVE LinkerInv'
  <2> DEFINE targets == {p \in Packages : IsLinked(p)}
             S == targets \cap Modules
             T == targets \ Modules
             first == [i \in 1 .. Cardinality(S) |-> Part("disable", SetToSeq(S)[i], {})]
             rest == [i \in 1 .. Cardinality(T) |-> Part("disable-shared", SetToSeq(T)[i], {})]
  <2>1. S \in SUBSET Packages /\ T \in SUBSET Packages
    OBVIOUS
  <2>2. Enter("reset", first \o rest)
    BY <1>5 DEF EnterReset, ResetScript
  <2>3. /\ first = [i \in 1 .. Cardinality(S) |-> Part("disable", SetToSeq(S)[i], {})]
        /\ rest = [i \in 1 .. Cardinality(T) |-> Part("disable-shared", SetToSeq(T)[i], {})]
    OBVIOUS
  <2> HIDE DEF S, T, first, rest
  <2>4. IsFiniteSet(S) /\ IsFiniteSet(T)
    BY <1>0, <2>1, FS_Subset
  <2>5. first \in Seq(LinkerParts) /\ rest \in Seq(LinkerParts)
    BY <2>1, <2>3, <2>4, PartTypes, PartsOf
  <2>6. first \o rest \in Seq(LinkerParts)
    BY <2>5, ConcatProperties
  <2> QED BY <2>2, <2>6, EnterKeeps
<1> QED BY <1>1, <1>2, <1>3, <1>4, <1>5

-----------------------------------------------------------------------------
(* A command fails or is killed: what is written is what there is.           *)
LEMMA StoppedHolds ==
  ASSUME LinkerTyped', todo' = <<>>,
         \A p \in Packages : Sure(p)' =>
           (Tracked(p)' => KeptIn(files, p)') /\ (~Tracked(p)' => RestoredIn(files, p)')
  PROVE  LinkerInv'
<1>1. DOMAIN todo' = {}
  OBVIOUS
<1>2. InOrder(todo)'
  BY <1>1 DEF InOrder
<1>3. \A name : FinalFile(todo, name)' = files'[name]
  BY <1>1 DEF FinalFile
<1>4. /\ Final(todo)'.package = files'.package /\ Final(todo)'.composer = files'.composer
      /\ Final(todo)'.workspace = files'.workspace /\ Final(todo)'.links = files'.links
  BY <1>3 DEF Final, FileNames
<1>5. ASSUME NEW p \in Packages, Sure(p)' PROVE LinkerSafe(p)'
  <2>1. SettledIn(files, p)'
    BY <1>5 DEF SettledIn, Tracked
  <2>2. SettledIn(Final(todo), p)'
    BY <1>4, <2>1 DEF SettledIn, RestoredIn, KeptIn, Pin
  <2> QED BY <1>1, <1>5, <2>2 DEF LinkerSafe
<1> QED BY <1>2, <1>5 DEF LinkerInv

LEMMA UnknownHolds == ASSUME LinkerInv, EnterUnknownShared PROVE LinkerInv'
<1>1. /\ todo = <<>> /\ todo' = <<>> /\ files' = [files EXCEPT !.npmrc = FALSE]
      /\ UNCHANGED <<script, original, lost, stray>>
  BY DEF EnterUnknownShared, Idle
<1>2. LinkerTyped
  BY DEF LinkerInv
<1>3. files \in LinkerFiles
  BY <1>2 DEF LinkerTyped
<1>4. /\ files' \in LinkerFiles /\ files'.package = files.package /\ files'.composer = files.composer
      /\ files'.workspace = files.workspace /\ files'.links = files.links
  BY <1>1, <1>3 DEF LinkerFiles
<1>5. LinkerTyped'
  <2>1. <<>> \in Seq(LinkerWrites)
    OBVIOUS
  <2> QED BY <1>1, <1>2, <1>4, <2>1 DEF LinkerTyped
<1>6. ASSUME NEW p \in Packages, Sure(p)'
      PROVE  (Tracked(p)' => KeptIn(files, p)') /\ (~Tracked(p)' => RestoredIn(files, p)')
  <2>1. Sure(p) /\ (Tracked(p)' <=> Tracked(p))
    BY <1>1, <1>4, <1>6 DEF Sure, Tracked
  <2>2. (Tracked(p) => KeptIn(files, p)) /\ (~Tracked(p) => RestoredIn(files, p))
    BY <1>1, <2>1, AtRest
  <2>3. KeptIn(files, p) => KeptIn(files, p)'
    BY <1>1, <1>4 DEF KeptIn, Remembers, PackageKept, ComposerKept, WorkspaceKept, Pin
  <2>4. RestoredIn(files, p) => RestoredIn(files, p)'
    BY <1>1, <1>4 DEF RestoredIn, Pin
  <2> QED BY <2>1, <2>2, <2>3, <2>4
<1> QED BY <1>1, <1>5, <1>6, StoppedHolds

LEMMA CrashHolds == ASSUME LinkerInv, Crash PROVE LinkerInv'
<1>1. /\ todo' = <<>> /\ script' = <<>> /\ lost' = lost \cup Unrecorded
      /\ UNCHANGED <<files, original, stray>>
  BY DEF Crash
<1>2. LinkerTyped'
  <2>1. <<>> \in Seq(LinkerWrites) /\ <<>> \in Seq(LinkerParts)
    OBVIOUS
  <2> QED BY <1>1, <2>1 DEF LinkerInv, LinkerTyped
<1>3. ASSUME NEW p \in Packages, Sure(p)'
      PROVE  (Tracked(p)' => KeptIn(files, p)') /\ (~Tracked(p)' => RestoredIn(files, p)')
  <2>1. Sure(p) /\ (Tracked(p)' <=> Tracked(p)) /\ (Tracked(p) \/ ~Linking(todo, p))
    BY <1>1, <1>3 DEF Sure, Tracked, Unrecorded, Linking, Last
  <2>2. LinkerSafe(p)
    BY <2>1 DEF LinkerInv
  <2>3. KeptIn(files, p) => KeptIn(files, p)'
    BY <1>1 DEF KeptIn, Remembers, PackageKept, ComposerKept, WorkspaceKept, Pin
  <2>4. RestoredIn(files, p) => RestoredIn(files, p)'
    BY <1>1 DEF RestoredIn, Pin
  <2> QED BY <2>1, <2>2, <2>3, <2>4 DEF LinkerSafe
<1> QED BY <1>1, <1>2, <1>3, StoppedHolds

-----------------------------------------------------------------------------
(* The invariant holds at first and is kept by every step.                   *)
LEMMA InitHolds == BoundsAssumption /\ Init => LinkerInv
<1> SUFFICES ASSUME BoundsAssumption, Init PROVE LinkerInv
  OBVIOUS
<1>1. PICK named \in {{}, Modules, Packages}, pinned \in SUBSET SharedNpm, byHand \in {{}, ComposerPackages},
           inYaml \in BOOLEAN, hoist \in Hoisting :
        files =
          [npmrc |-> hoist,
           package |->
             [dependencies |-> [p \in NpmPackages |-> IF p \in named THEN Original ELSE Absent],
              overrides |-> [p \in SharedNpm |-> IF p \in (IF inYaml THEN {} ELSE pinned) THEN Original ELSE Absent]],
           composer |->
             [require |-> [p \in ComposerPackages |-> IF p \in named THEN Original ELSE Absent],
              repositories |-> [p \in ComposerPackages |-> IF p \in byHand THEN Original ELSE Absent]],
           workspace |->
             [packages |-> {}, hoist |-> FALSE,
              overrides |-> [p \in SharedNpm |-> IF p \in (IF inYaml THEN pinned ELSE {}) THEN Original ELSE Absent]],
           links |-> [p \in Packages |-> NoEntry]]
  BY DEF Init
<1>2. original = files /\ todo = <<>> /\ script = <<>> /\ lost = {} /\ stray = {}
  BY DEF Init
<1>3. /\ files.npmrc = hoist
      /\ files.package =
           [dependencies |-> [p \in NpmPackages |-> IF p \in named THEN Original ELSE Absent],
            overrides |-> [p \in SharedNpm |-> IF p \in (IF inYaml THEN {} ELSE pinned) THEN Original ELSE Absent]]
      /\ files.composer =
           [require |-> [p \in ComposerPackages |-> IF p \in named THEN Original ELSE Absent],
            repositories |-> [p \in ComposerPackages |-> IF p \in byHand THEN Original ELSE Absent]]
      /\ files.workspace =
           [packages |-> {}, hoist |-> FALSE,
            overrides |-> [p \in SharedNpm |-> IF p \in (IF inYaml THEN pinned ELSE {}) THEN Original ELSE Absent]]
      /\ files.links = [p \in Packages |-> NoEntry]
      /\ files = [npmrc |-> files.npmrc, package |-> files.package, composer |-> files.composer,
                  workspace |-> files.workspace, links |-> files.links]
  BY <1>1
<1>4. files.npmrc \in BOOLEAN
  BY <1>3 DEF BoundsAssumption
<1>5. files.package \in PackageFile /\ \A p \in NpmPackages : files.package.dependencies[p] \in {Absent, Original}
  BY <1>3 DEF PackageFile, Ranges
<1>6. files.composer \in ComposerFile /\ \A p \in ComposerPackages : files.composer.require[p] \in {Absent, Original}
  BY <1>3 DEF ComposerFile
<1>7. files.workspace \in WorkspaceFile /\ \A p \in SharedNpm : files.workspace.overrides[p] \in {Absent, Original}
  BY <1>3 DEF WorkspaceFile
<1>8. files.links \in LinksFile /\ \A p \in Packages : ~Tracked(p)
  <2>1. NoEntry \in LinkEntries
    BY DEF NoEntry, LinkEntries
  <2> QED BY <1>3, <2>1 DEF LinksFile, Tracked
<1>9. files \in LinkerFiles
  BY <1>3, <1>4, <1>5, <1>6, <1>7, <1>8 DEF LinkerFiles
<1>10. LinkerTyped
  <2>1. <<>> \in Seq(LinkerWrites) /\ <<>> \in Seq(LinkerParts)
    OBVIOUS
  <2>2. Original # Local /\ Absent # Local
    BY Ranges4
  <2> QED BY <1>2, <1>5, <1>6, <1>7, <1>9, <2>1, <2>2 DEF LinkerTyped
<1>11. DOMAIN todo = {}
  BY <1>2
<1>12. InOrder(todo)
  BY <1>2, <1>11 DEF InOrder
<1>13. /\ Final(todo).package = files.package /\ Final(todo).composer = files.composer
       /\ Final(todo).workspace = files.workspace /\ Final(todo).links = files.links
  BY <1>11 DEF Final, FinalFile, FileNames
<1>14. ASSUME NEW p \in Packages PROVE LinkerSafe(p)
  <2>1. RestoredIn(files, p)
    BY <1>2 DEF RestoredIn, Reversed
  <2>2. SettledIn(Final(todo), p)
    BY <1>8, <1>13, <2>1 DEF SettledIn, RestoredIn, Pin, Tracked
  <2> QED BY <1>8, <1>11, <2>1, <2>2 DEF LinkerSafe
<1> QED BY <1>10, <1>12, <1>14 DEF LinkerInv

LEMMA StepHolds == PackagesAssumption /\ LinkerInv /\ [Next]_vars => LinkerInv'
<1> SUFFICES ASSUME PackagesAssumption, LinkerInv, [Next]_vars PROVE LinkerInv'
  OBVIOUS
<1>1. CASE \/ \E m \in Modules, shared \in SUBSET (SharedNpm \cup SharedComposer) : EnterEnable(m, shared)
           \/ \E m \in Modules : EnterDisable(m)
           \/ \E p \in SharedNpm \cup SharedComposer : EnterEnableShared(p) \/ EnterDisableShared(p)
           \/ EnterReset
  BY <1>1, EnteringHolds
<1>2. CASE EnterUnknownShared
  BY <1>2, UnknownHolds
<1>3. CASE Begin
  BY <1>3, BeginHolds
<1>4. CASE WriteFile
  BY <1>4, WriteFileKeeps
<1>5. CASE Crash
  BY <1>5, CrashHolds
<1>6. CASE UNCHANGED vars
  <2>1. script \in Seq(LinkerParts)
    BY DEF LinkerInv, LinkerTyped
  <2> QED BY <1>6, <2>1, ScriptKeeps DEF vars
<1> QED BY <1>1, <1>2, <1>3, <1>4, <1>5, <1>6 DEF Next

LEMMA InvRestores == ASSUME LinkerInv PROVE OriginalsRestored
<1> SUFFICES ASSUME Idle, NEW p \in Packages \ (lost \cup stray), ~Tracked(p) PROVE RestoredIn(files, p)
  BY DEF OriginalsRestored, RestoredIn
<1>1. todo = <<>> /\ Sure(p)
  BY DEF Idle, Sure
<1> QED BY <1>1, AtRest

(* Whatever commands are entered and wherever they are killed, a package     *)
(* that is linked no more has what it had before it was linked               *)
(* (package-linker.mjs, disableModule and the shared ones).                  *)
THEOREM OriginalsComeBack ==
  PackagesAssumption /\ BoundsAssumption /\ Init /\ [][Next]_vars => []OriginalsRestored
<1> SUFFICES ASSUME PackagesAssumption, BoundsAssumption PROVE Init /\ [][Next]_vars => []OriginalsRestored
  OBVIOUS
<1>1. Init => LinkerInv
  BY InitHolds
<1>2. LinkerInv /\ [Next]_vars => LinkerInv'
  BY StepHolds
<1>3. LinkerInv => OriginalsRestored
  BY InvRestores
<1> QED
  BY <1>1, <1>2, <1>3, PTL
-----------------------------------------------------------------------------
(* What the console takes from packages/ resolves.  The invariant speaks of  *)
(* the files there are, of those the command's writes will leave, and of the *)
(* writes in between: a package that stays linked is listed by each of them, *)
(* and one that is unlinked is named no more by package.json before it goes  *)
(* from the workspace.                                                       *)
Listed(workspace, p) == p \in workspace.packages /\ (p \in SharedNpm => workspace.overrides[p] = Local)

(* Linked everywhere or nowhere, in files no command was killed over.        *)
Whole(f, p) ==
  IF f.links[p] # NoEntry
  THEN /\ p \in NpmPackages => f.package.dependencies[p] = Local /\ Listed(f.workspace, p)
       /\ p \in ComposerPackages => f.composer.repositories[p] = Local
  ELSE p \in NpmPackages => f.package.dependencies[p] # Local /\ p \notin f.workspace.packages

Unbroken(p) ==
  p \in NpmPackages /\ todo # <<>> =>
    /\ Linking(todo, p) /\ Tracked(p) =>
         /\ Listed(files.workspace, p)
         /\ \A i \in DOMAIN todo : todo[i].file = "workspace" => Listed(todo[i].content, p)
    /\ ~Linking(todo, p) =>
         /\ \/ files.package.dependencies[p] # Local
            \/ Tracked(p) /\ Listed(files.workspace, p) /\ todo[1].file = "package"
         /\ \A i \in DOMAIN todo : todo[i].file = "package" => todo[i].content.dependencies[p] # Local

(* All that can be said once a command was killed.                           *)
Resolved(f, p) ==
  p \in NpmPackages /\ f.package.dependencies[p] = Local => f.links[p] # NoEntry /\ Listed(f.workspace, p)

(* What is not linked is not pinned to packages/, and no link remembers such *)
(* a pin as the original.                                                    *)
NoLinkIsPinned(p) ==
  p \in SharedNpm =>
    /\ Final(todo).links[p] = NoEntry => Pin(Final(todo), p) # Local
    /\ files.links[p].override # Local /\ Final(todo).links[p].override # Local
    /\ ~Tracked(p) /\ ~Linking(todo, p) =>
         /\ Pin(files, p) # Local
         /\ \A i \in DOMAIN todo : todo[i].file = "workspace" => todo[i].content.overrides[p] # Local

PackageResolves(p) ==
  /\ crashes = 0 => Whole(Final(todo), p) /\ Unbroken(p)
  /\ crashes <= 1 /\ p \notin lost => Resolved(Final(todo), p)
  /\ p \notin lost => NoLinkIsPinned(p)

(* A shared package in the workspace is pinned there, and no link remembers  *)
(* a repository of a module.                                                 *)
Pinned(workspace) == \A p \in SharedNpm : p \in workspace.packages => workspace.overrides[p] = Local
NoOwnRepository(links) == \A m \in Modules : links[m].repository = Absent
Styled ==
  /\ Pinned(files.workspace) /\ NoOwnRepository(files.links)
  /\ \A i \in DOMAIN todo : /\ todo[i].file = "workspace" => Pinned(todo[i].content)
                            /\ todo[i].file = "links" => NoOwnRepository(todo[i].content)

(* What a reset has not unlinked yet it has still to unlink.                 *)
Unlinked(f, p) ==
  /\ f.links[p] = NoEntry /\ p \notin f.workspace.packages
  /\ p \in NpmPackages => f.package.dependencies[p] # Local
  /\ p \in SharedNpm /\ p \notin lost => Pin(f, p) # Local
  /\ p \in Modules /\ p \in ComposerPackages => f.composer.repositories[p] = Absent
Resetting ==
  command = "reset" =>
    /\ \A i \in DOMAIN script : script[i].op \in {"disable", "disable-shared"}
    /\ \A p \in Packages : Unlinked(Final(todo), p) \/ \E i \in DOMAIN script : script[i].package = p

ResolveInv ==
  /\ crashes \in Nat /\ (crashes = 0 => lost = {})
  /\ \A p \in Packages : PackageResolves(p)
  /\ Styled /\ Resetting

-----------------------------------------------------------------------------
LEMMA FinalAtRest ==
  ASSUME todo = <<>>
  PROVE  /\ Final(todo).package = files.package /\ Final(todo).composer = files.composer
         /\ Final(todo).workspace = files.workspace /\ Final(todo).links = files.links
<1>1. DOMAIN todo = {}
  OBVIOUS
<1>2. \A name : FinalFile(todo, name) = files[name]
  BY <1>1 DEF FinalFile
<1> QED BY <1>2 DEF Final, FileNames

(* The writes of a part that begins.                                         *)
LEMMA PlanFacts ==
  ASSUME LinkerTyped, todo = <<>>, files' = files, NEW f \in LinkerFiles, Planned(todo', f)
  PROVE  /\ todo' # <<>>
         /\ Final(todo)'.package = f.package /\ Final(todo)'.composer = f.composer
         /\ Final(todo)'.workspace = f.workspace /\ Final(todo)'.links = f.links
         /\ \A i \in DOMAIN todo' :
              /\ todo'[i].file = "package" => todo'[i].content = f.package
              /\ todo'[i].file = "workspace" => todo'[i].content = f.workspace
              /\ todo'[i].file = "links" => todo'[i].content = f.links
         /\ \A p : Linking(todo, p)' <=> f.links[p] # NoEntry
<1>1. PICK names : /\ Writing(todo', names, f) /\ EndsWith(todo', "links")
                   /\ \A name \in FileNames : name \notin names => f[name] = files[name]
  BY DEF Planned
<1>2. InOrder(todo)' /\ todo' \in Seq(LinkerWrites) /\ todo' # <<>>
  BY <1>1 DEF InOrder, Writing, EndsWith
<1>3. ASSUME NEW name \in FileNames PROVE FinalFile(todo, name)' = f[name]
  <2>1. CASE name \in names
    <3>1. PICK i \in DOMAIN todo' : todo'[i].file = name
      BY <1>1, <2>1 DEF Writing
    <3>2. FinalFile(todo, name)' = todo'[i].content
      BY <1>2, <3>1 DEF FinalFile, InOrder
    <3> QED BY <1>1, <3>1, <3>2 DEF Writing
  <2>2. CASE name \notin names
    <3>1. \A i \in DOMAIN todo' : todo'[i].file # name
      BY <1>1, <2>2 DEF Writing
    <3> QED BY <1>1, <2>2, <3>1 DEF FinalFile
  <2> QED BY <2>1, <2>2
<1>4. /\ Final(todo)'.package = f.package /\ Final(todo)'.composer = f.composer
      /\ Final(todo)'.workspace = f.workspace /\ Final(todo)'.links = f.links
  BY <1>3 DEF Final, FileNames
<1>5. \A i \in DOMAIN todo' : todo'[i].content = f[todo'[i].file]
  BY <1>1 DEF Writing
<1>6. Len(todo') \in DOMAIN todo' /\ todo'[Len(todo')].file = "links"
  <2>1. Len(todo') \in Nat \ {0} /\ DOMAIN todo' = 1 .. Len(todo')
    BY <1>2, EmptySeq, LenProperties
  <2> QED BY <1>1, <2>1 DEF EndsWith
<1> QED BY <1>2, <1>4, <1>5, <1>6 DEF Linking

(* What a part does to a package: it links it, unlinks it or does not touch  *)
(* it.                                                                       *)
LinkedFor(f, p) ==
  /\ f.links[p] = Entry(p) /\ Entry(p) # NoEntry
  /\ p \in NpmPackages => f.package.dependencies[p] = Local /\ p \in f.workspace.packages
  /\ p \in SharedNpm => f.workspace.overrides[p] = Local
  /\ p \in ComposerPackages => f.composer.repositories[p] = Local
UnlinkedFor(f, p) ==
  /\ f.links[p] = NoEntry /\ p \notin f.workspace.packages
  /\ p \in NpmPackages => f.package.dependencies[p] # Local
  /\ p \in SharedNpm => /\ f.package.overrides[p] = files.package.overrides[p]
                        /\ f.workspace.overrides[p] \in {Absent, files.links[p].override}
  /\ p \in ComposerPackages => f.composer.repositories[p] \in {Absent, files.links[p].repository}
Untouched(f, p) ==
  SameAs(f, p) /\ f.links[p] = files.links[p] /\ (p \in f.workspace.packages <=> p \in files.workspace.packages)

LEMMA EntryIsSome == ASSUME LinkerTyped, NEW p \in Packages PROVE Entry(p) # NoEntry
<1>1. CASE Tracked(p)
  BY <1>1 DEF Entry, Tracked
<1>2. CASE ~Tracked(p)
  <2>1. /\ Entry(p).npm = IF p \in NpmPackages THEN NpmRange(p) ELSE Absent
        /\ Entry(p).composer = IF p \in ComposerPackages THEN ComposerRange(p) ELSE Absent
    BY <1>2 DEF Entry, Found
  <2>2. p \in NpmPackages => Entry(p).npm # "absent"
    BY <2>1, Ranges4 DEF NpmRange
  <2>3. p \in ComposerPackages => Entry(p).composer # "absent"
    BY <2>1, Ranges4 DEF ComposerRange
  <2> QED BY <2>2, <2>3, Ranges4 DEF Packages
<1> QED BY <1>1, <1>2

LEMMA LinkEach ==
  ASSUME LinkerTyped, NEW f, NEW S, LinkedTo(f, S), NEW p \in Packages
  PROVE  (p \in S => LinkedFor(f, p)) /\ (p \notin S => Untouched(f, p))
<1>1. ASSUME p \in S PROVE LinkedFor(f, p)
  BY <1>1, EntryIsSome, Ranges4 DEF LinkedTo, LinkedFor
<1>2. ASSUME p \notin S PROVE Untouched(f, p)
  BY <1>2, Ranges4 DEF LinkedTo, Untouched, SameAs
<1> QED BY <1>1, <1>2

LEMMA UnlinkEach ==
  ASSUME LinkerTyped, NEW f, NEW q, UnlinkedFrom(f, q), NEW p \in Packages
  PROVE  (p = q => UnlinkedFor(f, p)) /\ (p # q => Untouched(f, p))
<1>1. ASSUME p = q PROVE UnlinkedFor(f, p)
  <2>1. files.links[p] \in LinkEntries
    BY FilesTyped
  <2>2. files.links[p].npm \in {Absent, Original, Version}
    BY <2>1 DEF LinkEntries
  <2>3. p \in NpmPackages => f.package.dependencies[p] # Local
    BY <1>1, <2>2, Ranges4 DEF UnlinkedFrom, Back
  <2> QED BY <1>1, <2>3, Ranges4 DEF UnlinkedFrom, UnlinkedFor
<1>2. ASSUME p # q PROVE Untouched(f, p)
  BY <1>2, Ranges4 DEF UnlinkedFrom, Untouched, SameAs
<1> QED BY <1>1, <1>2

(* Pins that are no links.                                                   *)
LEMMA OwnPins ==
  ASSUME LinkerTyped, NEW p \in SharedNpm
  PROVE  /\ files.package.overrides[p] # Local
         /\ Pin(files, p) # Local <=> files.workspace.overrides[p] # Local
BY FilesTyped, Ranges4 DEF Pin

LEMMA TypedPins ==
  ASSUME NEW f \in LinkerFiles, NEW p \in SharedNpm
  PROVE  /\ f.package.overrides[p] # Local
         /\ Pin(f, p) # Local <=> f.workspace.overrides[p] # Local
<1>1. f.package \in PackageFile
  BY DEF LinkerFiles
<1>2. f.package.overrides[p] # Local
  BY <1>1, Ranges4 DEF PackageFile
<1> QED BY <1>2, Ranges4 DEF Pin

(* What is remembered of a package is no pin of the linker's own.            *)
LEMMA EntryIsNoLink ==
  ASSUME LinkerTyped, NEW p \in SharedNpm, files.links[p].override # Local, ~Tracked(p) => Pin(files, p) # Local
  PROVE  Entry(p).override # Local
BY DEF Entry, Found

LEMMA PlanKeepsPins ==
  ASSUME LinkerTyped, todo = <<>>, files' = files, NEW f \in LinkerFiles, Planned(todo', f), NEW p \in Packages,
         LinkedFor(f, p) \/ UnlinkedFor(f, p) \/ Untouched(f, p), NoLinkIsPinned(p)
  PROVE  NoLinkIsPinned(p)'
<1> SUFFICES ASSUME p \in SharedNpm PROVE NoLinkIsPinned(p)'
  BY DEF NoLinkIsPinned
<1>1. /\ files.links[p].override # Local /\ (~Tracked(p) => Pin(files, p) # Local)
      /\ files.links[p] = NoEntry => Pin(files, p) # Local
  BY FinalAtRest DEF NoLinkIsPinned, Tracked, Linking, Pin
<1>2. files.package.overrides[p] # Local /\ (Pin(files, p) # Local <=> files.workspace.overrides[p] # Local)
  BY OwnPins
<1>3. f.package.overrides[p] # Local /\ (Pin(f, p) # Local <=> f.workspace.overrides[p] # Local)
  BY TypedPins
<1>4. /\ f.links[p] = NoEntry => f.workspace.overrides[p] # Local
      /\ f.links[p].override # Local
      /\ ~Tracked(p) /\ f.links[p] = NoEntry => f.workspace.overrides[p] # Local
  <2>1. CASE LinkedFor(f, p)
    BY <1>1, <2>1, EntryIsNoLink DEF LinkedFor
  <2>2. CASE UnlinkedFor(f, p)
    BY <1>1, <2>2, Ranges4 DEF UnlinkedFor
  <2>3. CASE Untouched(f, p)
    BY <1>1, <1>2, <2>3 DEF Untouched, SameAs
  <2> QED BY <2>1, <2>2, <2>3
<1>5. /\ Final(todo)'.package = f.package /\ Final(todo)'.workspace = f.workspace /\ Final(todo)'.links = f.links
      /\ \A i \in DOMAIN todo' : todo'[i].file = "workspace" => todo'[i].content = f.workspace
      /\ Linking(todo, p)' <=> f.links[p] # NoEntry
  BY PlanFacts
<1>6. Final(todo)'.links[p] = NoEntry => Pin(Final(todo), p)' # Local
  BY <1>3, <1>4, <1>5 DEF Pin
<1>7. ~Tracked(p)' /\ ~Linking(todo, p)' =>
        /\ Pin(files, p)' # Local
        /\ \A i \in DOMAIN todo' : todo'[i].file = "workspace" => todo'[i].content.overrides[p] # Local
  BY <1>1, <1>4, <1>5 DEF Tracked, Pin
<1> QED BY <1>1, <1>4, <1>5, <1>6, <1>7 DEF NoLinkIsPinned

LEMMA PlanKeepsWhole ==
  ASSUME LinkerTyped, todo = <<>>, files' = files, NEW f \in LinkerFiles, Planned(todo', f), NEW p \in Packages,
         \/ LinkedFor(f, p)
         \/ UnlinkedFor(f, p) /\ (p \in NpmPackages => todo'[1].file = "package")
         \/ Untouched(f, p)
  PROVE  /\ Whole(Final(todo), p) => Whole(Final(todo), p)' /\ Unbroken(p)'
         /\ Resolved(Final(todo), p) => Resolved(Final(todo), p)'
<1>1. /\ Final(todo)'.package = f.package /\ Final(todo)'.composer = f.composer
      /\ Final(todo)'.workspace = f.workspace /\ Final(todo)'.links = f.links
      /\ \A i \in DOMAIN todo' : /\ todo'[i].file = "workspace" => todo'[i].content = f.workspace
                                 /\ todo'[i].file = "package" => todo'[i].content = f.package
      /\ Linking(todo, p)' <=> f.links[p] # NoEntry
  BY PlanFacts
<1>2. /\ Whole(Final(todo), p) <=> Whole(files, p)
      /\ Resolved(Final(todo), p) <=> Resolved(files, p)
  BY FinalAtRest DEF Whole, Resolved, Listed
<1>3. /\ Whole(Final(todo), p)' <=> Whole(f, p)
      /\ Resolved(Final(todo), p)' <=> Resolved(f, p)
  BY <1>1 DEF Whole, Resolved, Listed
<1>4. Whole(files, p) => Whole(f, p)
  BY Ranges4 DEF Whole, Listed, LinkedFor, UnlinkedFor, Untouched, SameAs
<1>5. Resolved(files, p) => Resolved(f, p)
  BY Ranges4 DEF Resolved, Listed, LinkedFor, UnlinkedFor, Untouched, SameAs
<1>6. ASSUME Whole(files, p) PROVE Unbroken(p)'
  <2> SUFFICES ASSUME p \in NpmPackages PROVE Unbroken(p)'
    BY DEF Unbroken
  <2>1. ASSUME f.links[p] # NoEntry, Tracked(p) PROVE Listed(files.workspace, p) /\ Listed(f.workspace, p)
    BY <1>4, <1>6, <2>1 DEF Whole, Tracked
  <2>2. ASSUME f.links[p] = NoEntry
        PROVE  /\ f.package.dependencies[p] # Local
               /\ \/ files.package.dependencies[p] # Local
                  \/ Tracked(p) /\ Listed(files.workspace, p) /\ todo'[1].file = "package"
    <3>1. f.package.dependencies[p] # Local
      BY <1>4, <1>6, <2>2 DEF Whole
    <3>2. files.package.dependencies[p] = Local => Tracked(p) /\ Listed(files.workspace, p)
      BY <1>6 DEF Whole, Tracked
    <3>3. files.package.dependencies[p] = Local => UnlinkedFor(f, p)
      BY <2>2, <3>1 DEF LinkedFor, Untouched, SameAs
    <3>4. UnlinkedFor(f, p) => ~LinkedFor(f, p)
      BY DEF UnlinkedFor, LinkedFor
    <3>5. files.package.dependencies[p] = Local => ~Untouched(f, p)
      BY <3>1 DEF Untouched, SameAs
    <3> QED BY <3>1, <3>2, <3>3, <3>4, <3>5
  <2>3. files' = files /\ (Tracked(p)' <=> Tracked(p)) /\ (Listed(files.workspace, p)' <=> Listed(files.workspace, p))
    BY DEF Tracked, Listed
  <2>4. Linking(todo, p)' /\ Tracked(p)' =>
          /\ Listed(files.workspace, p)'
          /\ \A i \in DOMAIN todo' : todo'[i].file = "workspace" => Listed(todo'[i].content, p)
    BY <1>1, <2>1, <2>3
  <2>5. ~Linking(todo, p)' =>
          /\ \/ files'.package.dependencies[p] # Local
             \/ Tracked(p)' /\ Listed(files.workspace, p)' /\ todo'[1].file = "package"
          /\ \A i \in DOMAIN todo' : todo'[i].file = "package" => todo'[i].content.dependencies[p] # Local
    BY <1>1, <2>2, <2>3
  <2> QED BY <2>4, <2>5 DEF Unbroken, Listed
<1> QED BY <1>2, <1>3, <1>4, <1>5, <1>6
-----------------------------------------------------------------------------
LEMMA PlanKeepsPackage ==
  ASSUME LinkerTyped, todo = <<>>, files' = files, crashes' = crashes, lost' = lost,
         NEW f \in LinkerFiles, Planned(todo', f), NEW p \in Packages,
         \/ LinkedFor(f, p)
         \/ UnlinkedFor(f, p) /\ (p \in NpmPackages => todo'[1].file = "package")
         \/ Untouched(f, p),
         PackageResolves(p)
  PROVE  PackageResolves(p)'
<1>1. crashes = 0 => Whole(Final(todo), p)' /\ Unbroken(p)'
  BY PlanKeepsWhole DEF PackageResolves
<1>2. crashes <= 1 /\ p \notin lost => Resolved(Final(todo), p)'
  BY PlanKeepsWhole DEF PackageResolves
<1>3. p \notin lost => NoLinkIsPinned(p)'
  BY PlanKeepsPins DEF PackageResolves
<1> QED BY <1>1, <1>2, <1>3 DEF PackageResolves

LEMMA PlanKeepsStyle ==
  ASSUME LinkerTyped, todo = <<>>, files' = files, NEW f \in LinkerFiles, Planned(todo', f), Styled,
         Pinned(f.workspace), NoOwnRepository(f.links)
  PROVE  Styled'
<1>1. \A i \in DOMAIN todo' : /\ todo'[i].file = "workspace" => todo'[i].content = f.workspace
                              /\ todo'[i].file = "links" => todo'[i].content = f.links
  BY PlanFacts
<1> QED BY <1>1 DEF Styled, Pinned, NoOwnRepository

LEMMA OwnEntries ==
  ASSUME PackagesAssumption, NoOwnRepository(files.links), NEW m \in Modules
  PROVE  Entry(m).repository = Absent
<1>1. m \notin SharedComposer
  BY DEF SharedComposer
<1> QED BY <1>1 DEF Entry, Found, NoOwnRepository

LEMMA BeginKeepsResolve ==
  ASSUME LinkerTyped, PackagesAssumption, ResolveInv, Begin
  PROVE  ResolveInv'
<1>1. /\ todo = <<>> /\ script # <<>> /\ script' = Tail(script) /\ Head(script) \in LinkerParts
      /\ files' = files /\ command' = command /\ crashes' = crashes /\ lost' = lost
  BY BeginPlans
<1>2. crashes' \in Nat /\ (crashes' = 0 => lost' = {})
  BY <1>1 DEF ResolveInv
<1>3. Pinned(files.workspace) /\ NoOwnRepository(files.links) /\ Styled /\ Modules \subseteq Packages
  BY DEF ResolveInv, Styled, PackagesAssumption
<1>4. /\ script \in Seq(LinkerParts) /\ Len(script) \in Nat \ {0} /\ DOMAIN script = 1 .. Len(script)
      /\ Head(script) = script[1] /\ DOMAIN script' = 1 .. Len(script) - 1
      /\ \A i \in 1 .. Len(script) - 1 : script'[i] = script[i + 1]
  <2>1. script \in Seq(LinkerParts)
    BY DEF LinkerTyped
  <2>2. Len(script) \in Nat \ {0} /\ DOMAIN script = 1 .. Len(script)
    BY <1>1, <2>1, EmptySeq, LenProperties
  <2>3. /\ Tail(script) \in Seq(LinkerParts) /\ Len(Tail(script)) = Len(script) - 1
        /\ \A i \in 1 .. Len(script) - 1 : Tail(script)[i] = script[i + 1]
    BY <1>1, <2>1, HeadTailProperties
  <2>4. DOMAIN Tail(script) = 1 .. Len(script) - 1
    BY <2>3, LenProperties
  <2>5. Head(script) = script[1]
    OBVIOUS
  <2> QED BY <1>1, <2>1, <2>2, <2>3, <2>4, <2>5
<1>5. ASSUME NEW S \in SUBSET Packages, LinkPlan(todo', S), ~(Head(script).op \in {"disable", "disable-shared"})
      PROVE  ResolveInv'
  <2>1. PICK f \in LinkerFiles : Planned(todo', f) /\ LinkedTo(f, S)
    BY <1>5 DEF LinkPlan
  <2>2. ASSUME NEW p \in Packages PROVE PackageResolves(p)'
    <3>1. LinkedFor(f, p) \/ Untouched(f, p)
      BY <2>1, LinkEach
    <3>2. PackageResolves(p)
      BY DEF ResolveInv
    <3> QED BY <1>1, <2>1, <3>1, <3>2, PlanKeepsPackage
  <2>3. Pinned(f.workspace)
    BY <1>3, <2>1 DEF Pinned, LinkedTo
  <2>4. NoOwnRepository(f.links)
    <3>1. ASSUME NEW m \in Modules PROVE f.links[m].repository = Absent
      BY <1>3, <2>1, OwnEntries DEF LinkedTo, NoOwnRepository
    <3> QED BY <3>1 DEF NoOwnRepository
  <2>5. Styled'
    BY <1>1, <1>3, <2>1, <2>3, <2>4, PlanKeepsStyle
  <2>6. command # "reset"
    BY <1>4, <1>5 DEF ResolveInv, Resetting
  <2>7. Resetting'
    BY <1>1, <2>6 DEF Resetting
  <2> QED BY <1>2, <2>2, <2>5, <2>7 DEF ResolveInv
<1>6. ASSUME NEW q \in Packages, q = Head(script).package, UnlinkPlan(todo', q)
      PROVE  ResolveInv'
  <2>1. PICK f \in LinkerFiles : /\ Planned(todo', f) /\ UnlinkedFrom(f, q)
                                 /\ q \in NpmPackages => todo'[1].file = "package"
    BY <1>6 DEF UnlinkPlan
  <2>2. ASSUME NEW p \in Packages PROVE (p = q => UnlinkedFor(f, p)) /\ (p # q => Untouched(f, p))
    BY <2>1, UnlinkEach
  <2>3. ASSUME NEW p \in Packages PROVE PackageResolves(p)'
    <3>1. PackageResolves(p)
      BY DEF ResolveInv
    <3> QED BY <1>1, <2>1, <2>2, <3>1, PlanKeepsPackage
  <2>4. Pinned(f.workspace)
    <3>1. ASSUME NEW p \in SharedNpm, p \in f.workspace.packages PROVE f.workspace.overrides[p] = Local
      <4>1. p \in files.workspace.packages /\ p # q
        BY <2>1, <3>1 DEF UnlinkedFrom
      <4> QED BY <1>3, <2>1, <4>1 DEF UnlinkedFrom, Pinned
    <3> QED BY <3>1 DEF Pinned
  <2>5. NoOwnRepository(f.links)
    BY <1>3, <2>1, Ranges4 DEF NoOwnRepository, UnlinkedFrom
  <2>6. Styled'
    BY <1>1, <1>3, <2>1, <2>4, <2>5, PlanKeepsStyle
  <2>7. Final(todo)'.package = f.package /\ Final(todo)'.composer = f.composer
        /\ Final(todo)'.workspace = f.workspace /\ Final(todo)'.links = f.links
    BY <1>1, <2>1, PlanFacts
  <2>8. Unlinked(f, q)
    <3>1. UnlinkedFor(f, q)
      BY <2>2
    <3>2. q \in SharedNpm /\ q \notin lost => Pin(f, q) # Local
      <4> SUFFICES ASSUME q \in SharedNpm, q \notin lost PROVE Pin(f, q) # Local
        OBVIOUS
      <4>1. files.links[q].override # Local
        BY DEF ResolveInv, PackageResolves, NoLinkIsPinned
      <4>2. f.workspace.overrides[q] # Local
        BY <3>1, <4>1, Ranges4 DEF UnlinkedFor
      <4> QED BY <4>2, TypedPins
    <3>3. q \in Modules /\ q \in ComposerPackages => f.composer.repositories[q] = Absent
      BY <1>3, <3>1 DEF UnlinkedFor, NoOwnRepository
    <3> QED BY <3>1, <3>2, <3>3 DEF UnlinkedFor, Unlinked
  <2>9. ASSUME NEW p \in Packages, p # q, Unlinked(Final(todo), p) PROVE Unlinked(f, p)
    <3>1. Untouched(f, p)
      BY <2>2, <2>9
    <3>2. Unlinked(files, p)
      BY <1>1, <2>9, FinalAtRest DEF Unlinked, Pin
    <3> QED BY <3>1, <3>2, Ranges4 DEF Untouched, SameAs, Unlinked, Pin
  <2>10. Resetting'
    <3> SUFFICES ASSUME command = "reset" PROVE Resetting'
      BY <1>1 DEF Resetting
    <3>1. /\ \A i \in DOMAIN script : script[i].op \in {"disable", "disable-shared"}
          /\ \A p \in Packages : Unlinked(Final(todo), p) \/ \E i \in DOMAIN script : script[i].package = p
      BY DEF ResolveInv, Resetting
    <3>2. \A i \in DOMAIN script' : i + 1 \in DOMAIN script /\ script'[i] = script[i + 1]
      BY <1>4
    <3>3. ASSUME NEW p \in Packages PROVE Unlinked(f, p) \/ \E i \in DOMAIN script' : script'[i].package = p
      <4>1. CASE p = q
        BY <2>8, <4>1
      <4>2. CASE p # q /\ Unlinked(Final(todo), p)
        BY <2>9, <4>2
      <4>3. CASE p # q /\ \E i \in DOMAIN script : script[i].package = p
        <5>1. PICK i \in DOMAIN script : script[i].package = p
          BY <4>3
        <5>2. i # 1
          BY <1>4, <1>6, <4>3, <5>1
        <5>3. i - 1 \in DOMAIN script' /\ script'[i - 1] = script[i]
          BY <1>4, <5>2
        <5> QED BY <5>1, <5>3
      <4> QED BY <3>1, <4>1, <4>2, <4>3
    <3>4. \A p \in Packages : Unlinked(f, p) => Unlinked(Final(todo), p)'
      BY <1>1, <2>7 DEF Unlinked, Pin
    <3>5. \A i \in DOMAIN script' : script'[i].op \in {"disable", "disable-shared"}
      BY <3>1, <3>2
    <3> QED BY <3>3, <3>4, <3>5 DEF Resetting
  <2> QED BY <1>2, <2>3, <2>6, <2>10 DEF ResolveInv
<1> QED BY <1>5, <1>6, BeginPlans

-----------------------------------------------------------------------------
LEMMA FinalStopped ==
  ASSUME todo' = <<>>
  PROVE  /\ Final(todo)'.package = files'.package /\ Final(todo)'.composer = files'.composer
         /\ Final(todo)'.workspace = files'.workspace /\ Final(todo)'.links = files'.links
<1>1. DOMAIN todo' = {}
  OBVIOUS
<1>2. \A name : FinalFile(todo, name)' = files'[name]
  BY <1>1 DEF FinalFile
<1> QED BY <1>2 DEF Final, FileNames

LEMMA WriteKeepsResolve ==
  ASSUME LinkerTyped, InOrder(todo), ResolveInv, WriteFile
  PROVE  ResolveInv'
<1>1. /\ todo # <<>> /\ todo' = Tail(todo) /\ files' \in LinkerFiles
      /\ \A name \in FileNames : files'[name] = IF name = todo[1].file THEN todo[1].content ELSE files[name]
      /\ UNCHANGED <<script, original, lost, stray>>
  BY Rewritten
<1>2. command' = command /\ crashes' = crashes
  BY DEF WriteFile
<1>3. /\ Len(todo) \in Nat \ {0} /\ DOMAIN todo = 1 .. Len(todo)
      /\ DOMAIN todo' = 1 .. Len(todo) - 1 /\ Len(todo') = Len(todo) - 1
      /\ \A i \in 1 .. Len(todo) - 1 : todo'[i] = todo[i + 1]
      /\ todo' # <<>> <=> Len(todo) > 1
      /\ todo[1].file = "links" <=> Len(todo) = 1
  BY <1>1, TodoFacts
<1>4. Final(todo)' = Final(todo)
  BY FinalStays
<1>5. /\ files'.package = IF "package" = todo[1].file THEN todo[1].content ELSE files.package
      /\ files'.workspace = IF "workspace" = todo[1].file THEN todo[1].content ELSE files.workspace
      /\ files'.links = IF "links" = todo[1].file THEN todo[1].content ELSE files.links
  BY <1>1 DEF FileNames
<1>6. /\ 1 \in DOMAIN todo
      /\ \A i \in DOMAIN todo' : i + 1 \in DOMAIN todo /\ todo'[i] = todo[i + 1]
  BY <1>3
<1>7. Len(todo) = 1 => /\ files'.package = Final(todo).package /\ files'.workspace = Final(todo).workspace
                       /\ files'.links = Final(todo).links /\ DOMAIN todo' = {}
  BY <1>3, <1>4, FinalStopped
<1>8. Len(todo) > 1 => files'.links = files.links /\ \A p : Linking(todo, p)' <=> Linking(todo, p)
  BY <1>1, <1>3, <1>5, <1>6 DEF Linking
<1>9. ASSUME NEW p \in Packages PROVE PackageResolves(p)'
  <2>0. PackageResolves(p)
    BY DEF ResolveInv
  <2>1. crashes = 0 => Whole(Final(todo), p)'
    BY <1>4, <2>0 DEF PackageResolves, Whole, Listed
  <2>2. crashes = 0 => Unbroken(p)'
    <3> SUFFICES ASSUME Unbroken(p), p \in NpmPackages, Len(todo) > 1 PROVE Unbroken(p)'
      BY <1>3, <2>0 DEF PackageResolves, Unbroken
    <3>1. (Tracked(p)' <=> Tracked(p)) /\ (Linking(todo, p)' <=> Linking(todo, p))
      BY <1>8 DEF Tracked
    <3>2. ASSUME Linking(todo, p), Tracked(p)
          PROVE  /\ Listed(files'.workspace, p)
                 /\ \A i \in DOMAIN todo' : todo'[i].file = "workspace" => Listed(todo'[i].content, p)
      <4>1. /\ Listed(files.workspace, p)
            /\ \A i \in DOMAIN todo : todo[i].file = "workspace" => Listed(todo[i].content, p)
        BY <1>1, <3>2 DEF Unbroken
      <4> QED BY <1>5, <1>6, <4>1
    <3>3. ASSUME ~Linking(todo, p)
          PROVE  /\ files'.package.dependencies[p] # Local
                 /\ \A i \in DOMAIN todo' : todo'[i].file = "package" => todo'[i].content.dependencies[p] # Local
      <4>1. /\ files.package.dependencies[p] # Local \/ todo[1].file = "package"
            /\ \A i \in DOMAIN todo : todo[i].file = "package" => todo[i].content.dependencies[p] # Local
        BY <1>1, <3>3 DEF Unbroken
      <4> QED BY <1>5, <1>6, <4>1
    <3>4. Listed(files.workspace, p)' <=> Listed(files'.workspace, p)
      BY DEF Listed
    <3> QED BY <3>1, <3>2, <3>3, <3>4 DEF Unbroken, Listed
  <2>3. crashes <= 1 /\ p \notin lost => Resolved(Final(todo), p)'
    BY <1>4, <2>0 DEF PackageResolves, Resolved, Listed
  <2>4. p \notin lost => NoLinkIsPinned(p)'
    <3> SUFFICES ASSUME NoLinkIsPinned(p), p \in SharedNpm PROVE NoLinkIsPinned(p)'
      BY <2>0 DEF PackageResolves, NoLinkIsPinned
    <3>1. /\ Final(todo).links[p] = NoEntry => Pin(Final(todo), p) # Local
          /\ files.links[p].override # Local /\ Final(todo).links[p].override # Local
      BY DEF NoLinkIsPinned
    <3>2. Final(todo)'.links[p] = NoEntry => Pin(Final(todo), p)' # Local
      BY <1>4, <3>1 DEF Pin
    <3>3. CASE Len(todo) = 1
      <4>1. files'.links[p] = NoEntry => Pin(files, p)' # Local
        BY <1>7, <3>1, <3>3 DEF Pin
      <4>2. files'.links[p].override # Local
        BY <1>7, <3>1, <3>3
      <4> QED BY <1>4, <1>7, <3>1, <3>2, <3>3, <4>1, <4>2 DEF NoLinkIsPinned, Tracked
    <3>4. CASE Len(todo) > 1
      <4>1. (Tracked(p)' <=> Tracked(p)) /\ (Linking(todo, p)' <=> Linking(todo, p)) /\ files'.links = files.links
        BY <1>8, <3>4 DEF Tracked
      <4>2. ASSUME ~Tracked(p), ~Linking(todo, p)
            PROVE  /\ Pin(files, p)' # Local
                   /\ \A i \in DOMAIN todo' : todo'[i].file = "workspace" => todo'[i].content.overrides[p] # Local
        <5>1. /\ Pin(files, p) # Local
              /\ \A i \in DOMAIN todo : todo[i].file = "workspace" => todo[i].content.overrides[p] # Local
          BY <4>2 DEF NoLinkIsPinned
        <5>2. files.workspace.overrides[p] # Local
          BY <5>1, OwnPins
        <5>3. files'.workspace.overrides[p] # Local
          BY <1>5, <1>6, <5>1, <5>2
        <5>4. Pin(files', p) # Local
          BY <1>1, <5>3, TypedPins
        <5> QED BY <1>6, <5>1, <5>4 DEF Pin
      <4> QED BY <1>4, <3>1, <3>2, <4>1, <4>2 DEF NoLinkIsPinned
    <3> QED BY <1>3, <3>3, <3>4
  <2> QED BY <1>1, <1>2, <2>1, <2>2, <2>3, <2>4 DEF PackageResolves
<1>10. Styled'
  <2>1. /\ Pinned(files.workspace) /\ NoOwnRepository(files.links)
        /\ \A i \in DOMAIN todo : /\ todo[i].file = "workspace" => Pinned(todo[i].content)
                                  /\ todo[i].file = "links" => NoOwnRepository(todo[i].content)
    BY DEF ResolveInv, Styled
  <2>2. Pinned(files'.workspace) /\ NoOwnRepository(files'.links)
    BY <1>5, <1>6, <2>1
  <2>3. \A i \in DOMAIN todo' : /\ todo'[i].file = "workspace" => Pinned(todo'[i].content)
                                /\ todo'[i].file = "links" => NoOwnRepository(todo'[i].content)
    BY <1>6, <2>1
  <2> QED BY <2>2, <2>3 DEF Styled, Pinned, NoOwnRepository
<1>11. Resetting'
  BY <1>1, <1>2, <1>4 DEF ResolveInv, Resetting, Unlinked, Pin
<1> QED BY <1>1, <1>2, <1>9, <1>10, <1>11 DEF ResolveInv
-----------------------------------------------------------------------------
(* Nothing is under way, and what is looked at is as it was.                 *)
LEMMA RestKeepsResolve ==
  ASSUME ResolveInv, todo = <<>>, todo' = <<>>, files'.package = files.package,
         files'.workspace = files.workspace, files'.composer = files.composer, files'.links = files.links,
         crashes' = crashes, lost' = lost, Resetting'
  PROVE  ResolveInv'
<1>1. /\ Final(todo).package = files.package /\ Final(todo).composer = files.composer
      /\ Final(todo).workspace = files.workspace /\ Final(todo).links = files.links
  BY FinalAtRest
<1>2. /\ Final(todo)'.package = files.package /\ Final(todo)'.composer = files.composer
      /\ Final(todo)'.workspace = files.workspace /\ Final(todo)'.links = files.links
  BY FinalStopped
<1>3. DOMAIN todo' = {}
  OBVIOUS
<1>4. ASSUME NEW p \in Packages PROVE PackageResolves(p)'
  <2>1. PackageResolves(p)
    BY DEF ResolveInv
  <2>2. crashes = 0 => Whole(Final(todo), p)' /\ Unbroken(p)'
    BY <1>1, <1>2, <2>1 DEF PackageResolves, Whole, Listed, Unbroken
  <2>3. crashes <= 1 /\ p \notin lost => Resolved(Final(todo), p)'
    BY <1>1, <1>2, <2>1 DEF PackageResolves, Resolved, Listed
  <2>4. p \notin lost => NoLinkIsPinned(p)'
    BY <1>1, <1>2, <1>3, <2>1 DEF PackageResolves, NoLinkIsPinned, Pin, Tracked, Linking
  <2> QED BY <2>2, <2>3, <2>4 DEF PackageResolves
<1>5. Styled'
  BY <1>3 DEF ResolveInv, Styled, Pinned, NoOwnRepository
<1> QED BY <1>4, <1>5 DEF ResolveInv

LEMMA UnknownKeepsResolve == ASSUME LinkerTyped, ResolveInv, EnterUnknownShared PROVE ResolveInv'
<1>1. /\ todo = <<>> /\ todo' = <<>> /\ files' = [files EXCEPT !.npmrc = FALSE] /\ command' = "failed"
      /\ crashes' = crashes /\ lost' = lost
  BY DEF EnterUnknownShared, Idle
<1>2. /\ files'.package = files.package /\ files'.composer = files.composer
      /\ files'.workspace = files.workspace /\ files'.links = files.links
  BY <1>1 DEF LinkerTyped, LinkerFiles
<1>3. Resetting'
  BY <1>1 DEF Resetting
<1> QED BY <1>1, <1>2, <1>3, RestKeepsResolve

LEMMA CrashKeepsResolve == ASSUME LinkerTyped, ResolveInv, Crash PROVE ResolveInv'
<1>1. /\ todo' = <<>> /\ crashes' = crashes + 1 /\ command' = "killed" /\ files' = files /\ lost' = lost \cup Unrecorded
  BY DEF Crash
<1>2. crashes \in Nat /\ crashes' \in Nat /\ crashes' # 0 /\ (crashes' <= 1 => crashes = 0) /\ DOMAIN todo' = {}
  BY <1>1 DEF ResolveInv
<1>3. /\ Final(todo)'.package = files.package /\ Final(todo)'.composer = files.composer
      /\ Final(todo)'.workspace = files.workspace /\ Final(todo)'.links = files.links
  BY <1>1, FinalStopped
<1>4. ASSUME NEW p \in Packages, p \notin lost' PROVE p \notin lost /\ (Tracked(p) \/ ~Linking(todo, p))
  BY <1>1, <1>4 DEF Unrecorded, Linking, Last
<1>5. ASSUME NEW p \in Packages PROVE PackageResolves(p)'
  <2>0. PackageResolves(p)
    BY DEF ResolveInv
  <2>1. crashes' <= 1 /\ p \notin lost' => Resolved(Final(todo), p)'
    <3> SUFFICES ASSUME crashes = 0, p \notin lost', p \in NpmPackages, files.package.dependencies[p] = Local
                 PROVE  files.links[p] # NoEntry /\ Listed(files.workspace, p)
      BY <1>2, <1>3 DEF Resolved, Listed
    <3>1. Whole(Final(todo), p) /\ Unbroken(p)
      BY <2>0 DEF PackageResolves
    <3>2. CASE todo = <<>>
      BY <3>1, <3>2, FinalAtRest DEF Whole, Listed
    <3>3. CASE todo # <<>>
      BY <1>4, <3>1, <3>3 DEF Unbroken, Tracked
    <3> QED BY <3>2, <3>3
  <2>2. p \notin lost' => NoLinkIsPinned(p)'
    <3> SUFFICES ASSUME p \notin lost', p \in SharedNpm PROVE NoLinkIsPinned(p)'
      BY DEF NoLinkIsPinned
    <3>1. files.links[p].override # Local /\ (~Tracked(p) /\ ~Linking(todo, p) => Pin(files, p) # Local)
      BY <1>4, <2>0 DEF PackageResolves, NoLinkIsPinned
    <3>2. files.links[p] = NoEntry => Pin(files, p) # Local
      BY <1>4, <3>1 DEF Tracked
    <3> QED BY <1>1, <1>2, <1>3, <3>1, <3>2 DEF NoLinkIsPinned, Pin, Tracked
  <2> QED BY <1>2, <2>1, <2>2 DEF PackageResolves
<1>6. Styled'
  BY <1>1, <1>2 DEF ResolveInv, Styled, Pinned, NoOwnRepository
<1>7. Resetting'
  BY <1>1 DEF Resetting
<1> QED BY <1>2, <1>5, <1>6, <1>7 DEF ResolveInv

(* Every member of a set is listed, once.                                    *)
LEMMA AllListed ==
  ASSUME NEW S, IsFiniteSet(S), NEW p \in S
  PROVE  \E i \in 1 .. Cardinality(S) : SetToSeq(S)[i] = p
<1> DEFINE n == Cardinality(S)
           f == SetToSeq(S)
<1>1. n \in Nat /\ f \in [1 .. n -> S] /\ \A i, j \in 1 .. n : f[i] = f[j] => i = j
  <2>1. Cardinality(S) \in Nat /\ ExistsBijection(1 .. Cardinality(S), S)
    BY FS_CardinalityType
  <2>2. \E g \in [1 .. Cardinality(S) -> S] : IsInjective(g)
    BY <2>1 DEF ExistsBijection, Bijection, Injection
  <2>3. f \in [1 .. n -> S] /\ IsInjective(f)
    BY <2>2 DEF SetToSeq
  <2> QED BY <2>1, <2>3 DEF IsInjective
<1> HIDE DEF n, f
<1>2. ASSUME \A i \in 1 .. n : f[i] # p PROVE FALSE
  <2>1. f \in [1 .. n -> S \ {p}]
    BY <1>1, <1>2
  <2>2. IsFiniteSet(S \ {p}) /\ Cardinality(S \ {p}) = n - 1
    BY FS_RemoveElement DEF n
  <2>3. IsFiniteSet(1 .. n) /\ Cardinality(1 .. n) = n
    <3>1. 1 .. n = 1 .. n /\ 1 \in Int /\ n \in Int
      BY <1>1
    <3>2. IsFiniteSet(1 .. n) /\ Cardinality(1 .. n) = IF 1 > n THEN 0 ELSE n - 1 + 1
      BY <3>1, FS_Interval
    <3> QED BY <1>1, <3>2
  <2>4. \E i, j \in 1 .. n : i # j /\ f[i] = f[j]
    BY <1>1, <2>1, <2>2, <2>3, FS_PigeonHole
  <2> QED BY <1>1, <2>4
<1> QED BY <1>2 DEF n, f

(* What is linked is a target of a reset, and what is not is unlinked.       *)
LEMMA NoTargetIsUnlinked ==
  ASSUME LinkerTyped, todo = <<>>, Styled, NEW p \in Packages, ~IsLinked(p)
  PROVE  Unlinked(files, p)
<1>1. p \notin files.workspace.packages
  <2> SUFFICES ASSUME p \in files.workspace.packages PROVE FALSE
    OBVIOUS
  <2>1. p \in NpmPackages
    BY FilesTyped DEF WorkspaceFile
  <2>2. p \in SharedNpm
    BY <2>1 DEF IsLinked, SharedNpm
  <2>3. files.workspace.overrides[p] = Local
    BY <2>2 DEF Styled, Pinned
  <2>4. Pin(files, p) = Local
    BY <2>3, Ranges4 DEF Pin
  <2> QED BY <2>2, <2>4 DEF IsLinked
<1> QED BY <1>1 DEF IsLinked, Unlinked, Tracked

LEMMA EnterResetKeepsResolve == ASSUME LinkerTyped, PackagesAssumption, ResolveInv, EnterReset PROVE ResolveInv'
<1> DEFINE targets == {p \in Packages : IsLinked(p)}
           S == targets \cap Modules
           T == targets \ Modules
           first == [i \in 1 .. Cardinality(S) |-> Part("disable", SetToSeq(S)[i], {})]
           rest == [i \in 1 .. Cardinality(T) |-> Part("disable-shared", SetToSeq(T)[i], {})]
           both == first \o rest
<1>1. /\ todo = <<>> /\ todo' = <<>> /\ command' = "reset" /\ script' = both
      /\ files' = files /\ crashes' = crashes /\ lost' = lost
  BY DEF EnterReset, ResetScript, Enter, Idle
<1>2. /\ first = [i \in 1 .. Cardinality(S) |-> Part("disable", SetToSeq(S)[i], {})]
      /\ rest = [i \in 1 .. Cardinality(T) |-> Part("disable-shared", SetToSeq(T)[i], {})]
      /\ S \in SUBSET Packages /\ T \in SUBSET Packages /\ S \cup T = targets
  OBVIOUS
<1>3. IsFiniteSet(S) /\ IsFiniteSet(T)
  <2>1. IsFiniteSet(Packages)
    BY DEF PackagesAssumption
  <2> HIDE DEF S, T
  <2> QED BY <1>2, <2>1, FS_Subset
<1> HIDE DEF S, T, first, rest
<1>4. first \in Seq(LinkerParts) /\ rest \in Seq(LinkerParts)
  BY <1>2, <1>3, PartTypes, PartsOf
<1>5. Cardinality(S) \in Nat /\ Cardinality(T) \in Nat
  BY <1>3, ListedOnce
<1>6. Len(first) = Cardinality(S) /\ Len(rest) = Cardinality(T)
  BY <1>2, <1>4, <1>5, LenProperties
<1>7. /\ both \in Seq(LinkerParts) /\ DOMAIN both = 1 .. Cardinality(S) + Cardinality(T)
      /\ \A i \in 1 .. Cardinality(S) + Cardinality(T) :
           both[i] = IF i <= Cardinality(S) THEN first[i] ELSE rest[i - Cardinality(S)]
  <2>1. both \in Seq(LinkerParts) /\ Len(both) = Len(first) + Len(rest)
    BY <1>4, ConcatProperties
  <2>2. \A i \in 1 .. Len(first) + Len(rest) : both[i] = IF i <= Len(first) THEN first[i] ELSE rest[i - Len(first)]
    BY <1>4, ConcatProperties
  <2> HIDE DEF both
  <2>3. DOMAIN both = 1 .. Len(both)
    BY <2>1, LenProperties
  <2> QED BY <1>6, <2>1, <2>2, <2>3
<1> HIDE DEF both
<1>8. \A i \in DOMAIN both : both[i].op \in {"disable", "disable-shared"}
  <2>1. \A i \in 1 .. Cardinality(S) : first[i].op = "disable"
    BY <1>2 DEF Part
  <2>2. \A i \in 1 .. Cardinality(T) : rest[i].op = "disable-shared"
    BY <1>2 DEF Part
  <2>3. ASSUME NEW i \in DOMAIN both PROVE both[i].op \in {"disable", "disable-shared"}
    <3>1. CASE i <= Cardinality(S)
      <4>1. i \in 1 .. Cardinality(S) /\ both[i] = first[i]
        BY <1>5, <1>7, <3>1
      <4> QED BY <2>1, <4>1
    <3>2. CASE ~(i <= Cardinality(S))
      <4>1. i - Cardinality(S) \in 1 .. Cardinality(T) /\ both[i] = rest[i - Cardinality(S)]
        BY <1>5, <1>7, <3>2
      <4> QED BY <2>2, <4>1
    <3> QED BY <3>1, <3>2
  <2> QED BY <2>3
<1>9. ASSUME NEW p \in targets PROVE \E i \in DOMAIN both : both[i].package = p
  <2>1. CASE p \in S
    <3>1. PICK i \in 1 .. Cardinality(S) : SetToSeq(S)[i] = p
      BY <1>3, <2>1, AllListed
    <3>2. first[i].package = p
      BY <1>2, <3>1 DEF Part
    <3> QED BY <1>5, <1>7, <3>2
  <2>2. CASE p \in T
    <3>1. PICK i \in 1 .. Cardinality(T) : SetToSeq(T)[i] = p
      BY <1>3, <2>2, AllListed
    <3>2. rest[i].package = p
      BY <1>2, <3>1 DEF Part
    <3>3. i + Cardinality(S) \in DOMAIN both /\ both[i + Cardinality(S)] = rest[i]
      BY <1>5, <1>7
    <3> QED BY <3>2, <3>3
  <2> QED BY <1>2, <2>1, <2>2
<1>10. Resetting'
  <2>1. ASSUME NEW p \in Packages PROVE Unlinked(Final(todo), p)' \/ \E i \in DOMAIN both : both[i].package = p
    <3>1. CASE p \in targets
      BY <1>9, <3>1
    <3>2. CASE p \notin targets
      <4>1. Unlinked(files, p)
        BY <1>1, <3>2, NoTargetIsUnlinked DEF ResolveInv
      <4> QED BY <1>1, <4>1, FinalStopped DEF Unlinked, Pin
    <3> QED BY <3>1, <3>2
  <2> QED BY <1>1, <1>8, <2>1 DEF Resetting
<1> QED BY <1>1, <1>10, RestKeepsResolve

LEMMA EnteringKeepsResolve ==
  ASSUME LinkerTyped, PackagesAssumption, ResolveInv,
         \/ \E m \in Modules, shared \in SUBSET (SharedNpm \cup SharedComposer) : EnterEnable(m, shared)
         \/ \E m \in Modules : EnterDisable(m)
         \/ \E p \in SharedNpm \cup SharedComposer : EnterEnableShared(p) \/ EnterDisableShared(p)
         \/ EnterReset
  PROVE  ResolveInv'
<1>1. ASSUME NEW parts, Enter("link", parts) PROVE ResolveInv'
  <2>1. /\ todo = <<>> /\ todo' = <<>> /\ command' = "link"
        /\ files' = files /\ crashes' = crashes /\ lost' = lost
    BY <1>1 DEF Enter, Idle
  <2>2. Resetting'
    BY <2>1 DEF Resetting
  <2> QED BY <2>1, <2>2, RestKeepsResolve
<1>2. CASE EnterReset
  BY <1>2, EnterResetKeepsResolve
<1> QED BY <1>1, <1>2 DEF EnterEnable, EnterDisable, EnterEnableShared, EnterDisableShared

LEMMA StandingKeepsResolve == ASSUME ResolveInv, UNCHANGED vars PROVE ResolveInv'
<1>1. /\ files' = files /\ todo' = todo /\ script' = script /\ command' = command
      /\ crashes' = crashes /\ lost' = lost
  BY DEF vars
<1>2. Final(todo)' = Final(todo)
  BY <1>1 DEF Final, FinalFile
<1>3. ASSUME NEW p \in Packages PROVE PackageResolves(p)'
  <2>1. PackageResolves(p)
    BY DEF ResolveInv
  <2>2. (Whole(Final(todo), p)' <=> Whole(Final(todo), p)) /\ (Resolved(Final(todo), p)' <=> Resolved(Final(todo), p))
    BY <1>2 DEF Whole, Resolved, Listed
  <2>3. Unbroken(p)' <=> Unbroken(p)
    BY <1>1 DEF Unbroken, Listed, Linking, Tracked
  <2>4. NoLinkIsPinned(p)' <=> NoLinkIsPinned(p)
    BY <1>1, <1>2 DEF NoLinkIsPinned, Pin, Linking, Tracked
  <2> QED BY <1>1, <2>1, <2>2, <2>3, <2>4 DEF PackageResolves
<1>4. Styled'
  BY <1>1 DEF ResolveInv, Styled, Pinned, NoOwnRepository
<1>5. Resetting'
  BY <1>1, <1>2 DEF ResolveInv, Resetting, Unlinked, Pin
<1> QED BY <1>1, <1>3, <1>4, <1>5 DEF ResolveInv

LEMMA ResolveInit == ASSUME PackagesAssumption, BoundsAssumption, Init PROVE ResolveInv
<1>1. LinkerInv
  BY InitHolds
<1>2. todo = <<>> /\ command = "none" /\ crashes = 0 /\ lost = {} /\ DOMAIN todo = {}
  BY DEF Init
<1>3. /\ \A p \in NpmPackages : files.package.dependencies[p] \in {Original, Absent}
      /\ \A p \in SharedNpm : /\ files.package.overrides[p] \in {Original, Absent}
                              /\ files.workspace.overrides[p] \in {Original, Absent}
      /\ files.workspace.packages = {} /\ files.links = [p \in Packages |-> NoEntry]
  BY DEF Init
<1>4. /\ Final(todo).package = files.package /\ Final(todo).composer = files.composer
      /\ Final(todo).workspace = files.workspace /\ Final(todo).links = files.links
  BY <1>2, FinalAtRest
<1>5. ASSUME NEW p \in Packages PROVE PackageResolves(p)
  <2>1. Whole(Final(todo), p) /\ Resolved(Final(todo), p)
    BY <1>3, <1>4, Ranges4 DEF Whole, Resolved
  <2>2. Unbroken(p)
    BY <1>2 DEF Unbroken
  <2>3. NoLinkIsPinned(p)
    BY <1>2, <1>3, <1>4, Ranges4 DEF NoLinkIsPinned, Pin, Tracked
  <2> QED BY <2>1, <2>2, <2>3 DEF PackageResolves
<1>6. Styled
  <2>1. \A m \in Modules : files.links[m].repository = Absent
    BY <1>3, Ranges4 DEF PackagesAssumption
  <2> QED BY <1>2, <1>3, <2>1 DEF Styled, Pinned, NoOwnRepository
<1> QED BY <1>2, <1>5, <1>6 DEF ResolveInv, Resetting

LEMMA ResolveStep == PackagesAssumption /\ LinkerInv /\ ResolveInv /\ [Next]_vars => ResolveInv'
<1> SUFFICES ASSUME PackagesAssumption, LinkerTyped, InOrder(todo), ResolveInv, [Next]_vars PROVE ResolveInv'
  BY DEF LinkerInv
<1>1. CASE \/ \E m \in Modules, shared \in SUBSET (SharedNpm \cup SharedComposer) : EnterEnable(m, shared)
           \/ \E m \in Modules : EnterDisable(m)
           \/ \E p \in SharedNpm \cup SharedComposer : EnterEnableShared(p) \/ EnterDisableShared(p)
           \/ EnterReset
  BY <1>1, EnteringKeepsResolve
<1>2. CASE EnterUnknownShared
  BY <1>2, UnknownKeepsResolve
<1>3. CASE Begin
  BY <1>3, BeginKeepsResolve
<1>4. CASE WriteFile
  BY <1>4, WriteKeepsResolve
<1>5. CASE Crash
  BY <1>5, CrashKeepsResolve
<1>6. CASE UNCHANGED vars
  BY <1>6, StandingKeepsResolve
<1> QED BY <1>1, <1>2, <1>3, <1>4, <1>5, <1>6 DEF Next

LEMMA InvResolves == ASSUME LinkerInv, ResolveInv PROVE LinksResolve /\ ResetUnlinks
<1>1. ASSUME Idle
      PROVE  /\ Final(todo).package = files.package /\ Final(todo).composer = files.composer
             /\ Final(todo).workspace = files.workspace /\ Final(todo).links = files.links
  BY <1>1, FinalAtRest DEF Idle
<1>2. LinksResolve
  <2> SUFFICES ASSUME Idle, crashes <= 1, NEW p \in NpmPackages \ lost, files.package.dependencies[p] = Local
               PROVE  Tracked(p) /\ p \in files.workspace.packages /\ (p \in SharedNpm => Pin(files, p) = Local)
    BY DEF LinksResolve
  <2>1. Resolved(Final(todo), p)
    BY Ranges4 DEF ResolveInv, PackageResolves
  <2>2. files.links[p] # NoEntry /\ Listed(files.workspace, p)
    BY <1>1, <2>1 DEF Resolved, Listed
  <2> QED BY <2>2, Ranges4 DEF Listed, Tracked, Pin
<1>3. ResetUnlinks
  <2> SUFFICES ASSUME Idle, command = "reset"
               PROVE  /\ files.workspace.packages = {}
                      /\ \A p \in Packages : ~Tracked(p)
                      /\ \A p \in NpmPackages : files.package.dependencies[p] # Local
                      /\ \A p \in SharedNpm \ lost : Pin(files, p) # Local
                      /\ \A p \in Modules \cap ComposerPackages : files.composer.repositories[p] = Absent
    BY DEF ResetUnlinks
  <2>1. DOMAIN script = {}
    BY DEF Idle
  <2>2. \A p \in Packages : Unlinked(Final(todo), p)
    BY <2>1 DEF ResolveInv, Resetting
  <2>3. \A p \in Packages : Unlinked(files, p)
    BY <1>1, <2>2 DEF Unlinked, Pin
  <2>4. files.workspace.packages \subseteq Packages
    BY FilesTyped, Ranges4 DEF LinkerInv, WorkspaceFile
  <2> QED BY <2>3, <2>4, Ranges4 DEF Unlinked, Tracked
<1> QED BY <1>2, <1>3

(* What the console takes from packages/ is in the workspace and recorded,   *)
(* whichever commands are entered, after one was killed too, and a reset     *)
(* leaves no link behind (package-linker.mjs, resetLocalLinks).              *)
THEOREM LinksComeToResolve ==
  PackagesAssumption /\ BoundsAssumption /\ Init /\ [][Next]_vars => [](LinksResolve /\ ResetUnlinks)
<1> SUFFICES ASSUME PackagesAssumption, BoundsAssumption
             PROVE  Init /\ [][Next]_vars => [](LinksResolve /\ ResetUnlinks)
  OBVIOUS
<1>1. Init => LinkerInv /\ ResolveInv
  BY InitHolds, ResolveInit
<1>2. LinkerInv /\ ResolveInv /\ [Next]_vars => LinkerInv' /\ ResolveInv'
  BY StepHolds, ResolveStep
<1>3. LinkerInv /\ ResolveInv => LinksResolve /\ ResetUnlinks
  BY InvResolves
<1> QED
  BY <1>1, <1>2, <1>3, PTL
-----------------------------------------------------------------------------
(* Installing what is linked.  While an install runs the files stay as they  *)
(* are; what the last one left is so until a command is entered.             *)
NpmInstalled ==
  \A p \in NpmPackages : (installed.npm[p] = Local) = (files.package.dependencies[p] = Local)
ComposerInstalled(S) ==
  \A p \in S : (installed.composer[p] = Local) = (files.composer.repositories[p] # Absent)

InstallInv ==
  /\ crashes = 0
  /\ installed \in [npm : [NpmPackages -> {Original, Local}], composer : [ComposerPackages -> {Original, Local}]]
  /\ waiting = NoInstall \/ waiting \subseteq Packages
  /\ running \in {"none", "pnpm", "composer"}
  /\ running # "none" => Idle /\ waiting # NoInstall
  /\ waiting # NoInstall /\ scope = "linked" =>
       Idle /\ waiting = {p \in Modules \cup SharedComposer : IsLinked(p)}
  /\ running = "composer" => NpmInstalled
  /\ fresh # NoInstall =>
       /\ Idle /\ NpmInstalled /\ fresh \subseteq ComposerPackages /\ ComposerInstalled(fresh)
       /\ waiting = NoInstall /\ scope = "linked" =>
            \A p \in ComposerPackages : IsLinked(p) => installed.composer[p] = Local

(* Nothing was killed: what is linked anywhere is recorded, or is a path     *)
(* repository.                                                               *)
LEMMA LinkedIsRecorded ==
  ASSUME ResolveInv, Idle, crashes = 0, NEW p \in Packages
  PROVE  /\ p \in NpmPackages /\ files.package.dependencies[p] = Local => Tracked(p)
         /\ p \in SharedNpm /\ Pin(files, p) = Local => files.package.dependencies[p] = Local
         /\ p \in ComposerPackages /\ IsLinked(p) => files.composer.repositories[p] # Absent
<1>1. /\ Final(todo).package = files.package /\ Final(todo).composer = files.composer
      /\ Final(todo).workspace = files.workspace /\ Final(todo).links = files.links
  BY FinalAtRest DEF Idle
<1>2. Whole(files, p) /\ (files.links[p] = NoEntry /\ p \in SharedNpm => Pin(files, p) # Local)
  BY <1>1 DEF ResolveInv, PackageResolves, Whole, Listed, NoLinkIsPinned, Pin
<1>3. p \in NpmPackages /\ files.package.dependencies[p] = Local => Tracked(p)
  BY <1>2 DEF Whole, Tracked
<1>4. p \in SharedNpm /\ Pin(files, p) = Local => files.package.dependencies[p] = Local
  BY <1>2, Ranges4 DEF Whole
<1>5. p \in ComposerPackages /\ IsLinked(p) => files.composer.repositories[p] # Absent
  <2> SUFFICES ASSUME p \in ComposerPackages, IsLinked(p), files.composer.repositories[p] = Absent PROVE FALSE
    OBVIOUS
  <2>1. files.links[p] = NoEntry
    BY <1>2, Ranges4 DEF Whole
  <2>2. p \in NpmPackages => files.package.dependencies[p] # Local /\ p \notin files.workspace.packages
    BY <1>2, <2>1 DEF Whole
  <2> QED BY <1>2, <2>1, <2>2 DEF IsLinked, Tracked
<1> QED BY <1>3, <1>4, <1>5

(* A command's own steps, and the steps of an install.                       *)
LEMMA InstallSteps ==
  ASSUME InstallNext
  PROVE  \/ /\ \/ \E m \in Modules, shared \in SUBSET (SharedNpm \cup SharedComposer) : EnterEnable(m, shared)
               \/ \E m \in Modules : EnterDisable(m)
               \/ \E p \in SharedNpm \cup SharedComposer : EnterEnableShared(p) \/ EnterDisableShared(p)
               \/ EnterReset
            /\ Free /\ fresh' = NoInstall /\ running' = running /\ installed' = installed
            /\ waiting' # NoInstall =>
                 scope' = "named" /\ (waiting' \subseteq Packages \/ \E m \in Modules : waiting' = {m})
         \/ LinkStep
         \/ UNCHANGED vars /\ \/ \E names \in SUBSET (Modules \cup SharedComposer) : EnterInstall(names)
                              \/ StartPnpm \/ PnpmSucceeds \/ ComposerSucceeds \/ Fails \/ Doctor
<1>1. ASSUME NEW m \in Modules, NEW shared \in SUBSET (SharedNpm \cup SharedComposer), LinkEnable(m, shared)
      PROVE  /\ EnterEnable(m, shared) /\ Free /\ fresh' = NoInstall /\ running' = running /\ installed' = installed
             /\ waiting' # NoInstall => scope' = "named" /\ waiting' = {m}
  BY <1>1 DEF LinkEnable, With
<1>2. ASSUME NEW m \in Modules, Unlink(EnterDisable(m))
      PROVE  /\ EnterDisable(m) /\ Free /\ fresh' = NoInstall /\ running' = running /\ installed' = installed
             /\ waiting' = NoInstall
  BY <1>2 DEF Unlink, Free
<1>3. ASSUME NEW p \in SharedNpm \cup SharedComposer, LinkEnableShared(p)
      PROVE  /\ EnterEnableShared(p) /\ Free /\ fresh' = NoInstall /\ running' = running /\ installed' = installed
             /\ waiting' # NoInstall => scope' = "named" /\ waiting' \subseteq Packages
  BY <1>3, Ranges4 DEF LinkEnableShared, With
<1>4. ASSUME NEW p \in SharedNpm \cup SharedComposer, Unlink(EnterDisableShared(p))
      PROVE  /\ EnterDisableShared(p) /\ Free /\ fresh' = NoInstall /\ running' = running /\ installed' = installed
             /\ waiting' = NoInstall
  BY <1>4 DEF Unlink, Free
<1>5. ASSUME LinkReset
      PROVE  /\ EnterReset /\ Free /\ fresh' = NoInstall /\ running' = running /\ installed' = installed
             /\ waiting' # NoInstall => scope' = "named" /\ waiting' \subseteq Packages
  BY <1>5 DEF LinkReset, With
<1>6. \/ \E names \in SUBSET (Modules \cup SharedComposer) : EnterInstall(names)
      \/ StartPnpm \/ PnpmSucceeds \/ ComposerSucceeds \/ Fails \/ Doctor
      => UNCHANGED vars
  BY DEF EnterInstall, StartPnpm, PnpmSucceeds, ComposerSucceeds, Fails, Doctor
<1> QED BY <1>1, <1>2, <1>3, <1>4, <1>5, <1>6 DEF InstallNext

LEMMA InstallIsNext == InstallNext => [Next]_vars
<1> SUFFICES ASSUME InstallNext PROVE [Next]_vars
  OBVIOUS
<1>1. LinkStep => Next
  BY DEF LinkStep, Next
<1> QED BY <1>1, InstallSteps DEF Next

LEMMA InstallHolds ==
  ASSUME PackagesAssumption, LinkerInv, ResolveInv, InstallInv, InstallNext
  PROVE  InstallInv'
<1>0. Modules \subseteq Packages /\ SharedComposer \subseteq Packages /\ "no install" \notin Packages
  BY Ranges4 DEF PackagesAssumption
<1>1. CASE /\ \/ \E m \in Modules, shared \in SUBSET (SharedNpm \cup SharedComposer) : EnterEnable(m, shared)
              \/ \E m \in Modules : EnterDisable(m)
              \/ \E p \in SharedNpm \cup SharedComposer : EnterEnableShared(p) \/ EnterDisableShared(p)
              \/ EnterReset
           /\ Free /\ fresh' = NoInstall /\ running' = running /\ installed' = installed
           /\ waiting' # NoInstall =>
                scope' = "named" /\ (waiting' \subseteq Packages \/ \E m \in Modules : waiting' = {m})
  <2>1. crashes' = crashes
    BY <1>1 DEF EnterEnable, EnterDisable, EnterEnableShared, EnterDisableShared, EnterReset, Enter
  <2>2. waiting' = NoInstall \/ waiting' \subseteq Packages
    BY <1>0, <1>1
  <2>3. running = "none"
    BY <1>1 DEF Free
  <2> QED BY <1>1, <2>1, <2>2, <2>3 DEF InstallInv
<1>2. CASE LinkStep
  <2>1. ~Idle /\ crashes' = crashes
    BY <1>2 DEF LinkStep, Begin, WriteFile, Idle
  <2>2. running = "none" /\ fresh = NoInstall /\ ~(waiting # NoInstall /\ scope = "linked")
    BY <2>1 DEF InstallInv
  <2> QED BY <1>2, <2>1, <2>2 DEF LinkStep, installVars, InstallInv
<1>3. ASSUME UNCHANGED vars
      PROVE  /\ files' = files /\ (Idle' <=> Idle) /\ crashes' = crashes
             /\ \A p : IsLinked(p)' <=> IsLinked(p)
             /\ \A S : ComposerInstalled(S)' <=>
                         \A p \in S : (installed'.composer[p] = Local) = (files.composer.repositories[p] # Absent)
             /\ NpmInstalled' <=>
                  \A p \in NpmPackages : (installed'.npm[p] = Local) = (files.package.dependencies[p] = Local)
  BY <1>3 DEF vars, Idle, IsLinked, Tracked, Pin, ComposerInstalled, NpmInstalled
<1>4. ASSUME UNCHANGED vars, NEW names \in SUBSET (Modules \cup SharedComposer), EnterInstall(names) PROVE InstallInv'
  <2>1. /\ Free /\ waiting' = InstallModules(names) /\ scope' = (IF names = {} THEN "linked" ELSE "named")
        /\ installed' = installed /\ running' = running /\ fresh' = fresh
    BY <1>4 DEF EnterInstall
  <2>2. /\ waiting' \subseteq Packages /\ waiting' # NoInstall
        /\ scope' = "linked" => waiting' = {p \in Modules \cup SharedComposer : IsLinked(p)}
    BY <1>0, <2>1 DEF InstallModules, NoInstall
  <2>3. (NpmInstalled' <=> NpmInstalled) /\ (ComposerInstalled(fresh)' <=> ComposerInstalled(fresh))
    BY <1>3, <1>4, <2>1 DEF NpmInstalled, ComposerInstalled
  <2> QED BY <1>3, <1>4, <2>1, <2>2, <2>3 DEF InstallInv, Free
<1>5. CASE UNCHANGED vars /\ StartPnpm
  <2>1. /\ Idle /\ waiting # NoInstall /\ running' = "pnpm"
        /\ installed' = installed /\ waiting' = waiting /\ fresh' = fresh /\ scope' = scope
    BY <1>5 DEF StartPnpm
  <2>2. (NpmInstalled' <=> NpmInstalled) /\ (ComposerInstalled(fresh)' <=> ComposerInstalled(fresh))
    BY <1>3, <1>5, <2>1 DEF NpmInstalled, ComposerInstalled
  <2> QED BY <1>3, <1>5, <2>1, <2>2 DEF InstallInv
<1>6. CASE UNCHANGED vars /\ PnpmSucceeds
  <2> DEFINE npm == LocalIf({p \in NpmPackages : files.package.dependencies[p] = Local}, NpmPackages)
  <2>1. /\ running = "pnpm" /\ installed' = [installed EXCEPT !.npm = npm] /\ scope' = scope
        /\ \/ Backends(waiting) # {} /\ running' = "composer" /\ waiting' = waiting /\ fresh' = fresh
           \/ Backends(waiting) = {} /\ running' = "none" /\ waiting' = NoInstall /\ fresh' = {}
    BY <1>6 DEF PnpmSucceeds
  <2>2. /\ npm \in [NpmPackages -> {Original, Local}]
        /\ \A p \in NpmPackages : (npm[p] = Local) = (files.package.dependencies[p] = Local)
    BY Ranges4 DEF LocalIf
  <2> HIDE DEF npm
  <2>3. /\ installed' \in [npm : [NpmPackages -> {Original, Local}], composer : [ComposerPackages -> {Original, Local}]]
        /\ installed'.npm = npm /\ installed'.composer = installed.composer
    BY <2>1, <2>2 DEF InstallInv
  <2>4. NpmInstalled' /\ Idle /\ waiting # NoInstall
    BY <1>3, <1>6, <2>1, <2>2, <2>3 DEF InstallInv
  <2>5. CASE Backends(waiting) # {} /\ running' = "composer" /\ waiting' = waiting /\ fresh' = fresh
    <3>1. ComposerInstalled(fresh)' <=> ComposerInstalled(fresh)
      BY <1>3, <1>6, <2>3, <2>5 DEF ComposerInstalled
    <3> QED BY <1>3, <1>6, <2>1, <2>3, <2>4, <2>5, <3>1 DEF InstallInv
  <2>6. CASE Backends(waiting) = {} /\ running' = "none" /\ waiting' = NoInstall /\ fresh' = {}
    <3>1. ASSUME scope = "linked", NEW p \in ComposerPackages PROVE ~IsLinked(p)
      <4>1. waiting = {q \in Modules \cup SharedComposer : IsLinked(q)}
        BY <2>4, <3>1 DEF InstallInv
      <4>2. p \notin waiting /\ p \in Modules \cup SharedComposer
        BY <2>6 DEF Backends, SharedComposer
      <4> QED BY <4>1, <4>2
    <3>2. ComposerInstalled({})'
      BY DEF ComposerInstalled
    <3> QED BY <1>3, <1>6, <2>1, <2>3, <2>4, <2>6, <3>1, <3>2 DEF InstallInv, NoInstall
  <2> QED BY <2>1, <2>5, <2>6
<1>7. CASE UNCHANGED vars /\ ComposerSucceeds
  <2> DEFINE updated == WithDependencies(Backends(waiting))
             composer == [p \in ComposerPackages |->
                            IF p \notin updated THEN installed.composer[p]
                            ELSE IF files.composer.repositories[p] = Absent THEN Original ELSE Local]
  <2>1. /\ running = "composer" /\ installed' = [installed EXCEPT !.composer = composer] /\ scope' = scope
        /\ running' = "none" /\ waiting' = NoInstall /\ fresh' = updated
    BY <1>7 DEF ComposerSucceeds, InstallInv
  <2>2. updated \subseteq ComposerPackages /\ Backends(waiting) \subseteq updated
    BY Ranges4 DEF WithDependencies, Backends
  <2>3. /\ Idle /\ NpmInstalled /\ waiting # NoInstall /\ crashes = 0
        /\ installed \in [npm : [NpmPackages -> {Original, Local}], composer : [ComposerPackages -> {Original, Local}]]
    BY <2>1 DEF InstallInv
  <2> HIDE DEF updated
  <2>4. /\ composer \in [ComposerPackages -> {Original, Local}]
        /\ \A p \in updated : (composer[p] = Local) = (files.composer.repositories[p] # Absent)
    BY <2>2, <2>3, Ranges4
  <2> HIDE DEF composer
  <2>5. /\ installed' \in [npm : [NpmPackages -> {Original, Local}], composer : [ComposerPackages -> {Original, Local}]]
        /\ installed'.npm = installed.npm /\ installed'.composer = composer
    BY <2>1, <2>3, <2>4
  <2>6. NpmInstalled'
    BY <1>3, <1>7, <2>1, <2>3, <2>5 DEF NpmInstalled
  <2>7. ASSUME scope = "linked", NEW p \in ComposerPackages, IsLinked(p) PROVE installed'.composer[p] = Local
    <3>1. waiting = {q \in Modules \cup SharedComposer : IsLinked(q)}
      BY <2>3, <2>7 DEF InstallInv
    <3>2. p \in updated
      BY <2>2, <2>7, <3>1 DEF Backends, SharedComposer
    <3>3. files.composer.repositories[p] # Absent
      BY <2>3, <2>7, LinkedIsRecorded, Ranges4
    <3> QED BY <2>4, <2>5, <3>2, <3>3
  <2>8. ComposerInstalled(fresh)'
    BY <1>3, <1>7, <2>1, <2>4, <2>5 DEF ComposerInstalled
  <2> QED BY <1>3, <1>7, <2>1, <2>2, <2>3, <2>5, <2>6, <2>7, <2>8 DEF InstallInv
<1>8. CASE UNCHANGED vars /\ Fails
  BY <1>3, <1>8 DEF Fails, InstallInv
<1>9. CASE UNCHANGED vars /\ Doctor
  <2>1. UNCHANGED <<installed, waiting, running, fresh, scope>>
    BY <1>9 DEF Doctor
  <2>2. (NpmInstalled' <=> NpmInstalled) /\ (ComposerInstalled(fresh)' <=> ComposerInstalled(fresh))
    BY <1>3, <1>9, <2>1 DEF NpmInstalled, ComposerInstalled
  <2> QED BY <1>3, <1>9, <2>1, <2>2 DEF InstallInv
<1> QED BY <1>1, <1>2, <1>4, <1>5, <1>6, <1>7, <1>8, <1>9, InstallSteps

LEMMA InstallStands == ASSUME InstallInv, UNCHANGED <<vars, installVars>> PROVE InstallInv'
<1>1. UNCHANGED <<files, todo, script, crashes, installed, waiting, running, fresh, scope>>
  BY DEF vars, installVars
<1> QED BY <1>1 DEF InstallInv, NpmInstalled, ComposerInstalled, Idle, IsLinked, Tracked, Pin

LEMMA InstallStarts == ASSUME InstallInit PROVE InstallInv
<1>1. crashes = 0
  BY DEF InstallInit, Init
<1> QED BY <1>1 DEF InstallInit, InstallInv

LEMMA InstallsAsLinked == ASSUME LinkerInv, ResolveInv, InstallInv PROVE InstalledAsLinked
<1> SUFFICES ASSUME fresh # NoInstall, Free
             PROVE  /\ NpmInstalled /\ Warnings = {} /\ ComposerInstalled(fresh)
                    /\ scope = "linked" => \A p \in ComposerPackages : IsLinked(p) => installed.composer[p] = Local
  BY DEF InstalledAsLinked, NpmInstalled, ComposerInstalled
<1>1. Idle /\ crashes = 0 /\ waiting = NoInstall /\ NpmInstalled
  BY DEF InstallInv, Free
<1>2. ASSUME NEW p \in SharedNpm, Pin(files, p) = Local \/ files.package.dependencies[p] = Local
      PROVE  installed.npm[p] = Local
  <2>1. files.package.dependencies[p] = Local /\ p \in NpmPackages
    BY <1>1, <1>2, LinkedIsRecorded, Ranges4
  <2> QED BY <1>1, <2>1 DEF NpmInstalled
<1>3. ASSUME NEW p \in SharedComposer, Tracked(p) PROVE files.composer.repositories[p] # Absent
  BY <1>1, <1>3, LinkedIsRecorded, Ranges4 DEF IsLinked
<1>4. Warnings = {}
  BY <1>2, <1>3 DEF Warnings
<1> QED BY <1>1, <1>4 DEF InstallInv

(* The install's invariant, with those of the linker's files it rests on.    *)
LEMMA InstallInvInit == PackagesAssumption /\ BoundsAssumption /\ InstallInit => LinkerInv /\ ResolveInv /\ InstallInv
<1>1. InstallInit => Init
  BY DEF InstallInit
<1> QED BY <1>1, InitHolds, ResolveInit, InstallStarts

LEMMA InstallInvStep ==
  PackagesAssumption /\ LinkerInv /\ ResolveInv /\ InstallInv /\ [InstallNext]_<<vars, installVars>> =>
    LinkerInv' /\ ResolveInv' /\ InstallInv'
<1> SUFFICES ASSUME PackagesAssumption, LinkerInv, ResolveInv, InstallInv, [InstallNext]_<<vars, installVars>>
             PROVE  LinkerInv' /\ ResolveInv' /\ InstallInv'
  OBVIOUS
<1>1. [Next]_vars
  BY InstallIsNext
<1> QED BY <1>1, StepHolds, ResolveStep, InstallHolds, InstallStands

(* After an install that succeeded the console runs what its manifest links, *)
(* and the API every linked package if none was named (runInstall).          *)
THEOREM InstalledComesAsLinked ==
  PackagesAssumption /\ BoundsAssumption /\ InstallInit /\ [][InstallNext]_<<vars, installVars>> => []InstalledAsLinked
<1> SUFFICES ASSUME PackagesAssumption, BoundsAssumption
             PROVE  InstallInit /\ [][InstallNext]_<<vars, installVars>> => []InstalledAsLinked
  OBVIOUS
<1> DEFINE Inv == LinkerInv /\ ResolveInv /\ InstallInv
<1>1. InstallInit => Inv
  BY InstallInvInit
<1>2. Inv /\ [InstallNext]_<<vars, installVars>> => Inv'
  BY InstallInvStep
<1>3. Inv => InstalledAsLinked
  BY InstallsAsLinked
<1> QED
  BY <1>1, <1>2, <1>3, PTL
=============================================================================
