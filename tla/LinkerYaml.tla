------------------------------ MODULE LinkerYaml ------------------------------
(***************************************************************************)
(* scripts/package-linker.mjs reads and writes console/pnpm-workspace.yaml  *)
(* with a parser and a formatter of its own.  Somebody writes the file line *)
(* by line, in any of YAML's styles that a workspace file is likely to use; *)
(* the linker's commands then read it, change it and write it whole.  What  *)
(* the lines mean to pnpm is defined beside what the linker takes them for. *)
(***************************************************************************)
EXTENDS Naturals, SequencesExt

CONSTANTS MaxLines, MaxRewrites

VARIABLES
    text,       \* the file, a sequence of lines
    rewrites

vars == <<text, rewrites>>

Keys == {"packages", "overrides", "other"}
Names == {"p", "q"}
None == "none"

(* A scalar as it is written: plain or in quotes.  "symbol" has characters   *)
(* that have to be quoted, "word" has none, "[]" is an empty inline list.    *)
Raw(t, quoted) == [text |-> t, quoted |-> quoted]
Empty == Raw("", FALSE)
Scalars == {Raw("word", FALSE), Raw("symbol", TRUE), Raw("true", FALSE), Raw("true", TRUE), Raw("[]", FALSE)}

Line(indent, form, key, value) == [indent |-> indent, form |-> form, key |-> key, value |-> value]

-----------------------------------------------------------------------------
(* What the linker reads. *)
ParseScalar(raw) == [bool |-> raw.text = "true" /\ ~raw.quoted, text |-> raw.text]

Undefined == [kind |-> "undefined"]
ScalarOf(v) == [kind |-> "scalar", value |-> v]
ListOf(items) == [kind |-> "list", items |-> items]
MapOf(entries) == [kind |-> "map", entries |-> entries]

(* An object keeps the place of a key that is assigned again. *)
Put(object, key, value) ==
    IF \E i \in DOMAIN object : object[i].key = key
    THEN [i \in DOMAIN object |-> IF object[i].key = key THEN [key |-> key, value |-> value] ELSE object[i]]
    ELSE Append(object, [key |-> key, value |-> value])

At(object, key) ==
    LET i == SelectInSeq(object, LAMBDA e : e.key = key) IN IF i = 0 THEN Undefined ELSE object[i].value

ReadKey(doc, line) ==
    IF line.value = Empty THEN [data |-> Put(doc.data, line.key, Undefined), current |-> line.key]
    ELSE [data |-> Put(doc.data, line.key, ScalarOf(ParseScalar(line.value))), current |-> None]

ReadItem(doc, line) ==
    LET was == At(doc.data, doc.current)
    IN [doc EXCEPT !.data = Put(@, doc.current,
            ListOf(Append(IF was.kind = "list" THEN was.items ELSE <<>>, ParseScalar(line.value))))]

ReadPair(doc, line) ==
    LET was == At(doc.data, doc.current)
    IN [doc EXCEPT !.data = Put(@, doc.current,
            MapOf(Put(IF was.kind = "map" THEN was.entries ELSE <<>>, line.key, ParseScalar(line.value))))]

(* An indented line belongs to the last key that had no value, however deep  *)
(* it is; a list item that is not indented belongs to none.                  *)
ReadLine(doc, line) ==
    CASE line.form = "comment" -> doc
      [] line.form = "key" -> ReadKey(doc, line)
      [] line.form # "key" /\ (line.indent = 0 \/ doc.current = None) -> doc
      [] line.form = "item" /\ line.indent > 0 /\ doc.current # None -> ReadItem(doc, line)
      [] line.form = "pair" /\ line.indent > 0 /\ doc.current # None -> ReadPair(doc, line)

ParseSimpleYaml(lines) == FoldLeft(ReadLine, [data |-> <<>>, current |-> None], lines).data

-----------------------------------------------------------------------------
(* What it writes. *)

\* Mutant: no scalar is put in quotes.
FormatYamlValue_Plain(v) == Raw(v.text, FALSE)

FormatYamlValue(v) == Raw(v.text, ~v.bool /\ v.text \notin {"word", "true"})

FormatEntry(entry) ==
    CASE entry.value.kind = "scalar" -> <<Line(0, "key", entry.key, FormatYamlValue(entry.value.value))>>
      [] entry.value.kind = "list" ->
           <<Line(0, "key", entry.key, Empty)>>
           \o [i \in DOMAIN entry.value.items |-> Line(1, "item", None, FormatYamlValue(entry.value.items[i]))]
      [] entry.value.kind = "map" ->
           <<Line(0, "key", entry.key, Empty)>>
           \o [i \in DOMAIN entry.value.entries |->
                  Line(1, "pair", entry.value.entries[i].key, FormatYamlValue(entry.value.entries[i].value))]
      [] OTHER -> <<>>

KeyOrder == <<"packages", "linkWorkspacePackages", "preferWorkspacePackages", "overrides">>

FormatSimpleYaml(data) ==
    LET known == [i \in DOMAIN KeyOrder |-> [key |-> KeyOrder[i], value |-> At(data, KeyOrder[i])]]
        others == SelectSeq(data, LAMBDA e : ~Contains(KeyOrder, e.key))
    IN FoldLeft(LAMBDA lines, entry : lines \o FormatEntry(entry), <<>>, known \o others)

-----------------------------------------------------------------------------
(* What it changes. *)
Package == [bool |-> FALSE, text |-> "symbol"]      \* ../packages/...

(* Spreading a string takes it apart; true is no iterable, nor is an object. *)
Entries(value) ==
    CASE value.kind = "list" -> ToSet(value.items)
      [] value.kind = "scalar" -> {[bool |-> FALSE, text |-> "character"]}
      [] OTHER -> {}
Iterable(value) == value.kind # "map" /\ (value.kind = "scalar" => ~value.value.bool)

(* linkWorkspacePackages becomes deep; the patterns that come from .npmrc    *)
(* are PackageLinker's.                                                      *)
Settings == {"linkWorkspacePackages", "preferWorkspacePackages"}
EnsureWorkspaceDevelopmentSettings(data) ==
    LET linking == Put(data, "linkWorkspacePackages", ScalarOf([bool |-> FALSE, text |-> "word"]))
        preferring == Put(linking, "preferWorkspacePackages", ScalarOf([bool |-> TRUE, text |-> "true"]))
    IN IF At(data, "overrides") = Undefined THEN Put(preferring, "overrides", MapOf(<<>>)) ELSE preferring

\* Mutant: the package is all that is listed.
EnsureWorkspaceEntry_Alone(data) == Put(data, "packages", ListOf(<<Package>>))

EnsureWorkspaceEntry(data) ==
    Put(data, "packages", ListOf(SetToSeq(Entries(At(data, "packages")) \cup {Package})))

RemoveWorkspaceEntry(data) ==
    LET listed == At(data, "packages")
        left == IF listed = Undefined THEN <<>> ELSE SelectSeq(listed.items, LAMBDA item : item # Package)
    IN Put(data, "packages", IF left = <<>> THEN Undefined ELSE ListOf(left))

Linked(lines) ==
    FormatSimpleYaml(EnsureWorkspaceEntry(EnsureWorkspaceDevelopmentSettings(ParseSimpleYaml(lines))))

Write(lines) == rewrites < MaxRewrites /\ rewrites' = rewrites + 1 /\ text' = lines

Listed == At(ParseSimpleYaml(text), "packages")

Enable == Iterable(Listed) /\ Write(Linked(text))

(* A list is filtered; nothing else that is there can be. *)
Disable == Listed.kind \in {"undefined", "list"} /\ Write(FormatSimpleYaml(RemoveWorkspaceEntry(ParseSimpleYaml(text))))

-----------------------------------------------------------------------------
(* What the lines mean to YAML: nothing, a scalar, a list or a mapping.      *)
ScalarMeans(raw) ==
    CASE raw.quoted -> <<"string", raw.text>>
      [] ~raw.quoted /\ raw.text = "symbol" -> <<"error", "">>
      [] ~raw.quoted /\ raw.text = "true" -> <<"boolean", "true">>
      [] ~raw.quoted /\ raw.text = "[]" -> <<"list", {}>>
      [] OTHER -> <<"string", raw.text>>

KeyLines == {i \in DOMAIN text : text[i].form = "key"}
KeysWritten == {text[i].key : i \in KeyLines}
KeyLine(key) == CHOOSE i \in KeyLines : text[i].key = key

\* The lines under a key, by their places.
Block(key) ==
    {i \in DOMAIN text : /\ i > KeyLine(key) /\ text[i].form # "comment"
                         /\ \A j \in KeyLines : j <= KeyLine(key) \/ j > i}

Nested(i, block) ==
    {j \in block : text[j].indent = 2 /\ j > i /\ \A k \in block : k > i /\ k < j => text[k].indent = 2}

Meaning(key) ==
    LET block == Block(key) IN
    IF block = {} THEN ScalarMeans(text[KeyLine(key)].value)
    ELSE <<"block", {IF text[i].form = "item" THEN <<"item", ScalarMeans(text[i].value)>>
                     ELSE <<text[i].key, ScalarMeans(text[i].value), {<<text[j].key, text[j].value>> : j \in Nested(i, block)}>> :
                         i \in {x \in block : text[x].indent < 2}}>>

Means(key) == key \in KeysWritten /\ (Block(key) # {} \/ text[KeyLine(key)].value # Empty)

(* The style the linker understands: blocks one level deep, indented, no     *)
(* inline collection, no value left out, and no "true" that is a string.     *)
Plain(raw) == raw \notin {Raw("true", TRUE), Raw("[]", FALSE)}
InItsStyle(key) ==
    /\ Plain(text[KeyLine(key)].value)
    /\ \A i \in Block(key) : text[i].indent = 1 /\ text[i].value # Empty /\ Plain(text[i].value)

-----------------------------------------------------------------------------
(* Somebody writes the file: valid YAML, each key once. *)
Under == IF KeyLines = {} THEN None ELSE text[CHOOSE i \in KeyLines : \A j \in KeyLines : j <= i].key
Open == Under # None /\ text[KeyLine(Under)].value = Empty

MayFollow(line) ==
    CASE line.form = "comment" -> TRUE
      [] line.form = "key" -> line.key \notin KeysWritten
      [] line.form = "item" ->
           Open /\ \A i \in Block(Under) : text[i].form = "item" /\ text[i].indent = line.indent
      [] line.form = "pair" ->
           /\ Open /\ \A i \in Block(Under) : text[i].form = "pair" /\ text[i].key # line.key
           /\ line.indent = 2 => /\ Block(Under) # {} /\ Last(text).form = "pair"
                                 /\ Last(text).indent = 2 \/ Last(text).value = Empty

Lines ==
    {Line(0, "key", k, v) : k \in Keys, v \in Scalars \cup {Empty}}
    \cup {Line(n, "item", None, v) : n \in {0, 1}, v \in Scalars}
    \cup {Line(n, "pair", k, v) : n \in {1, 2}, k \in Names, v \in Scalars}
    \cup {Line(1, "pair", k, Empty) : k \in Names}
    \cup {Line(0, "comment", None, Empty)}

Append1(line) ==
    /\ rewrites = 0 /\ Len(text) < MaxLines
    /\ MayFollow(line)
    /\ text' = Append(text, line)
    /\ UNCHANGED rewrites

Init == text = <<>> /\ rewrites = 0

Next == (\E line \in Lines : Append1(line)) \/ Enable \/ Disable

-----------------------------------------------------------------------------
(* Whatever else a workspace file holds, linking a package keeps the meaning *)
(* of every other key written in the linker's style, and only adds the       *)
(* package to those listed; unlinking takes nothing but the package.         *)
(* (parseSimpleYaml, formatSimpleYaml, ensureWorkspaceEntry)                 *)
RewritesKeepMeaning ==
    rewrites' # rewrites =>
        \A key \in KeysWritten :
            Means(key) /\ InItsStyle(key) =>
                IF key # "packages" THEN key \in Settings \/ (Means(key)' /\ Meaning(key)' = Meaning(key))
                ELSE Block(key) # {} =>
                    LET package == <<"item", <<"string", "symbol">>>>
                        before == Meaning(key)[2]
                        after == IF Means(key)' THEN Meaning(key)[2]' ELSE {}
                    IN after \ {package} = before \ {package}

(* Linking a package that is linked changes nothing, in whatever style the   *)
(* file that a step leaves is written; only a "true" in quotes is taken for  *)
(* another value each time.                                                  *)
LinkingTwiceIsOnce ==
    \A lines \in {text'} :
        Iterable(At(ParseSimpleYaml(lines), "packages"))
        /\ (\A i \in DOMAIN lines : lines[i].value # Raw("true", TRUE))
            => Linked(Linked(lines)) = Linked(lines)
=============================================================================
