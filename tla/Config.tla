--------------------------------- MODULE Config ---------------------------------
(***************************************************************************)
(* The configuration: ConfigLexer makes tokens of a file, ConfigParser     *)
(* makes a tree of ConfigNodes of them, with files that include others and *)
(* the settings of the command line on top.                                *)
(*                                                                         *)
(* A file is a sequence of lexemes [word, data]: blanks, names, quoted     *)
(* strings and so on. A name is the sequence of what its dots separate,    *)
(* other data a sequence of one; a node is where it is in the tree.        *)
(***************************************************************************)
EXTENDS Integers, Sequences, FiniteSets, FiniteSetsExt, SequencesExt, TLC

CONSTANTS
    Homes,        \* possible files and what is meant by them: see Properties
    MaxIncludes,  \* MAX_INCLUDES (16)
    MaxDepth      \* bound: files that are open at once

VARIABLES
    parser,   \* open files, includes, status
    tree      \* path -> node

configVars == <<parser, tree>>

\* The files by name: "main", which may include others, and "overrides",
\* the settings of the command line.
Files == Homes[parser.home].files

Node == [type |-> "undefined", data |-> << >>, index |-> 0]
Root == << >>

------------------------------------------------------------------------------
(* ConfigLexer                                                             *)

Blank == {"space", "newline"}
Word(text, p) == IF p \in DOMAIN text THEN text[p].word ELSE "end"
PastBlanks(text, p) ==
    Min({q \in p .. Len(text) + 1 : Word(text, q) \notin Blank})

Token(type, data, next) == [type |-> type, data |-> data, next |-> next]

\* Faulty: a label has its colon right behind it.
QuotedTight(text, p) ==
    IF Word(text, p + 1) = ":" THEN Token("label", text[p].data, p + 2)
    ELSE Token("string", text[p].data, p + 1)

\* A quoted string that a colon follows, after blanks, is a label.
Quoted(text, p) ==
    LET q == PastBlanks(text, p + 1)
    IN  IF Word(text, q) = ":" THEN Token("label", text[p].data, q + 1)
        ELSE Token("string", text[p].data, p + 1)

\* get_token. A comment that no line end follows is never left.
RECURSIVE GetToken(_, _)
GetToken(text, p0) ==
    LET p == PastBlanks(text, p0)
        ends == {q \in p .. Len(text) : text[q].word = "newline"}
        word == Word(text, p)
    IN  CASE word = "quoted" -> Quoted(text, p)
          [] word = "name" ->
                 IF text[p].data \in {<<"true">>, <<"false">>}
                 THEN Token("boolean", text[p].data, p + 1)
                 ELSE Token("entity", text[p].data, p + 1)
          [] word = "#" -> IF ends = {} THEN Token("endless", << >>, p)
                           ELSE GetToken(text, Min(ends))
          [] word \in {":", ","} -> Token("delimiter", << >>, p + 1)
          [] word = "number" -> Token("number", text[p].data, p + 1)
          [] OTHER -> Token(word, << >>, p + 1)

------------------------------------------------------------------------------
(* ConfigNode                                                              *)

Below(t, path) == {q \in DOMAIN t : path # q /\ IsPrefix(path, q)}

\* has and get: every node on the way is a list by now.
Has(t, at, name) ==
    /\ at \o name \in DOMAIN t
    /\ \A q \in Prefixes(name) \ {name} : t[at \o q].type = "list"

\* clear
Cleared(t, at) ==
    [q \in DOMAIN t \ Below(t, at) |->
        IF q = at THEN [Node EXCEPT !.index = t[at].index] ELSE t[q]]

\* set: nodes on the way are made, or made lists; the last of them counts.
\* keep: the node is the one that was there, with what is below it.
Set(t, at, name, node, keep) ==
    LET path == at \o name
        parent == at \o Front(name)
        made == {at \o q : q \in Prefixes(name)}
        gone == IF keep THEN {} ELSE Below(t, path)
        Old(q) == IF q \in DOMAIN t THEN t[q] ELSE Node
    IN  [q \in (DOMAIN t \cup made) \ gone |->
            IF q = path THEN node
            ELSE IF q = parent THEN [Old(q) EXCEPT !.type = "list", !.index = @ + 1]
            ELSE IF q \in made THEN [Old(q) EXCEPT !.type = "list"]
            ELSE t[q]]

\* add: the key is the number of settings made in the list so far.
Key(t, at, label) == IF label = << >> THEN <<ToString(t[at].index)>> ELSE label

------------------------------------------------------------------------------
(* ConfigParser                                                            *)

\* nodes: nodeStack; at: currentNode.
Opened(file) ==
    [file |-> file, pos |-> 1, label |-> << >>, nodes |-> <<Root>>, at |-> Root]

Top == Last(parser.open)
TopBecomes(f) ==
    parser' = [parser EXCEPT !.open = [@ EXCEPT ![Len(@)] = f]]
Stops(why) == parser' = [parser EXCEPT !.status = why] /\ UNCHANGED tree

\* The label is for one value.
LabelAfter(f) == << >>

\* A value: the node of the label if there is one, else a new one.
Stored(f, token) ==
    LET old == f.label # << >> /\ Has(tree, f.at, f.label)
        key == Key(tree, f.at, f.label)
        node == IF old THEN tree[f.at \o f.label] ELSE Node
    IN  /\ tree' = Set(tree, f.at, key,
                       [node EXCEPT !.type = token.type, !.data = token.data], old)
        /\ TopBecomes([f EXCEPT !.label = LabelAfter(f)])

ListOpened(f) ==
    LET old == f.label # << >> /\ Has(tree, f.at, f.label)
        key == Key(tree, f.at, f.label)
        node == IF old THEN tree[f.at \o f.label] ELSE Node
    IN  /\ tree' = Set(tree, f.at, key, [node EXCEPT !.type = "list"], old)
        /\ TopBecomes([f EXCEPT !.label = << >>, !.nodes = Append(@, f.at),
                                !.at = @ \o key])

\* The bottom of the stack is popped as well.
ListClosed(f) ==
    IF f.nodes = << >> THEN Stops("undefined")
    ELSE /\ TopBecomes([f EXCEPT !.at = Last(f.nodes), !.nodes = Front(@)])
         /\ UNCHANGED tree

\* "=" has no effect but in a list, which it empties.
Assigned(f) ==
    /\ tree' = IF f.at = Root THEN tree ELSE Cleared(tree, f.at)
    /\ TopBecomes(f)

HomePath == <<"system", "path", "home">>
HomeKnown == Has(tree, Root, HomePath) /\ tree[HomePath].type = "string"

\* Counted when the file is done: files that include each other are not.
Included(f, file) ==
    IF parser.includes >= MaxIncludes \/ ~HomeKnown THEN Stops("refused")
    ELSE IF file \notin DOMAIN Files \/ Files[file] = << >>
    THEN Stops("no file")
    ELSE IF Len(parser.open) = MaxDepth THEN Stops("deep")
    ELSE /\ parser' = [parser EXCEPT
                !.open = Append([@ EXCEPT ![Len(@)] = f], Opened(file))]
         /\ UNCHANGED tree

FileEnds ==
    /\ parser' =
           IF Len(parser.open) > 1
           THEN [parser EXCEPT !.open = Front(@), !.includes = @ + 1]
           ELSE IF Top.file = "main" /\ Files["overrides"] # << >>
           THEN [parser EXCEPT !.open = <<Opened("overrides")>>]
           ELSE [parser EXCEPT !.status = "done"]
    /\ UNCHANGED tree

\* A turn of the loop of parse.
Parse ==
    LET token == GetToken(Files[Top.file], Top.pos)
        f == [Top EXCEPT !.pos = token.next]
        name == GetToken(Files[f.file], f.pos)
    IN  /\ parser.status = "parsing"
        /\ CASE token.type = "end" -> FileEnds
             [] token.type = "other" -> Stops("refused")
             [] token.type = "endless" -> Stops("endless")
             [] token.type = "entity" /\ token.data = <<"include">>
                    /\ f.at = Root /\ name.type = "string" ->
                    Included([f EXCEPT !.pos = name.next], name.data[1])
             [] token.type \in {"entity", "label"} ->
                    /\ TopBecomes([f EXCEPT !.label = token.data])
                    /\ UNCHANGED tree
             [] token.type = "=" -> Assigned(f)
             [] token.type \in {"boolean", "string", "number"} -> Stored(f, token)
             [] token.type = "(" -> ListOpened(f)
             [] token.type = ")" -> ListClosed(f)
             [] OTHER -> TopBecomes(f) /\ UNCHANGED tree

ConfigStart(home) ==
    /\ tree = (Root :> Node)
    /\ parser = [home |-> home, open |-> <<Opened("main")>>,
                 includes |-> 0, status |-> "parsing"]
ConfigInit == \E home \in DOMAIN Homes : ConfigStart(home)
ConfigNext == Parse
ConfigSpec == ConfigInit /\ [][ConfigNext]_configVars

------------------------------------------------------------------------------
(* Properties. What is meant by a setting is [name, value], where a value  *)
(* is [type, data, items]; the items of a list are [label, value], with an *)
(* empty label if there is none.                                           *)

Meant == Homes[parser.home].meant
Lex(word, data) == [word |-> word, data |-> data]
Mark(word) == <<Lex(word, << >>)>>
Scalar(v) ==
    CASE v.type = "string" -> <<Lex("quoted", v.data)>>
      [] v.type = "number" -> <<Lex("number", v.data)>>
      [] v.type = "boolean" -> <<Lex("name", v.data)>>
Item(e) ==
    (IF e.label = << >> THEN << >> ELSE <<Lex("quoted", e.label)>> \o Mark(":"))
    \o Scalar(e.value) \o Mark(",")

\* The text of a setting, and with blanks and comments, of which there may
\* be none before the colon of a label.
Text(setting) ==
    <<Lex("name", setting.name)>> \o Mark("=")
    \o (IF setting.value.type = "list"
        THEN Mark("(") \o FlattenSeq([i \in DOMAIN setting.value.items |->
                                         Item(setting.value.items[i])])
                       \o Mark(")")
        ELSE Scalar(setting.value))
    \o Mark(";")
Comment == Mark("#") \o <<Lex("name", <<"true">>)>>
Spaced(text) ==
    FlattenSeq([i \in DOMAIN text |->
        <<text[i]>> \o Mark("space")
        \o (IF Word(text, i + 1) = ":" THEN << >> ELSE Comment) \o Mark("newline")])

\* What the last setting of each name says is what the configuration has,
\* the entries of a list under their labels or else their places, whatever
\* is set before, included or written in between. Except for lists that are
\* set twice, which keep what they had and get more (get_token, parse, set).
SettingsKept ==
    parser.status = "done" => \A i \in DOMAIN Meant :
        LET s == Meant[i]
            again == \E j \in DOMAIN Meant \ {i} :
                        /\ Meant[j].name = s.name
                        /\ j > i \/ s.value.type = "list"
            Is(path, v) ==
                /\ path \in DOMAIN tree
                /\ tree[path].type = v.type /\ tree[path].data = v.data
            Path(j) == s.name \o (IF s.value.items[j].label # << >>
                                  THEN s.value.items[j].label ELSE <<ToString(j - 1)>>)
        IN  again \/ IF s.value.type = "list"
                     THEN /\ tree[s.name].type = "list"
                          /\ Cardinality(Below(tree, s.name)) = Len(s.value.items)
                          /\ \A j \in DOMAIN s.value.items :
                                 Is(Path(j), s.value.items[j].value)
                     ELSE Is(s.name, s.value)
=============================================================================
