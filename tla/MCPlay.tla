-------------------------------- MODULE MCPlay --------------------------------
(***************************************************************************)
(* What players have and meet: chests, crafting, animals; and the           *)
(* configuration all of it is started with. `part` chooses the component a *)
(* behaviour is about; the others rest, so that the states add up.         *)
(***************************************************************************)
EXTENDS Chests, Windows, Mobs, Config

Some(kind, n) == [kind |-> kind, n |-> n]
Zero == Some("none", 0)

\* Chests: three places in a row, and one thing to put in.
MCSpots == {<<0, 0>>, <<1, 0>>, <<2, 0>>}
MCPurse == [u \in Visitor |-> IF u = 1 THEN Some("gem", 1) ELSE Zero]

\* Crafting: a log makes two planks, two planks a pick.
MCGoods == {"log", "plank", "pick", "pick1", "pick2"}
MCWorth(kind) ==
    CASE kind \in {"log", "pick"} -> 4 [] kind \in {"plank", "pick1"} -> 2 [] OTHER -> 0
Lines(width, height, cells, kind, n) ==
    <<[word |-> "width", value |-> width], [word |-> "height", value |-> height],
      [word |-> "<-"], [word |-> "row", value |-> cells], [word |-> "->"],
      [word |-> "outputcount", value |-> n], [word |-> "outputtype", value |-> kind]>>
OneOf(kind) == [kinds |-> {kind}, n |-> 1]
MCRecipeFiles ==
    <<Lines(1, 1, <<OneOf("log")>>, "plank", 2),
      Lines(2, 1, <<OneOf("plank"), OneOf("plank")>>, "pick", 1)>>
MCGrid == <<2, 1>>
MCHats == {"plank"}
MCTools == <<"pick", "pick1", "pick2">>
MCParties ==
    {[bag |-> <<Some("log", 1)>>, most |-> 8],
     [bag |-> <<Some("log", 1), Zero>>, most |-> 4],
     [bag |-> <<Some("plank", 2), Zero>>, most |-> 4]}

\* Animals: a slope and a cliff; a fighter, and two who
\* take wool and milk.
MCGround == 0 :> 9 @@ 1 :> 8 @@ 2 :> 3
MCMade == <<2, 1>>
MCPens ==
    {[x |-> <<0>>, hand |-> <<Some("iron sword", 1)>>],
     [x |-> <<0, 2>>, hand |-> <<Some("shears", 1), Some("bucket", 2)>>]}

\* Configurations: where the home is, two settings of which the second is in
\* a file the first includes, and one on the command line.
Is(type, text) == [type |-> type, data |-> <<text>>, items |-> <<>>]
ListOf(entries) == [type |-> "list", data |-> <<>>, items |-> entries]
Entry(label, value) == [label |-> label, value |-> value]
Setting(name, value) == [name |-> name, value |-> value]
HomeSet == Setting(HomePath, Is("string", "home"))
Values ==
    <<Is("string", "x"), Is("number", "1"), Is("boolean", "true"), ListOf(<<>>),
      ListOf(<<Entry(<<>>, Is("string", "p")), Entry(<<"k">>, Is("string", "q")),
               Entry(<<>>, Is("boolean", "true"))>>)>>
Names == <<<<"a">>, <<"b", "c">>>>
Settings == [k \in 1..10 |-> Setting(Names[1 + (k % 2)], Values[(k + 1) \div 2])]
FilesOf(main, extra, over) == "main" :> main @@ "extra" :> extra @@ "overrides" :> over
Includes(file) == <<Lex("name", <<"include">>), Lex("quoted", <<file>>)>> \o Mark(";")
HomeOf(main, extra, over, loose) ==
    LET Lay(text) == IF loose THEN Spaced(text) ELSE text
    IN  [files |-> FilesOf(Lay(Text(HomeSet) \o Text(main) \o Includes("extra")),
                           Lay(Text(extra)), Lay(Text(over))),
         meant |-> <<HomeSet, main, extra, over>>]

\* Files that are not as they should be: one that includes itself, one too
\* many ")", a comment at the end, a letter that is none.
Bad(text) == [files |-> FilesOf(text, <<>>, <<>>), meant |-> <<>>]
Bads == <<Bad(Text(HomeSet) \o Includes("main")), Bad(Mark(")") \o Mark(")")),
          Bad(Mark("#")), Bad(Mark("other"))>>
MCHomes ==
    [k \in ((1..10) \X (1..10) \X (1..10) \X {0, 1}) \cup {<<0, 0, 0, i>> : i \in 1..4} |->
        IF k[1] = 0 THEN Bads[k[4]]
        ELSE HomeOf(Settings[k[1]], Settings[k[2]], Settings[k[3]], k[4] = 1)]

-----------------------------------------------------------------------------
VARIABLE part

First(S) == CHOOSE s \in S : TRUE

\* The component that does not rest has all its initial states.
Starts(name, S) == IF part = name THEN S ELSE {First(S)}

PlayInit ==
    /\ part \in {"chests", "windows", "mobs", "config"}
    /\ \E standing \in Starts("chests", SUBSET Spots) : ChestsStart(standing)
    /\ \E party \in Starts("windows", Parties) : WindowsStart(party)
    /\ \E pen \in Starts("mobs", Pens) : MobsStart(pen)
    /\ \E home \in Starts("config", DOMAIN Homes) : ConfigStart(home)

PlayNext ==
    /\ UNCHANGED part
    /\ \/ /\ part = "chests" /\ ChestsNext
          /\ UNCHANGED <<windowVars, mobVars, configVars>>
       \/ /\ part = "windows" /\ WindowsNext
          /\ UNCHANGED <<chestVars, mobVars, configVars>>
       \/ /\ part = "mobs" /\ MobsNext
          /\ UNCHANGED <<chestVars, windowVars, configVars>>
       \/ /\ part = "config" /\ ConfigNext
          /\ UNCHANGED <<chestVars, windowVars, mobVars>>

PlaySpec ==
    PlayInit /\ [][PlayNext]_<<part, chestVars, windowVars, mobVars, configVars>>
=============================================================================
