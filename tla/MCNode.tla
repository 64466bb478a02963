------------------------------- MODULE MCNode -------------------------------
(***************************************************************************)
(* Node for TLC.  Node 7 shares its channel "ours" with its owner; channel *)
(* "clash" has the same hash, "theirs" is a channel of others.             *)
(***************************************************************************)
EXTENDS Node

MCHashes == {1, 2, 3, 7, 255}

MCKeys == <<[hexLength |-> 30, secret |-> "short"],
            [hexLength |-> 32, secret |-> "clash"],
            [hexLength |-> 32, secret |-> "ours"],
            [hexLength |-> 32, secret |-> "surplus"]>>
MCHash == [short |-> 2, clash |-> 1, ours |-> 1, theirs |-> 1, surplus |-> 3]

MCWords == ReplyWords \cup {"07", "owner", "hello", "clear", "52", "n"}
MCCommandWords == {"!status", "!location", "!neighbors", "!advert", "!help", "!cmd[@XX]"}
MCTargetWords == {"@all", "@07", "@08"}
MCHashWords == [w \in {"@07", "@08"} |-> IF w = "@07" THEN 7 ELSE 8]
MCNumbers == [w \in {"52"} |-> 52]

Default == [size |-> 20, raw |-> "packet", type |-> "DATA", snr |-> 0, origin |-> 1,
            payload |-> Payload(0, 0, <<>>), forward |-> FALSE, request |-> FALSE]
Advert(node, snr) == [Default EXCEPT !.type = "ADVERT", !.origin = node, !.snr = snr,
                                     !.forward = TRUE]
Text(key, time, text) ==
    [Default EXCEPT !.type = "GRP_TXT",
                    !.payload = CHOOSE p \in Built(text, time, key) : TRUE]

From(words) == <<"owner", ":", " ">> \o words

MCFrameOf == [
    weak      |-> Advert(1, -7),
    weaker    |-> Advert(1, -10),
    second    |-> Advert(2, 3),
    strong    |-> Advert(3, 12),
    faint     |-> Advert(3, -9),
    nobody    |-> Advert(255, 12),
    noise     |-> [Default EXCEPT !.raw = "undecodable"],
    trace     |-> [Default EXCEPT !.type = "TRACE"],
    discover  |-> [Default EXCEPT !.type = "CONTROL", !.request = TRUE],
    status    |-> Text("ours", 5, From(<<"!status", " ", "@all", " ", "clear">>)),
    neighbors |-> Text("ours", 14, From(<<"!neighbors", " ", "@07">>)),
    advert    |-> Text("ours", 2, <<"!advert">>),
    help      |-> Text("ours", 6, <<"!help">>),
    location  |-> Text("clash", 1, From(<<"!location", " ", " ", "52">>)),
    other     |-> Text("ours", 13, From(<<"!status", " ", "@08">>)),
    chat      |-> Text("ours", 3, From(<<"hello">>)),
    foreign   |-> Text("theirs", 4, From(<<"!help">>)),
    reply     |-> Text("ours", 0, <<"n", ":", " ", "!cmd[@XX]", " ", "|">>)]

MCScenarios == {
    <<"weak", "second", "strong">>,        \* the weakest of a full table leaves
    <<"second", "weak", "faint">>,         \* or does not
    <<"weak", "weaker", "weaker">>,        \* an average, and a duplicate
    <<"nobody", "neighbors">>,
    <<"weak", "second", "neighbors">>,     \* one of two fits the reply
    <<"neighbors", "location">>,           \* the epoch returns to 0
    <<"status", "discover">>,
    <<"help", "status">>,                  \* one second behind
    <<"help", "chat">>,                    \* three seconds behind
    <<"noise", "other">>,
    <<"trace", "foreign">>,
    <<"advert", "reply">>}

MCFrame == DOMAIN MCFrameOf
MCMeantForUs == {"status", "neighbors", "advert", "help", "location"}
MCItems == {[frame |-> f, snr |-> Scaled(MCFrameOf[f].snr)] : f \in MCFrame}
============================================================================
