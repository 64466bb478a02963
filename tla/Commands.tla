------------------------------ MODULE Commands ------------------------------
(***************************************************************************)
(* CommandHandler::processPacket(), lines 47 to 126: what a text asks of   *)
(* this node.  A symbol stands for a word or for one of the marks ":", " " *)
(* and the end of the text.                                                *)
(***************************************************************************)
EXTENDS Integers, SequencesExt

CONSTANTS CommandWords,   \* the words that begin with "!"
          TargetWords,    \* the words that begin with "@"
          AllWord,        \* "@all"
          HashWords       \* the target words that are hexadecimal, and their value

\* strchr(): the positions of a mark; the part behind the first one, without
\* the spaces it begins with.
Positions(mark, text) == {i \in 1..Len(text) : text[i] = mark}
First(S) == CHOOSE i \in S : \A j \in S : i <= j
SkipSpaces(text) ==
    LET words == {i \in 1..Len(text) : text[i] # " "}
    IN IF words = {} THEN <<>> ELSE SubSeq(text, First(words), Len(text))
Behind(mark, text) == SubSeq(text, First(Positions(mark, text)) + 1, Len(text))
UpTo(mark, text) == SubSeq(text, 1, First(Positions(mark, text)) - 1)

\* The name in front of a colon is dropped.
Content(text) ==
    IF Positions(":", text) = {} THEN text ELSE SkipSpaces(Behind(":", text))

IsCommand(content) == content # <<>> /\ content[1] \in CommandWords

\* The command is all in front of the first space, the arguments behind it.
Command(content) == IF Positions(" ", content) = {} THEN content ELSE UpTo(" ", content)
Arguments(content) ==
    IF Positions(" ", content) = {} THEN <<>> ELSE SkipSpaces(Behind(" ", content))

HasTarget(args) == args # <<>> /\ args[1] \in TargetWords
Target(args) == args[1]

\* A faulty handler that takes every target for its own.
ForAnyone(args, nodeHash) == TRUE

\* No target, "@all", or this node's hash; what is not hexadecimal is for
\* nobody.
ForMe(args, nodeHash) ==
    HasTarget(args) => \/ Target(args) = AllWord
                       \/ /\ Target(args) \in DOMAIN HashWords
                          /\ HashWords[Target(args)] = nodeHash

\* What is left of the arguments behind a target.
Operands(args) == IF HasTarget(args) THEN SkipSpaces(Tail(args)) ELSE args

\* none, or the command and its operands.
Asked(text, nodeHash) ==
    LET content == Content(text)
    IN IF IsCommand(content) /\ ForMe(Arguments(content), nodeHash)
       THEN {[command |-> Command(content), operands |-> Operands(Arguments(content))]}
       ELSE {}
============================================================================
