-------------------------- MODULE ClientHttpProofs --------------------------
(***************************************************************************)
(* Theorems about ClientHttp, for any number of servers, threads, targets, *)
(* loops and download directories: what a downloaded file holds, and how   *)
(* often the targets are asked for.                                        *)
(***************************************************************************)
EXTENDS ClientHttp, SequenceTheorems, FiniteSetTheorems, TLAPS

Places  == {"head", "ended"} \cup Choosing \cup Asking \cup Waiting
Targets == {<<>>} \cup {<<i>> : i \in 1..targets_size}

\* The target is empty until one is taken from the list, and one at most is taken.
TargetInv ==
    \A s \in Sessions :
        /\ pc[s] \in {"connecting", "head", "loops", "index"} \cup Wrapping => target[s] = <<>>
        /\ pc[s] \in {"append?", "prompt"} => target[s] \in Targets

\* The blocks of a file that is being received are not all written.
ReceivedInv ==
    \A s \in Sessions : pc[s] = "receiving" => received[s].blocks < received[s].size

TypeInv == TypeOK /\ TargetInv /\ ReceivedInv

\* Who writes an undisturbed file is alone, and has written what was received so far.
FileInv ==
    \A d \in Directory : ~disturbed[d] =>
        /\ Receiving(d) = {} => file[d] = expected[d]
        /\ \A s \in Receiving(d) :
              /\ Receiving(d) = {s}
              /\ file[d] = [i \in 1..received[s].blocks |-> s]
              /\ expected[d] = [i \in 1..received[s].size |-> s]

(***************************************************************************)
(* Types, in parts.                                                        *)
(***************************************************************************)

SharedType ==
    /\ targets_loops \in Int /\ targets_index \in Nat
    /\ targets_looping_over \in BOOLEAN /\ defined \in BOOLEAN
    /\ asked \in [1..targets_size -> 0..Loops + 1] /\ typed \in 0..MaxTyped

CopyType == temp_loops \in [Sessions -> Int] /\ temp_index \in [Sessions -> Nat]

AllTargets == {<<>>} \cup {<<i>> : i \in 0..targets_size}
                     \cup {<<i, Typed>> : i \in 1..targets_size}

PlaceType == pc \in [Sessions -> Places] /\ raced \in BOOLEAN

TargetType == target \in [Sessions -> AllTargets]

Contents(S) == UNION {[1..n -> S] : n \in 0..2}

FileType ==
    /\ received \in [Sessions -> [blocks : 0..2, size : 0..2]]
    /\ file \in [Directory -> Contents(Sessions \cup {Nobody})]
    /\ expected \in [Directory -> Contents(Sessions)]
    /\ disturbed \in [Directory -> BOOLEAN]

LEMMA TypeParts ==
    TypeOK <=> SharedType /\ CopyType /\ PlaceType /\ TargetType /\ FileType
BY DEF TypeOK, SharedType, CopyType, PlaceType, TargetType, FileType, Places, AllTargets,
       Contents

LEMMA DirType == ASSUME NEW s \in Sessions PROVE dir(s) \in Directory
BY ClientHttpAssumption DEF dir, Sessions, Directory

LEMMA EmptyContents == ASSUME NEW S PROVE <<>> \in Contents(S)
<1>1. <<>> \in [1..0 -> S]
  OBVIOUS
<1> QED BY <1>1 DEF Contents

LEMMA TypeInit == Init => TypeInv
<1> SUFFICES ASSUME Init PROVE TypeInv
  OBVIOUS
<1>1. SharedType /\ CopyType
  BY ClientHttpAssumption DEF Init, SharedType, CopyType
<1>2. PlaceType /\ TargetType /\ TargetInv /\ ReceivedInv
  BY DEF Init, PlaceType, TargetType, Places, AllTargets, TargetInv, Waiting, ReceivedInv
<1>3. FileType
  BY EmptyContents DEF Init, FileType, NoFile
<1> QED BY <1>1, <1>2, <1>3, TypeParts DEF TypeInv

\* The actions in groups, by what they change.
LEMMA Steps ==
    ASSUME Next
    PROVE  \E s \in Sessions :
              \/ Connect(s) \/ LoadOver(s) \/ LoadLoops(s) \/ TakeIndex(s) \/ EndLoop(s)
              \/ ResetIndex(s) \/ LoadLoopsAgain(s) \/ TakeFirst(s) \/ StoreOver(s)
              \/ AskListed(s) \/ Type(s) \/ Quit(s) \/ ReceiveText(s) \/ ReceiveHeader(s)
              \/ Name(s) \/ ReceiveBlock(s) \/ Fail(s)
BY DEF Next, do_session, User, ChooseTarget, Receive

LEMMA GotoType ==
    ASSUME PlaceType, NEW s \in Sessions, NEW l \in Places, Goto(s, l)
    PROVE  PlaceType'
<1>1. raced' \in BOOLEAN
  <2>1. Race(pc') \in BOOLEAN
    BY DEF Race
  <2>2. raced' = (raced \/ Race(pc'))
    BY DEF Goto
  <2> QED BY <2>1, <2>2 DEF PlaceType
<1>2. pc' \in [Sessions -> Places]
  BY DEF Goto, PlaceType
<1> QED BY <1>1, <1>2 DEF PlaceType

\* The place an action goes to.
LEMMA StepPlace ==
    ASSUME NEW s \in Sessions, PlaceType
    PROVE  /\ Connect(s) => Goto(s, "head") /\ pc[s] = "connecting"
           /\ LoadOver(s) => \E l \in {"prompt", "loops"} : Goto(s, l) /\ pc[s] = "head"
           /\ LoadLoops(s) => Goto(s, "index") /\ pc[s] = "loops"
           /\ TakeIndex(s) => \E l \in {"append?", "loops--"} : Goto(s, l) /\ pc[s] = "index"
           /\ EndLoop(s) => Goto(s, "index=0") /\ pc[s] = "loops--"
           /\ ResetIndex(s) => Goto(s, "again?") /\ pc[s] = "index=0"
           /\ LoadLoopsAgain(s) => \E l \in {"next", "over"} : Goto(s, l) /\ pc[s] = "again?"
           /\ TakeFirst(s) => Goto(s, "append?") /\ pc[s] = "next"
           /\ StoreOver(s) => Goto(s, "prompt") /\ pc[s] = "over"
           /\ AskListed(s) => \E l \in {"prompt", "asked"} : Goto(s, l) /\ pc[s] = "append?"
           /\ Type(s) => Goto(s, "asked") /\ pc[s] = "prompt"
           /\ Quit(s) => Goto(s, "ended") /\ pc[s] = "prompt"
           /\ ReceiveText(s) => Goto(s, "head") /\ pc[s] = "asked"
           /\ ReceiveHeader(s) => \E l \in {"receiving", "name"} : Goto(s, l) /\ pc[s] = "asked"
           /\ Name(s) => Goto(s, "receiving") /\ pc[s] = "name"
           /\ ReceiveBlock(s) => /\ pc[s] = "receiving"
                                 /\ UNCHANGED <<pc, raced>> \/ Goto(s, "head")
           /\ Fail(s) => Goto(s, "ended") /\ pc[s] \in Waiting \cup {"name"}
<1>1. /\ Connect(s) => Goto(s, "head") /\ pc[s] = "connecting"
      /\ LoadOver(s) => \E l \in {"prompt", "loops"} : Goto(s, l) /\ pc[s] = "head"
      /\ LoadLoops(s) => Goto(s, "index") /\ pc[s] = "loops"
      /\ TakeIndex(s) => \E l \in {"append?", "loops--"} : Goto(s, l) /\ pc[s] = "index"
  BY DEF Connect, LoadOver, LoadLoops, TakeIndex, At, Resumed
<1>2. /\ EndLoop(s) => Goto(s, "index=0") /\ pc[s] = "loops--"
      /\ ResetIndex(s) => Goto(s, "again?") /\ pc[s] = "index=0"
      /\ LoadLoopsAgain(s) => \E l \in {"next", "over"} : Goto(s, l) /\ pc[s] = "again?"
      /\ TakeFirst(s) => Goto(s, "append?") /\ pc[s] = "next"
      /\ StoreOver(s) => Goto(s, "prompt") /\ pc[s] = "over"
  BY DEF EndLoop, ResetIndex, LoadLoopsAgain, TakeFirst, StoreOver, At
<1>3. /\ AskListed(s) => \E l \in {"prompt", "asked"} : Goto(s, l) /\ pc[s] = "append?"
      /\ Type(s) => Goto(s, "asked") /\ pc[s] = "prompt"
      /\ Quit(s) => Goto(s, "ended") /\ pc[s] = "prompt"
  BY DEF AskListed, Type, Quit, Ask, At
<1>4. /\ ReceiveText(s) => Goto(s, "head") /\ pc[s] = "asked"
      /\ ReceiveHeader(s) => \E l \in {"receiving", "name"} : Goto(s, l) /\ pc[s] = "asked"
      /\ Name(s) => Goto(s, "receiving") /\ pc[s] = "name"
  BY DEF ReceiveText, ReceiveHeader, Name, Done, OpenFile, Begins, At, Resumed
<1>5. /\ ReceiveBlock(s) => /\ pc[s] = "receiving"
                            /\ UNCHANGED <<pc, raced>> \/ Goto(s, "head")
      /\ Fail(s) => Goto(s, "ended") /\ pc[s] \in Waiting \cup {"name"}
  BY DEF ReceiveBlock, Fail, Done, At, Resumed
<1> QED BY <1>1, <1>2, <1>3, <1>4, <1>5

LEMMA PlaceStep == PlaceType /\ [Next]_vars => PlaceType'
<1> SUFFICES ASSUME PlaceType, [Next]_vars PROVE PlaceType'
  OBVIOUS
<1>1. CASE Next
  <2>1. PICK s \in Sessions : \/ UNCHANGED <<pc, raced>>
                              \/ \E l \in Places : Goto(s, l)
    <3> DEFINE Used == {"head", "ended", "prompt", "loops", "index", "append?", "loops--",
                        "index=0", "again?", "next", "over", "asked", "receiving", "name"}
    <3>1. Used \subseteq Places
      BY DEF Places, Choosing, Wrapping, Asking, Waiting
    <3>2. \E s \in Sessions : UNCHANGED <<pc, raced>> \/ \E l \in Used : Goto(s, l)
      <4> USE Steps, <1>1
      <4> PICK s \in Sessions :
              \/ Connect(s) \/ LoadOver(s) \/ LoadLoops(s) \/ TakeIndex(s) \/ EndLoop(s)
              \/ ResetIndex(s) \/ LoadLoopsAgain(s) \/ TakeFirst(s) \/ StoreOver(s)
              \/ AskListed(s) \/ Type(s) \/ Quit(s) \/ ReceiveText(s) \/ ReceiveHeader(s)
              \/ Name(s) \/ ReceiveBlock(s) \/ Fail(s)
        OBVIOUS
      <4> QED BY StepPlace
    <3> QED BY <3>1, <3>2
  <2> QED BY <2>1, GotoType DEF PlaceType
<1>2. CASE UNCHANGED vars
  BY <1>2 DEF vars, PlaceType
<1> QED BY <1>1, <1>2

LEMMA SharedStep == SharedType /\ CopyType /\ [Next]_vars => SharedType' /\ CopyType'
<1> SUFFICES ASSUME SharedType, CopyType, [Next]_vars PROVE SharedType' /\ CopyType'
  OBVIOUS
<1> USE DEF SharedType, CopyType
<1>1. ASSUME NEW s \in Sessions,
             Connect(s) \/ LoadOver(s) \/ LoadLoops(s) \/ LoadLoopsAgain(s) \/ StoreOver(s)
      PROVE  SharedType' /\ CopyType'
  BY <1>1 DEF Connect, LoadOver, LoadLoops, LoadLoopsAgain, StoreOver, atomics, choice
<1>2. ASSUME NEW s \in Sessions, TakeIndex(s) \/ EndLoop(s) \/ ResetIndex(s) \/ TakeFirst(s)
      PROVE  SharedType' /\ CopyType'
  <2>1. /\ targets_loops' \in Int /\ targets_index' \in Nat
        /\ targets_looping_over' \in BOOLEAN /\ defined' \in BOOLEAN
        /\ asked' = asked /\ typed' = typed
    <3>1. CASE TakeIndex(s)
      BY <3>1 DEF TakeIndex
    <3>2. CASE EndLoop(s)
      BY <3>2 DEF EndLoop, Exchanged
    <3>3. CASE ResetIndex(s)
      BY <3>3 DEF ResetIndex, Exchanged
    <3>4. CASE TakeFirst(s)
      <4>1. defined' \in BOOLEAN
        <5>1. defined' = defined \/ defined' = FALSE
          BY <3>4 DEF TakeFirst
        <5>2. defined \in BOOLEAN
          OBVIOUS
        <5> QED BY <5>1, <5>2, Zenon
      <4>2. targets_index' = targets_index + 1
        BY <3>4 DEF TakeFirst
      <4>3. /\ targets_loops' = targets_loops /\ targets_looping_over' = targets_looping_over
            /\ asked' = asked /\ typed' = typed
        BY <3>4 DEF TakeFirst
      <4> QED BY <4>1, <4>2, <4>3
    <3> QED BY <1>2, <3>1, <3>2, <3>3, <3>4
  <2>2. temp_loops' = temp_loops \/ temp_loops' = [temp_loops EXCEPT ![s] = 0]
    BY <1>2 DEF TakeIndex, EndLoop, ResetIndex, TakeFirst, choice
  <2>3. temp_index' = temp_index \/ \E i \in Nat : temp_index' = [temp_index EXCEPT ![s] = i]
    <3>1. targets_index + 1 \in Nat
      OBVIOUS
    <3> QED BY <1>2, <3>1 DEF TakeIndex, EndLoop, ResetIndex, TakeFirst, choice
  <2> QED BY <2>1, <2>2, <2>3
<1>3. ASSUME NEW s \in Sessions, NEW t, Ask(s, t)
      PROVE  asked' \in [1..targets_size -> 0..Loops + 1]
  <2>1. Loops \in Nat /\ asked \in [1..targets_size -> 0..Loops + 1]
    BY ClientHttpAssumption DEF SharedType
  <2>2. asked' = [i \in 1..targets_size |->
                     IF t = <<i>> /\ asked[i] <= Loops THEN asked[i] + 1 ELSE asked[i]]
    BY <1>3, <2>1 DEF Ask
  <2>3. \A i \in 1..targets_size : asked[i] \in 0..Loops + 1
    BY <2>1
  <2>4. \A i \in 1..targets_size : asked[i] <= Loops => asked[i] + 1 \in 0..Loops + 1
    BY <2>1, <2>3
  <2> QED BY <2>2, <2>3, <2>4
<1>4. ASSUME NEW s \in Sessions, AskListed(s) \/ Type(s) \/ Quit(s)
      PROVE  SharedType' /\ CopyType'
  <2>1. asked' \in [1..targets_size -> 0..Loops + 1]
    BY <1>3, <1>4 DEF AskListed, Type, Quit
  <2>2. typed' \in 0..MaxTyped
    BY <1>4, ClientHttpAssumption DEF AskListed, Type, Quit
  <2>3. UNCHANGED <<atomics, choice, defined>>
    BY <1>4 DEF AskListed, Type, Quit, files
  <2> QED BY <2>1, <2>2, <2>3 DEF atomics, choice
<1>5. ASSUME NEW s \in Sessions,
             ReceiveText(s) \/ ReceiveHeader(s) \/ Name(s) \/ ReceiveBlock(s) \/ Fail(s)
      PROVE  SharedType' /\ CopyType'
  BY <1>5 DEF ReceiveText, ReceiveHeader, Name, ReceiveBlock, Fail, atomics, choice
<1>6. CASE UNCHANGED vars
  BY <1>6 DEF vars, atomics, choice
<1> QED BY <1>1, <1>2, <1>4, <1>5, <1>6, Steps

(***************************************************************************)
(* Targets.                                                                *)
(***************************************************************************)

\* The target of one session, which only its own steps change.
OwnTarget(s) ==
    /\ pc[s] \in {"connecting", "head", "loops", "index"} \cup Wrapping => target[s] = <<>>
    /\ pc[s] \in {"append?", "prompt"} => target[s] \in Targets

LEMMA TargetSets ==
    /\ Targets \subseteq AllTargets
    /\ \A i \in 1..targets_size : Append(<<>>, i) \in Targets
    /\ \A t \in Targets : Append(t, Typed) \in AllTargets
<1>1. \A i \in 1..targets_size : i \in 0..targets_size /\ Append(<<>>, i) = <<i>>
  OBVIOUS
<1>2. \A i \in 1..targets_size : Append(<<i>>, Typed) = <<i, Typed>>
  <2> SUFFICES ASSUME NEW i \in 1..targets_size PROVE Append(<<i>>, 0) = <<i, 0>>
    BY Zenon DEF Typed
  <2>0. i \in Nat
    BY ClientHttpAssumption
  <2>1. <<i>> \in Seq(Nat) /\ Len(<<i>>) = 1 /\ <<i>>[1] = i
    BY <2>0
  <2>2. /\ <<i, 0>> \in Seq(Nat) /\ Len(<<i, 0>>) = 2
        /\ <<i, 0>>[1] = i /\ <<i, 0>>[2] = 0
    BY <2>0
  <2>3. /\ Append(<<i>>, 0) \in Seq(Nat) /\ Len(Append(<<i>>, 0)) = 2
        /\ Append(<<i>>, 0)[1] = i /\ Append(<<i>>, 0)[2] = 0
    BY <2>0, <2>1, AppendProperties
  <2>4. \A k \in 1..2 : k = 1 \/ k = 2
    OBVIOUS
  <2> DEFINE a == Append(<<i>>, 0)
             b == <<i, 0>>
  <2> HIDE DEF a, b
  <2>5. a \in Seq(Nat) /\ b \in Seq(Nat) /\ Len(a) = Len(b) /\ Len(a) = 2
    BY <2>2, <2>3 DEF a, b
  <2>6. \A k \in 1..Len(a) : a[k] = b[k]
    BY <2>2, <2>3, <2>4, <2>5 DEF a, b
  <2>7. a = b
    BY <2>5, <2>6, SeqEqual
  <2> QED BY <2>7 DEF a, b
<1>3. Append(<<>>, Typed) = <<Typed>> /\ Typed \in 0..targets_size
  BY ClientHttpAssumption DEF Typed
<1> QED BY <1>1, <1>2, <1>3 DEF Targets, AllTargets

\* What a step does to the target of the session that makes it.
LEMMA TargetMoves ==
    ASSUME SharedType, PlaceType, TargetType, TargetInv, NEW s \in Sessions,
           \/ Connect(s) \/ LoadOver(s) \/ LoadLoops(s) \/ TakeIndex(s) \/ EndLoop(s)
           \/ ResetIndex(s) \/ LoadLoopsAgain(s) \/ TakeFirst(s) \/ StoreOver(s)
           \/ AskListed(s) \/ Type(s) \/ Quit(s) \/ ReceiveText(s) \/ ReceiveHeader(s)
           \/ Name(s) \/ ReceiveBlock(s) \/ Fail(s)
    PROVE  /\ \E t \in AllTargets : target' = [target EXCEPT ![s] = t]
           /\ OwnTarget(s)'
           /\ \A u \in Sessions \ {s} : pc'[u] = pc[u]
<1> USE DEF OwnTarget, Wrapping, PlaceType
<1>0. /\ target[s] \in AllTargets /\ OwnTarget(s)
      /\ target = [target EXCEPT ![s] = target[s]]
  BY DEF TargetType, TargetInv
<1>1. CASE Connect(s) \/ LoadOver(s) \/ LoadLoops(s)
  <2>1. /\ target' = target /\ target[s] = <<>>
        /\ \E l \in {"head", "prompt", "loops", "index"} : Goto(s, l)
    BY <1>0, <1>1, StepPlace DEF Connect, LoadOver, LoadLoops
  <2> QED BY <1>0, <2>1 DEF Goto, Targets
<1>2. CASE TakeIndex(s) \/ TakeFirst(s)
  <2>1. target[s] = <<>>
    BY <1>0, <1>2, StepPlace
  <2>2. CASE target' = target /\ \E l \in {"append?", "loops--"} : Goto(s, l)
    BY <1>0, <2>1, <2>2 DEF Goto, Targets
  <2>3. CASE \E i \in 1..targets_size : /\ target' = [target EXCEPT ![s] = Append(@, i)]
                                        /\ Goto(s, "append?")
    <3> PICK i \in 1..targets_size : /\ target' = [target EXCEPT ![s] = Append(@, i)]
                                     /\ Goto(s, "append?")
      BY <2>3
    <3>1. Append(<<>>, i) \in Targets /\ Append(<<>>, i) \in AllTargets
      BY TargetSets
    <3>2. target' = [target EXCEPT ![s] = Append(<<>>, i)]
      BY <2>1
    <3> HIDE DEF Targets, AllTargets
    <3> QED BY <3>1, <3>2 DEF Goto, TargetType
  <2>4. targets_index < targets_size => targets_index + 1 \in 1..targets_size
    BY ClientHttpAssumption DEF SharedType
  <2> QED BY <1>2, <2>2, <2>3, <2>4 DEF TakeIndex, TakeFirst
<1>3. CASE EndLoop(s) \/ ResetIndex(s) \/ LoadLoopsAgain(s) \/ StoreOver(s)
  <2>1. /\ target' = target /\ target[s] = <<>>
        /\ \E l \in {"index=0", "again?", "next", "over", "prompt"} : Goto(s, l)
    BY <1>0, <1>3, StepPlace DEF EndLoop, ResetIndex, LoadLoopsAgain, StoreOver
  <2> QED BY <1>0, <2>1 DEF Goto, Targets
<1>4. CASE AskListed(s)
  <2>1. target[s] \in Targets
    BY <1>0, <1>4, StepPlace
  <2>2. CASE target' = target /\ Goto(s, "prompt")
    BY <1>0, <2>1, <2>2 DEF Goto
  <2>3. CASE target' = [target EXCEPT ![s] = target[s]] /\ Goto(s, "asked")
    BY <1>0, <2>3 DEF Goto
  <2> QED BY <1>4, <2>2, <2>3 DEF AskListed, Ask
<1>5. CASE Type(s)
  <2>1. target[s] \in Targets
    BY <1>0, <1>5, StepPlace
  <2>2. Append(target[s], Typed) \in AllTargets
    BY <2>1, TargetSets
  <2>3. target' = [target EXCEPT ![s] = Append(target[s], Typed)] /\ Goto(s, "asked")
    BY <1>5 DEF Type, Ask
  <2> QED BY <2>2, <2>3 DEF Goto
<1>6. CASE Quit(s) \/ ReceiveHeader(s) \/ Name(s) \/ Fail(s)
  <2>1. target' = target /\ \E l \in {"ended", "receiving", "name"} : Goto(s, l)
    BY <1>6, StepPlace DEF Quit, ReceiveHeader, Name, Fail
  <2> QED BY <1>0, <2>1 DEF Goto
<1>7. CASE ReceiveText(s) \/ ReceiveBlock(s)
  <2>1. CASE target' = target /\ pc' = pc
    BY <1>0, <2>1
  <2>2. CASE Done(s)
    <3>1. <<>> \in AllTargets
      BY DEF AllTargets
    <3>2. target' = [target EXCEPT ![s] = <<>>] /\ Goto(s, "head")
      BY <2>2 DEF Done
    <3> QED BY <3>1, <3>2 DEF Goto, TargetType
  <2> QED BY <1>7, <2>1, <2>2 DEF ReceiveText, ReceiveBlock
<1> QED BY <1>1, <1>2, <1>3, <1>4, <1>5, <1>6, <1>7

LEMMA TargetStep ==
    SharedType /\ PlaceType /\ TargetType /\ TargetInv /\ [Next]_vars
        => TargetType' /\ TargetInv'
<1> SUFFICES ASSUME SharedType, PlaceType, TargetType, TargetInv, [Next]_vars
             PROVE  TargetType' /\ TargetInv'
  OBVIOUS
<1>1. TargetInv <=> \A s \in Sessions : OwnTarget(s)
  BY DEF TargetInv, OwnTarget
<1>2. CASE Next
  <2>1. PICK s \in Sessions : /\ \E t \in AllTargets : target' = [target EXCEPT ![s] = t]
                              /\ OwnTarget(s)'
                              /\ \A u \in Sessions \ {s} : pc'[u] = pc[u]
    BY <1>2, Steps, TargetMoves
  <2>2. TargetType'
    BY <2>1 DEF TargetType
  <2>3. ASSUME NEW u \in Sessions \ {s} PROVE OwnTarget(u)'
    <3>1. target'[u] = target[u] /\ pc'[u] = pc[u]
      BY <2>1 DEF TargetType
    <3> QED BY <1>1, <3>1 DEF OwnTarget
  <2> QED BY <2>1, <2>2, <2>3 DEF TargetInv, OwnTarget
<1>3. CASE UNCHANGED vars
  BY <1>3 DEF vars, TargetType, TargetInv
<1> QED BY <1>2, <1>3

(***************************************************************************)
(* Files.                                                                  *)
(***************************************************************************)

Begin(s, n) ==
    /\ pc[s] # "receiving"
    /\ pc' = [pc EXCEPT ![s] = "receiving"]
    /\ received' = [received EXCEPT ![s] = [blocks |-> 0, size |-> n]]
    /\ expected' = [expected EXCEPT ![dir(s)] = [i \in 1..n |-> s]]
    /\ disturbed' = [disturbed EXCEPT ![dir(s)] = Receiving(dir(s)) # {}]
    /\ file' = [file EXCEPT ![dir(s)] = <<>>]

Block(s, n) ==
    /\ pc[s] = "receiving"
    /\ file' = [file EXCEPT ![dir(s)] = Written(s)]
    /\ UNCHANGED <<expected, disturbed>>
    /\ \/ /\ n < received[s].size /\ UNCHANGED pc
          /\ received' = [received EXCEPT ![s] = [blocks |-> n, size |-> @.size]]
       \/ /\ n = received[s].size /\ pc' = [pc EXCEPT ![s] = "head"]
          /\ received' = [received EXCEPT ![s] = NoFile]

Break(s) ==
    /\ pc' = [pc EXCEPT ![s] = "ended"]
    /\ received' = [received EXCEPT ![s] = NoFile]
    /\ disturbed' = [disturbed EXCEPT ![dir(s)] = @ \/ pc[s] = "receiving"]
    /\ UNCHANGED <<file, expected>>

Elsewhere(s) ==
    /\ pc[s] # "receiving"
    /\ \E l \in Places \ {"receiving"} : pc' = [pc EXCEPT ![s] = l]
    /\ UNCHANGED files

\* What a step of a session does to the files.
LEMMA FileMoves ==
    ASSUME PlaceType, NEW s \in Sessions,
           \/ Connect(s) \/ LoadOver(s) \/ LoadLoops(s) \/ TakeIndex(s) \/ EndLoop(s)
           \/ ResetIndex(s) \/ LoadLoopsAgain(s) \/ TakeFirst(s) \/ StoreOver(s)
           \/ AskListed(s) \/ Type(s) \/ Quit(s) \/ ReceiveText(s) \/ ReceiveHeader(s)
           \/ Name(s) \/ ReceiveBlock(s) \/ Fail(s)
    PROVE  \/ \E n \in 1..2 : Begin(s, n)
           \/ Block(s, received[s].blocks + 1)
           \/ Break(s) \/ Elsewhere(s)
<1> DEFINE Other == {"head", "ended", "prompt", "loops", "index", "append?", "loops--",
                     "index=0", "again?", "next", "over", "asked", "name"}
<1>0. Other \subseteq Places \ {"receiving"}
  BY DEF Places, Choosing, Wrapping, Asking, Waiting
<1>1. ASSUME UNCHANGED files, pc[s] # "receiving", \E l \in Other : Goto(s, l)
      PROVE  Elsewhere(s)
  <2> HIDE DEF Other
  <2> QED BY <1>0, <1>1 DEF Elsewhere, Goto
<1>2. CASE Connect(s) \/ LoadOver(s) \/ LoadLoops(s) \/ TakeIndex(s) \/ EndLoop(s)
  BY <1>1, <1>2, StepPlace DEF Connect, LoadOver, LoadLoops, TakeIndex, EndLoop
<1>3. CASE ResetIndex(s) \/ LoadLoopsAgain(s) \/ TakeFirst(s) \/ StoreOver(s)
  BY <1>1, <1>3, StepPlace DEF ResetIndex, LoadLoopsAgain, TakeFirst, StoreOver
<1>4. CASE AskListed(s) \/ Type(s) \/ Quit(s) \/ ReceiveText(s)
  BY <1>1, <1>4, StepPlace DEF AskListed, Type, Quit, ReceiveText
<1>5. ASSUME OpenFile(s), pc[s] # "receiving" PROVE \E n \in 1..2 : Begin(s, n)
  BY <1>5 DEF OpenFile, Begins, Begin, Goto
<1>6. CASE ReceiveHeader(s) \/ Name(s)
  <2>1. pc[s] # "receiving"
    BY <1>6, StepPlace
  <2>2. OpenFile(s) \/ (Goto(s, "name") /\ UNCHANGED files)
    BY <1>6 DEF ReceiveHeader, Name
  <2> QED BY <1>1, <1>5, <2>1, <2>2
<1>7. CASE ReceiveBlock(s)
  <2>1. pc[s] = "receiving"
    BY <1>7, StepPlace
  <2>2. Block(s, received[s].blocks + 1)
    BY <1>7, <2>1 DEF ReceiveBlock, Block, Done, Goto
  <2> QED BY <2>2
<1>8. CASE Fail(s)
  BY <1>8 DEF Fail, Break, Goto
<1> QED BY <1>2, <1>3, <1>4, <1>6, <1>7, <1>8

LEMMA MaxOfTwo == ASSUME NEW a \in Nat, NEW b \in Nat
                  PROVE  Max({a, b}) = IF a >= b THEN a ELSE b
<1>1. \E x \in {a, b} : \A y \in {a, b} : x >= y
  OBVIOUS
<1> QED BY <1>1 DEF Max

LEMMA Lengths ==
    ASSUME NEW S, NEW n \in Nat, NEW c \in [1..n -> S]
    PROVE  Len(c) = n /\ DOMAIN c = 1..n
<1>1. c \in Seq(S)
  OBVIOUS
<1>2. DOMAIN c = 1..n /\ DOMAIN c = 1..Len(c) /\ Len(c) \in Nat
  BY <1>1, LenProperties
<1> QED BY <1>2

\* What writing a block leaves in a file.
LEMMA WrittenType ==
    ASSUME FileType, ReceivedInv, NEW s \in Sessions, pc[s] = "receiving"
    PROVE  /\ Written(s) \in Contents(Sessions \cup {Nobody})
           /\ file[dir(s)] = [i \in 1..received[s].blocks |-> s]
              => Written(s) = [i \in 1..(received[s].blocks + 1) |-> s]
<1> DEFINE old == file[dir(s)]
           pos == received[s].blocks + 1
<1>1. received[s].blocks \in 0..1 /\ pos \in 1..2
  BY DEF FileType, ReceivedInv
<1>2. PICK n \in 0..2 : old \in [1..n -> Sessions \cup {Nobody}]
  BY DirType DEF FileType, Contents
<1>3. Len(old) = n /\ DOMAIN old = 1..n
  BY <1>2, Lengths
<1>4. Max({pos, Len(old)}) = IF pos >= n THEN pos ELSE n
  BY <1>1, <1>3, MaxOfTwo
<1> DEFINE m == IF pos >= n THEN pos ELSE n
<1>5. Written(s) = [i \in 1..m |-> IF i = pos THEN s ELSE IF i \in 1..n THEN old[i] ELSE Nobody]
  BY <1>3, <1>4 DEF Written
<1>6. m \in 0..2
  BY <1>1
<1>7. Written(s) \in [1..m -> Sessions \cup {Nobody}]
  BY <1>2, <1>5
<1>8. ASSUME old = [i \in 1..received[s].blocks |-> s]
      PROVE  Written(s) = [i \in 1..pos |-> s]
  <2>1. DOMAIN old = 1..received[s].blocks
    BY <1>8
  <2>2. n = received[s].blocks
    BY <1>1, <1>3, <2>1
  <2>3. m = pos
    BY <1>1, <2>2
  <2>4. \A i \in 1..pos : i # pos => i \in 1..n /\ old[i] = s
    BY <1>1, <1>8, <2>2
  <2> QED BY <1>5, <2>3, <2>4
<1> QED BY <1>6, <1>7, <1>8 DEF Contents

LEMMA FileTypeStep ==
    TypeInv /\ [Next]_vars => FileType' /\ ReceivedInv'
<1> SUFFICES ASSUME TypeInv, [Next]_vars PROVE FileType' /\ ReceivedInv'
  OBVIOUS
<1>0. FileType /\ ReceivedInv /\ PlaceType
  BY TypeParts DEF TypeInv
<1>1. ASSUME NEW s \in Sessions, NEW n \in 1..2, Begin(s, n) PROVE FileType' /\ ReceivedInv'
  <2>1. <<>> \in Contents(Sessions \cup {Nobody}) /\ dir(s) \in Directory
    BY EmptyContents, DirType
  <2>2. [i \in 1..n |-> s] \in Contents(Sessions)
    BY DEF Contents
  <2>3. received' \in [Sessions -> [blocks : 0..2, size : 0..2]]
    BY <1>0, <1>1 DEF FileType, Begin
  <2>4. disturbed' \in [Directory -> BOOLEAN]
    BY <1>0, <1>1 DEF FileType, Begin
  <2>5. /\ file' \in [Directory -> Contents(Sessions \cup {Nobody})]
        /\ expected' \in [Directory -> Contents(Sessions)]
    BY <1>0, <1>1, <2>1, <2>2 DEF FileType, Begin
  <2>6. FileType'
    BY <2>3, <2>4, <2>5 DEF FileType
  <2>7. ReceivedInv'
    <3> SUFFICES ASSUME NEW u \in Sessions, pc'[u] = "receiving"
                 PROVE  received'[u].blocks < received'[u].size
      BY DEF ReceivedInv
    <3>1. CASE u = s
      <4>1. received'[u] = [blocks |-> 0, size |-> n]
        BY <1>0, <1>1, <3>1 DEF Begin, FileType
      <4> QED BY <4>1
    <3>2. CASE u # s
      <4>1. received'[u] = received[u] /\ pc'[u] = pc[u]
        BY <1>0, <1>1, <3>2 DEF Begin, FileType, PlaceType
      <4> QED BY <1>0, <4>1 DEF ReceivedInv
    <3> QED BY <3>1, <3>2
  <2> QED BY <2>6, <2>7
<1>2. ASSUME NEW s \in Sessions, Block(s, received[s].blocks + 1)
      PROVE  FileType' /\ ReceivedInv'
  <2>1. pc[s] = "receiving" /\ dir(s) \in Directory
    BY <1>2, DirType DEF Block
  <2>2. Written(s) \in Contents(Sessions \cup {Nobody})
    BY <1>0, <2>1, WrittenType
  <2>3. received[s].blocks + 1 \in 0..2 /\ received[s].size \in 0..2
    BY <1>0, <2>1 DEF FileType, ReceivedInv
  <2>4. received' \in [Sessions -> [blocks : 0..2, size : 0..2]]
    BY <1>0, <1>2, <2>3 DEF FileType, Block, NoFile
  <2>5. FileType'
    BY <1>0, <1>2, <2>2, <2>4 DEF FileType, Block
  <2>6. ReceivedInv'
    BY <1>0, <1>2 DEF FileType, ReceivedInv, Block, PlaceType
  <2> QED BY <2>5, <2>6
<1>3. ASSUME NEW s \in Sessions, Break(s) PROVE FileType' /\ ReceivedInv'
  <2>1. disturbed' \in [Directory -> BOOLEAN]
    <3>1. (disturbed[dir(s)] \/ pc[s] = "receiving") \in BOOLEAN
      OBVIOUS
    <3>2. disturbed' = [disturbed EXCEPT ![dir(s)] = disturbed[dir(s)] \/ pc[s] = "receiving"]
      BY <1>3 DEF Break
    <3> QED BY <1>0, <3>1, <3>2 DEF FileType
  <2>2. received' \in [Sessions -> [blocks : 0..2, size : 0..2]]
    <3>1. NoFile \in [blocks : 0..2, size : 0..2]
      BY DEF NoFile
    <3> QED BY <1>0, <1>3, <3>1 DEF FileType, Break
  <2>4. FileType'
    BY <1>0, <1>3, <2>1, <2>2 DEF FileType, Break
  <2>3. ReceivedInv'
    <3> SUFFICES ASSUME NEW u \in Sessions, pc'[u] = "receiving"
                 PROVE  received'[u].blocks < received'[u].size
      BY DEF ReceivedInv
    <3>1. u # s /\ pc'[u] = pc[u]
      BY <1>0, <1>3 DEF Break, PlaceType
    <3>2. received'[u] = received[u]
      BY <1>0, <1>3, <3>1 DEF Break, FileType
    <3> QED BY <1>0, <3>1, <3>2 DEF ReceivedInv
  <2> QED BY <2>3, <2>4
<1>4. ASSUME NEW s \in Sessions, Elsewhere(s) PROVE FileType' /\ ReceivedInv'
  BY <1>0, <1>4 DEF FileType, ReceivedInv, Elsewhere, PlaceType, files
<1>5. CASE UNCHANGED vars
  BY <1>0, <1>5 DEF FileType, ReceivedInv, vars, files
<1>6. CASE Next
  <2>1. PICK s \in Sessions : \/ \E n \in 1..2 : Begin(s, n)
                              \/ Block(s, received[s].blocks + 1)
                              \/ Break(s) \/ Elsewhere(s)
    BY <1>0, <1>6, Steps, FileMoves
  <2> QED BY <1>1, <1>2, <1>3, <1>4, <2>1
<1> QED BY <1>5, <1>6

LEMMA TypeStep == TypeInv /\ [Next]_vars => TypeInv'
<1> SUFFICES ASSUME TypeInv, [Next]_vars PROVE TypeInv'
  OBVIOUS
<1>1. SharedType /\ CopyType /\ PlaceType /\ TargetType /\ TargetInv
  BY TypeParts DEF TypeInv
<1>2. /\ SharedType' /\ CopyType' /\ PlaceType' /\ TargetType' /\ TargetInv'
      /\ FileType' /\ ReceivedInv'
  BY <1>1, SharedStep, PlaceStep, TargetStep, FileTypeStep
<1>3. TypeOK'
  BY <1>2 DEF TypeOK, SharedType, CopyType, PlaceType, TargetType, FileType, Places,
              AllTargets, Contents
<1> QED BY <1>2, <1>3 DEF TypeInv

(* The variables keep their types: the targets are those of the list and   *)
(* what is typed, and a file has as many blocks as a server sends.         *)
THEOREM TypeCorrect == Spec => []TypeOK
<1>1. TypeInv => TypeOK
  BY DEF TypeInv
<1> QED BY <1>1, TypeInit, TypeStep, PTL DEF Spec

\* A step of a session moves at most this one to a file or from it.
LEMMA ReceivingStep ==
    ASSUME PlaceType, NEW s \in Sessions, NEW l \in Places,
           pc' = [pc EXCEPT ![s] = l], NEW d \in Directory
    PROVE  /\ l = "receiving" /\ dir(s) = d => Receiving(d)' = Receiving(d) \cup {s}
           /\ l # "receiving" \/ dir(s) # d => Receiving(d)' = Receiving(d) \ {s}
BY DEF Receiving, PlaceType, dir

LEMMA FileStep == TypeInv /\ FileInv /\ [Next]_vars => FileInv'
<1> SUFFICES ASSUME TypeInv, FileInv, [Next]_vars,
                    NEW d \in Directory, ~disturbed'[d]
             PROVE  /\ Receiving(d)' = {} => file'[d] = expected'[d]
                    /\ \A t \in Receiving(d)' :
                          /\ Receiving(d)' = {t}
                          /\ file'[d] = [i \in 1..received'[t].blocks |-> t]
                          /\ expected'[d] = [i \in 1..received'[t].size |-> t]
  BY DEF FileInv
<1> DEFINE Goal == /\ Receiving(d)' = {} => file'[d] = expected'[d]
                   /\ \A t \in Receiving(d)' :
                         /\ Receiving(d)' = {t}
                         /\ file'[d] = [i \in 1..received'[t].blocks |-> t]
                         /\ expected'[d] = [i \in 1..received'[t].size |-> t]
<1>0. FileType /\ ReceivedInv /\ PlaceType
  BY TypeParts DEF TypeInv
<1>1. "receiving" \in Places /\ "head" \in Places /\ "ended" \in Places
  BY DEF Places, Waiting
\* Nothing changes for the directory.
<1>2. ASSUME NEW s \in Sessions, s \notin Receiving(d), Receiving(d)' = Receiving(d) \ {s},
             ~disturbed[d], file'[d] = file[d], expected'[d] = expected[d],
             \A t \in Sessions : t # s => received'[t] = received[t]
      PROVE  Goal
  <2>1. Receiving(d)' = Receiving(d) /\ Receiving(d) \subseteq Sessions
    BY <1>2 DEF Receiving
  <2>2. \A t \in Receiving(d) : received'[t] = received[t]
    BY <1>2, <2>1
  <2> QED BY <1>2, <2>1, <2>2 DEF FileInv
<1>3. ASSUME NEW s \in Sessions, NEW n \in 1..2, Begin(s, n) PROVE Goal
  <2>1. /\ s \notin Receiving(d)
        /\ dir(s) = d => Receiving(d)' = Receiving(d) \cup {s}
        /\ dir(s) # d => Receiving(d)' = Receiving(d) \ {s}
    BY <1>0, <1>1, <1>3, ReceivingStep DEF Begin, Receiving
  <2>2. CASE dir(s) = d
    <3>1. Receiving(d) = {}
      BY <1>0, <1>3, <2>2 DEF Begin, FileType
    <3>2. Receiving(d)' = {s}
      BY <2>1, <2>2, <3>1
    <3>3. /\ file'[d] = <<>> /\ expected'[d] = [i \in 1..n |-> s]
          /\ received'[s].blocks = 0 /\ received'[s].size = n
      BY <1>0, <1>3, <2>2 DEF Begin, FileType
    <3>4. <<>> = [i \in 1..0 |-> s]
      OBVIOUS
    <3> QED BY <3>2, <3>3, <3>4
  <2>3. CASE dir(s) # d
    BY <1>0, <1>2, <1>3, <2>1, <2>3 DEF Begin, FileType
  <2> QED BY <2>2, <2>3
<1>4. ASSUME NEW s \in Sessions, Block(s, received[s].blocks + 1) PROVE Goal
  <2>1. pc[s] = "receiving" /\ (s \in Receiving(d) <=> dir(s) = d) /\ dir(s) \in Directory
    BY <1>4, DirType DEF Block, Receiving
  <2>2. ~disturbed[d] /\ expected'[d] = expected[d]
    BY <1>4 DEF Block
  <2>3. CASE dir(s) # d
    <3>1. Receiving(d)' = Receiving(d) \ {s}
      <4>1. CASE pc' = pc
        BY <2>1, <2>3, <4>1 DEF Receiving
      <4>2. CASE pc' = [pc EXCEPT ![s] = "head"]
        BY <1>0, <1>1, <4>2, ReceivingStep
      <4> QED BY <1>4, <4>1, <4>2 DEF Block
    <3> QED BY <1>0, <1>2, <1>4, <2>1, <2>2, <2>3, <3>1 DEF Block, FileType
  <2>4. CASE dir(s) = d
    <3>1. /\ Receiving(d) = {s}
          /\ file[d] = [i \in 1..received[s].blocks |-> s]
          /\ expected[d] = [i \in 1..received[s].size |-> s]
      BY <2>1, <2>2, <2>4 DEF FileInv
    <3>2. file'[d] = [i \in 1..(received[s].blocks + 1) |-> s]
      BY <1>0, <1>4, <2>1, <2>4, <3>1, WrittenType DEF Block, FileType
    <3>3. CASE pc' = pc /\ received' = [received EXCEPT ![s] =
                                           [blocks |-> received[s].blocks + 1, size |-> @.size]]
      <4>1. Receiving(d)' = {s}
        BY <3>1, <3>3 DEF Receiving
      <4>2. received'[s].blocks = received[s].blocks + 1 /\ received'[s].size = received[s].size
        BY <1>0, <3>3 DEF FileType
      <4> QED BY <2>2, <3>1, <3>2, <4>1, <4>2
    <3>4. CASE received[s].blocks + 1 = received[s].size /\ pc' = [pc EXCEPT ![s] = "head"]
      <4>1. Receiving(d)' = {}
        <5>1. Receiving(d)' = Receiving(d) \ {s}
          BY <1>0, <1>1, <3>4, ReceivingStep
        <5> QED BY <3>1, <5>1
      <4> QED BY <2>2, <3>1, <3>2, <3>4, <4>1
    <3> QED BY <1>4, <3>3, <3>4 DEF Block
  <2> QED BY <2>3, <2>4
<1>5. ASSUME NEW s \in Sessions, Break(s) PROVE Goal
  <2>1. Receiving(d)' = Receiving(d) \ {s}
    BY <1>0, <1>1, <1>5, ReceivingStep DEF Break
  <2>2. s \notin Receiving(d) /\ ~disturbed[d]
    BY <1>0, <1>5 DEF Break, Receiving, FileType
  <2> QED BY <1>0, <1>2, <1>5, <2>1, <2>2 DEF Break, FileType
<1>6. ASSUME NEW s \in Sessions, Elsewhere(s) PROVE Goal
  <2>1. s \notin Receiving(d) /\ Receiving(d)' = Receiving(d) \ {s}
    BY <1>0, <1>6, ReceivingStep DEF Elsewhere, Receiving
  <2> QED BY <1>2, <1>6, <2>1 DEF Elsewhere, files
<1>7. CASE UNCHANGED vars
  BY <1>7 DEF vars, files, FileInv, Receiving
<1> QED BY <1>0, <1>3, <1>4, <1>5, <1>6, <1>7, Steps, FileMoves

(* A downloaded file holds the whole answer of the session that opened it  *)
(* last, unless that session failed or another one was writing it (the     *)
(* last directory, shared by several servers).                             *)
THEOREM FilesComplete == Spec => []FileCompleteUnlessDisturbed
<1>1. Init => FileInv
  BY DEF Init, FileInv, Receiving
<1>2. FileInv => FileCompleteUnlessDisturbed
  BY DEF FileInv, FileCompleteUnlessDisturbed
<1> QED BY <1>1, <1>2, TypeInit, TypeStep, FileStep, PTL DEF Spec

(***************************************************************************)
(* Loops over the list of targets.                                         *)
(***************************************************************************)

\* The sessions that have taken a target and not asked for it yet.
Takers(i) == {s \in Sessions : pc[s] = "append?" /\ target[s] = <<i>>}

\* How often a target was taken from the list.
Taken(i) == (Loops - targets_loops)
            + IF i <= targets_index /\ \A s \in Sessions : pc[s] # "index=0" THEN 1 ELSE 0

\* What the session that ends a loop knows of the atomics.
EndsLoop(s) ==
    /\ pc[s] = "loops--" => /\ targets_index = targets_size + 1 /\ targets_loops >= 1
                            /\ temp_loops[s] = targets_loops
    /\ pc[s] = "index=0" => targets_index = targets_size + 1 /\ targets_loops >= 0
    /\ pc[s] \in {"loops--", "index=0"} => temp_index[s] = targets_index
    /\ pc[s] \in {"again?", "next", "over"} => targets_index = 0 /\ targets_loops >= 0
    /\ pc[s] = "next" => targets_loops >= 1
    /\ pc[s] = "over" => targets_loops = 0

\* While the list is gone through, every take is an increment of the index, and
\* who ends a loop has the atomics for itself.
ListInv ==
    /\ \A i \in 1..targets_size : asked[i] + Cardinality(Takers(i)) = Taken(i)
    /\ (\A s \in Sessions : pc[s] \notin Wrapping)
          => targets_loops >= 1 /\ targets_index <= targets_size
    /\ \A s \in Sessions : pc[s] = "index" => temp_loops[s] = targets_loops
    /\ \A s \in Sessions : EndsLoop(s)

OverInv ==
    /\ \A s \in Sessions : pc[s] \notin Choosing
    /\ \A i \in 1..targets_size : asked[i] = Loops

LoopInv ==
    /\ ~Race(pc)
    /\ defined
    /\ IF targets_looping_over THEN OverInv ELSE ListInv

LEMMA TakersFinite ==
    ASSUME NEW i PROVE IsFiniteSet(Takers(i)) /\ Cardinality(Takers(i)) \in Nat
<1>1. IsFiniteSet(Sessions)
  BY ClientHttpAssumption, FS_Interval DEF Sessions
<1>2. Takers(i) \in SUBSET Sessions
  BY DEF Takers
<1> QED BY <1>1, <1>2, FS_Subset, FS_CardinalityType

\* A step outside the choice of a target.
LEMMA CalmStep ==
    ASSUME LoopInv, UNCHANGED <<atomics, choice, defined, asked>>,
           \A u \in Sessions : pc[u] \in Choosing \/ pc'[u] \in Choosing
               => pc'[u] = pc[u] /\ (pc[u] = "append?" => target'[u] = target[u])
    PROVE  LoopInv'
<1>1. /\ \A u \in Sessions, l \in Choosing : pc'[u] = l <=> pc[u] = l
      /\ \A u \in Sessions : pc'[u] \in Choosing <=> pc[u] \in Choosing
      /\ \A u \in Sessions : pc'[u] \in Wrapping <=> pc[u] \in Wrapping
  BY DEF Choosing
<1>2. \A u \in Sessions :
          /\ pc'[u] = "append?" <=> pc[u] = "append?"
          /\ pc'[u] = "index" <=> pc[u] = "index"
          /\ pc'[u] = "loops--" <=> pc[u] = "loops--"
          /\ pc'[u] = "index=0" <=> pc[u] = "index=0"
          /\ pc'[u] = "again?" <=> pc[u] = "again?"
          /\ pc'[u] = "next" <=> pc[u] = "next"
          /\ pc'[u] = "over" <=> pc[u] = "over"
  BY <1>1 DEF Choosing, Wrapping
<1>3. \A i : Takers(i)' = Takers(i)
  BY <1>2 DEF Takers, Choosing
<1>4. \A i : Taken(i)' = Taken(i)
  BY <1>2 DEF Taken, atomics
<1>5. \A u \in Sessions : EndsLoop(u) => EndsLoop(u)'
  BY <1>2 DEF EndsLoop, atomics, choice
<1>6. ~Race(pc')
  BY <1>1 DEF LoopInv, Race
<1>7. ListInv => ListInv'
  BY <1>1, <1>2, <1>3, <1>4, <1>5 DEF ListInv, atomics, choice
<1>8. OverInv => OverInv'
  BY <1>1 DEF OverInv
<1> QED BY <1>6, <1>7, <1>8 DEF LoopInv, atomics

\* What every step within the choice has in common, if nobody races.
Chooses(s, l) ==
    /\ ~targets_looping_over
    /\ pc[s] \in Choosing \cup {"head"} /\ pc'[s] = l
    /\ \A u \in Sessions \ {s} : pc'[u] = pc[u]
    /\ ~Race(pc')
    /\ asked' \in [1..targets_size -> 0..Loops + 1]

\* Nobody else chooses while a session ends a loop, and the other way round.
LEMMA Apart ==
    ASSUME LoopInv, NEW s \in Sessions, NEW l, Chooses(s, l)
    PROVE  /\ pc[s] \in Wrapping => \A u \in Sessions \ {s} : pc[u] \notin Choosing
           /\ l \in Wrapping => \A u \in Sessions \ {s} : pc[u] \notin Choosing
           /\ pc[s] \in Choosing \/ l \in Choosing
                  => \A u \in Sessions \ {s} : pc[u] \notin Wrapping
BY DEF LoopInv, Race, Chooses

LEMMA LoadStep ==
    ASSUME TypeInv, LoopInv, NEW s \in Sessions,
           \/ LoadOver(s) /\ Chooses(s, "loops")
           \/ LoadLoops(s) /\ Chooses(s, "index")
    PROVE  LoopInv'
<1>1. /\ UNCHANGED <<atomics, target, defined, asked>>
      /\ \A u \in Sessions \ {s} : pc'[u] = pc[u]
      /\ pc[s] \in {"head", "loops"} /\ pc'[s] \in {"loops", "index"}
      /\ ~targets_looping_over /\ ~Race(pc')
  BY DEF LoadOver, LoadLoops, Chooses, At
<1>2. \A u \in Sessions : pc'[u] \notin Wrapping /\ pc[u] \notin Wrapping
  BY <1>1, Apart DEF Choosing, Wrapping
<1>3. \A i : Takers(i)' = Takers(i)
  BY <1>1 DEF Takers
<1>4. \A i : Taken(i)' = Taken(i)
  BY <1>1, <1>2 DEF Taken, atomics, Wrapping
<1>5. \A u \in Sessions : pc'[u] = "index" => temp_loops'[u] = targets_loops
  BY <1>1 DEF LoadOver, LoadLoops, Chooses, LoopInv, ListInv, TypeInv, TypeOK, choice
<1>6. \A u \in Sessions : EndsLoop(u)'
  BY <1>2 DEF EndsLoop, Wrapping
<1>7. ListInv'
  BY <1>1, <1>2, <1>3, <1>4, <1>5, <1>6 DEF LoopInv, ListInv, atomics
<1> QED BY <1>1, <1>7 DEF LoopInv, atomics

LEMMA IndexStep ==
    ASSUME TypeInv, LoopInv, NEW s \in Sessions, NEW l, TakeIndex(s), Chooses(s, l)
    PROVE  LoopInv'
<1>0. /\ targets_loops \in Int /\ targets_index \in Nat /\ targets_size \in Nat \ {0}
      /\ Loops \in Nat
      /\ asked \in [1..targets_size -> 0..Loops + 1]
      /\ temp_loops \in [Sessions -> Int] /\ temp_index \in [Sessions -> Nat]
      /\ target \in [Sessions -> AllTargets]
  BY TypeParts, ClientHttpAssumption DEF TypeInv, SharedType, CopyType, TargetType
<1>1. /\ pc[s] = "index" /\ targets_index' = targets_index + 1
      /\ UNCHANGED <<targets_loops, targets_looping_over, defined, asked>>
      /\ ~targets_looping_over /\ ~Race(pc')
      /\ \A u \in Sessions \ {s} : pc'[u] = pc[u]
  BY DEF TakeIndex, At, Chooses
<1>2. /\ \A u \in Sessions : pc[u] \notin Wrapping
      /\ targets_loops >= 1 /\ targets_index <= targets_size
      /\ temp_loops[s] = targets_loops
  <2>1. \A u \in Sessions : pc[u] \notin Wrapping
    BY <1>1, Apart DEF Choosing, Wrapping
  <2> QED BY <1>1, <2>1 DEF LoopInv, ListInv
<1>3. CASE targets_index < targets_size
  <2>1. /\ target' = [target EXCEPT ![s] = <<targets_index + 1>>]
        /\ temp_loops' = [temp_loops EXCEPT ![s] = 0]
        /\ pc'[s] = "append?"
    <3>1. target[s] = <<>>
      BY <1>1 DEF TypeInv, TargetInv
    <3>2. Append(<<>>, targets_index + 1) = <<targets_index + 1>>
      OBVIOUS
    <3>3. Goto(s, "append?") /\ temp_loops' = [temp_loops EXCEPT ![s] = 0]
      BY <1>3 DEF TakeIndex
    <3>4. pc'[s] = "append?"
      BY <3>3, TypeParts DEF Goto, TypeInv, PlaceType
    <3>5. target' = [target EXCEPT ![s] = Append(target[s], targets_index + 1)]
      BY <1>3 DEF TakeIndex
    <3> QED BY <3>1, <3>2, <3>3, <3>4, <3>5
  <2>2. \A u \in Sessions : pc'[u] \notin Wrapping
    BY <1>1, <1>2, <2>1 DEF Wrapping
  <2>3. \A u \in Sessions \ {s} : target'[u] = target[u] /\ temp_loops'[u] = temp_loops[u]
    BY <1>0, <2>1
  <2>4. target'[s] = <<targets_index + 1>>
    BY <1>0, <2>1
  <2>5. ASSUME NEW i \in 1..targets_size
        PROVE  asked[i] + Cardinality(Takers(i)') = Taken(i)'
    <3>1. /\ asked[i] + Cardinality(Takers(i)) = Taken(i)
          /\ asked[i] \in Nat
          /\ IsFiniteSet(Takers(i)) /\ Cardinality(Takers(i)) \in Nat
      BY <1>0, <1>1, TakersFinite DEF LoopInv, ListInv
    <3>2. /\ Taken(i) = (Loops - targets_loops) + IF i <= targets_index THEN 1 ELSE 0
          /\ Taken(i)' = (Loops - targets_loops) + IF i <= targets_index + 1 THEN 1 ELSE 0
      BY <1>1, <1>2, <2>2 DEF Taken, Wrapping
    <3>3. s \notin Takers(i)
      BY <1>1 DEF Takers
    <3>4. CASE i = targets_index + 1
      <4>1. Takers(i)' = Takers(i) \cup {s}
        BY <1>1, <2>1, <2>3, <2>4, <3>4 DEF Takers
      <4>2. Cardinality(Takers(i)') = Cardinality(Takers(i)) + 1
        BY <3>1, <3>3, <4>1, FS_AddElement
      <4>3. ~(i <= targets_index) /\ i <= targets_index + 1
        BY <1>0, <3>4
      <4>4. Taken(i) = (Loops - targets_loops) + 0
        BY <3>2, <4>3
      <4>5. Taken(i)' = (Loops - targets_loops) + 1
        BY <3>2, <4>3
      <4>6. Loops - targets_loops \in Int
        BY <1>0
      <4> HIDE DEF Taken, Takers
      <4> QED BY <3>1, <4>2, <4>4, <4>5, <4>6
    <3>5. CASE i # targets_index + 1
      <4>1. <<targets_index + 1>> # <<i>>
        BY <3>5
      <4>2. Takers(i)' = Takers(i)
        BY <1>1, <2>1, <2>3, <2>4, <4>1 DEF Takers
      <4> QED BY <1>0, <3>1, <3>2, <3>5, <4>2
    <3> QED BY <3>4, <3>5
  <2>6. \A u \in Sessions : pc'[u] = "index" => temp_loops'[u] = targets_loops
    BY <1>1, <2>1, <2>3 DEF LoopInv, ListInv
  <2>7. \A u \in Sessions : EndsLoop(u)'
    BY <2>2 DEF EndsLoop, Wrapping
  <2>8. ListInv'
    BY <1>0, <1>1, <1>2, <1>3, <2>5, <2>6, <2>7 DEF ListInv
  <2> QED BY <1>1, <2>8 DEF LoopInv
<1>4. CASE ~(targets_index < targets_size)
  <2>1. /\ temp_index' = [temp_index EXCEPT ![s] = targets_index + 1]
        /\ UNCHANGED <<temp_loops, target>>
        /\ pc'[s] = "loops--"
    BY <1>4, TypeParts DEF TakeIndex, Goto, TypeInv, PlaceType
  <2>2. targets_index = targets_size
    BY <1>0, <1>2, <1>4
  <2>3. \A u \in Sessions \ {s} : pc[u] \notin Choosing
    BY <2>1, Apart DEF Chooses, Wrapping
  <2>4. /\ \A u \in Sessions : pc'[u] \notin {"index", "index=0"}
        /\ \A u \in Sessions : pc'[u] \in Wrapping => u = s
    BY <1>1, <2>1, <2>3 DEF Choosing, Wrapping
  <2>5. ASSUME NEW i \in 1..targets_size
        PROVE  asked[i] + Cardinality(Takers(i)') = Taken(i)'
    <3>1. Takers(i)' = Takers(i)
      BY <1>1, <2>1 DEF Takers
    <3>2. i <= targets_index /\ i <= targets_index + 1
      BY <1>0, <2>2
    <3>3. Taken(i)' = Taken(i)
      BY <1>1, <1>2, <2>4, <3>2 DEF Taken, Wrapping
    <3> QED BY <1>1, <3>1, <3>3 DEF LoopInv, ListInv
  <2>6. EndsLoop(s)'
    BY <1>0, <1>1, <1>2, <2>1, <2>2 DEF EndsLoop
  <2>7. \A u \in Sessions : EndsLoop(u)'
    BY <2>4, <2>6 DEF EndsLoop, Wrapping
  <2>8. ~(\A u \in Sessions : pc'[u] \notin Wrapping)
    BY <2>1 DEF Wrapping
  <2>9. ListInv'
    BY <1>1, <2>4, <2>5, <2>7, <2>8 DEF ListInv
  <2> QED BY <1>1, <2>9 DEF LoopInv
<1> QED BY <1>3, <1>4

LEMMA EndStep ==
    ASSUME TypeInv, LoopInv, NEW s \in Sessions, NEW l, Chooses(s, l),
           EndLoop(s) \/ ResetIndex(s) \/ LoadLoopsAgain(s)
    PROVE  LoopInv'
<1>0. /\ targets_loops \in Int /\ targets_index \in Nat /\ targets_size \in Nat \ {0}
      /\ Loops \in Nat
      /\ temp_loops \in [Sessions -> Int] /\ temp_index \in [Sessions -> Nat]
  BY TypeParts, ClientHttpAssumption DEF TypeInv, SharedType, CopyType
<1>1. /\ pc[s] \in {"loops--", "index=0", "again?"}
      /\ UNCHANGED <<targets_looping_over, defined, asked, target>>
      /\ ~targets_looping_over /\ ~Race(pc')
      /\ \A u \in Sessions \ {s} : pc'[u] = pc[u]
      /\ EndsLoop(s)
      /\ \A i \in 1..targets_size : asked[i] + Cardinality(Takers(i)) = Taken(i)
  <2>1. pc[s] \in {"loops--", "index=0", "again?"}
    BY DEF EndLoop, ResetIndex, LoadLoopsAgain, At
  <2>2. UNCHANGED <<targets_looping_over, defined, asked, target>>
    BY DEF EndLoop, ResetIndex, LoadLoopsAgain, atomics
  <2>3. ~Race(pc') /\ \A u \in Sessions \ {s} : pc'[u] = pc[u]
    BY DEF Chooses
  <2>4. ListInv
    BY <2>1 DEF LoopInv, Chooses
  <2> QED BY <2>1, <2>2, <2>3, <2>4 DEF ListInv, LoopInv, Chooses
<1>2. \A u \in Sessions \ {s} : pc[u] \notin Choosing
  BY <1>1, Apart DEF Wrapping
<1>3. \A u \in Sessions \ {s} : pc'[u] \notin {"append?", "index", "loops--", "index=0", "again?",
                                              "next", "over"}
  BY <1>1, <1>2 DEF Choosing, Wrapping
<1>4. \A u \in Sessions \ {s} : EndsLoop(u)'
  BY <1>3 DEF EndsLoop
<1>5. pc'[s] = l /\ l \in {"index=0", "again?", "next", "over"}
  BY TypeParts DEF EndLoop, ResetIndex, LoadLoopsAgain, Chooses, Goto, TypeInv, PlaceType
<1>6. \A i : Takers(i)' = Takers(i)
  BY <1>1, <1>3, <1>5 DEF Takers
\* What remains is what the atomics tell the session.
<1>7. ASSUME EndsLoop(s)', \A i \in 1..targets_size : Taken(i)' = Taken(i) PROVE LoopInv'
  <2>1. ~(\A u \in Sessions : pc'[u] \notin Wrapping) /\ \A u \in Sessions : pc'[u] # "index"
    BY <1>3, <1>5 DEF Wrapping
  <2>2. ListInv'
    BY <1>1, <1>4, <1>6, <1>7, <2>1 DEF ListInv
  <2> QED BY <1>1, <2>2 DEF LoopInv
<1>8. CASE EndLoop(s)
  <2>1. /\ pc[s] = "loops--" /\ pc'[s] = "index=0"
        /\ targets_loops' = Exchanged(targets_loops, temp_loops[s], temp_loops[s] - 1)
        /\ targets_index' = targets_index /\ temp_index' = temp_index
    BY <1>8, TypeParts DEF EndLoop, At, Goto, TypeInv, PlaceType
  <2>2. /\ targets_index = targets_size + 1 /\ targets_loops >= 1
        /\ temp_loops[s] = targets_loops /\ temp_index[s] = targets_index
    BY <1>1, <2>1 DEF EndsLoop
  <2>3. targets_loops' = targets_loops - 1
    BY <2>1, <2>2 DEF Exchanged
  <2>4. EndsLoop(s)'
    BY <1>0, <2>1, <2>2, <2>3 DEF EndsLoop
  <2>5. ASSUME NEW i \in 1..targets_size PROVE Taken(i)' = Taken(i)
    <3>1. i <= targets_index
      BY <1>0, <2>2
    <3>2. \A u \in Sessions : pc[u] # "index=0"
      BY <1>2, <2>1 DEF Choosing, Wrapping
    <3>3. Taken(i) = (Loops - targets_loops) + 1
      BY <3>1, <3>2 DEF Taken
    <3>4. Taken(i)' = (Loops - targets_loops') + 0
      BY <2>1 DEF Taken
    <3> QED BY <1>0, <2>3, <3>3, <3>4
  <2> QED BY <1>7, <2>4, <2>5
<1>9. CASE ResetIndex(s)
  <2>1. /\ pc[s] = "index=0" /\ pc'[s] = "again?"
        /\ targets_index' = Exchanged(targets_index, temp_index[s], 0)
        /\ targets_loops' = targets_loops
    BY <1>9, TypeParts DEF ResetIndex, At, Goto, TypeInv, PlaceType
  <2>2. targets_loops >= 0 /\ temp_index[s] = targets_index
    BY <1>1, <2>1 DEF EndsLoop
  <2>3. targets_index' = 0
    BY <2>1, <2>2 DEF Exchanged
  <2>4. EndsLoop(s)'
    BY <2>1, <2>2, <2>3 DEF EndsLoop
  <2>5. ASSUME NEW i \in 1..targets_size PROVE Taken(i)' = Taken(i)
    <3>1. ~(i <= targets_index')
      BY <2>3
    <3>2. Taken(i)' = (Loops - targets_loops') + 0
      BY <3>1 DEF Taken
    <3>3. Taken(i) = (Loops - targets_loops) + 0
      BY <2>1 DEF Taken
    <3> QED BY <2>1, <3>2, <3>3
  <2> QED BY <1>7, <2>4, <2>5
<1>10. CASE LoadLoopsAgain(s)
  <2>1. /\ pc[s] = "again?" /\ UNCHANGED <<targets_loops, targets_index>>
        /\ pc'[s] = IF targets_loops > 0 THEN "next" ELSE "over"
    BY <1>10, TypeParts DEF LoadLoopsAgain, At, Goto, TypeInv, PlaceType, atomics
  <2>2. targets_index = 0 /\ targets_loops >= 0
    BY <1>1, <2>1 DEF EndsLoop
  <2>3. EndsLoop(s)'
    BY <1>0, <2>1, <2>2 DEF EndsLoop
  <2>4. ASSUME NEW i \in 1..targets_size PROVE Taken(i)' = Taken(i)
    <3>1. ~(i <= targets_index)
      BY <2>2
    <3> QED BY <2>1, <3>1 DEF Taken
  <2> QED BY <1>7, <2>3, <2>4
<1> QED BY <1>8, <1>9, <1>10

\* The first target of the next loop is there.
LEMMA FirstStep ==
    ASSUME TypeInv, LoopInv, NEW s \in Sessions, TakeFirst(s), Chooses(s, "append?")
    PROVE  LoopInv'
<1>0. /\ targets_loops \in Int /\ targets_size \in Nat \ {0} /\ Loops \in Nat
      /\ asked \in [1..targets_size -> 0..Loops + 1]
      /\ target \in [Sessions -> AllTargets]
  BY TypeParts, ClientHttpAssumption DEF TypeInv, SharedType, TargetType
<1>1. /\ pc[s] = "next" /\ pc'[s] = "append?"
      /\ UNCHANGED <<targets_loops, targets_looping_over, asked>>
      /\ ~targets_looping_over /\ ~Race(pc')
      /\ \A u \in Sessions \ {s} : pc'[u] = pc[u]
      /\ targets_index = 0 /\ targets_loops >= 1
      /\ targets_index' = targets_index + 1
  BY DEF TakeFirst, At, Chooses, LoopInv, ListInv, EndsLoop
<1>2. /\ \A u \in Sessions \ {s} : pc[u] \notin Choosing
      /\ \A u \in Sessions \ {s} : pc'[u] \notin Choosing
  BY <1>1, Apart DEF Wrapping
<1>3. /\ target' = [target EXCEPT ![s] = <<1>>] /\ defined' = defined
      /\ targets_index' = 1
  <2>1. target[s] = <<>>
    BY <1>1 DEF TypeInv, TargetInv, Wrapping
  <2>2. Append(<<>>, 1) = <<1>>
    OBVIOUS
  <2>3. targets_index < targets_size /\ targets_index + 1 = 1
    BY <1>0, <1>1
  <2>4. target' = [target EXCEPT ![s] = Append(target[s], targets_index + 1)] /\ defined' = defined
    BY <2>3 DEF TakeFirst
  <2> QED BY <1>1, <2>1, <2>2, <2>3, <2>4
<1>4. /\ \A u \in Sessions : pc'[u] \notin Wrapping /\ pc'[u] # "index"
      /\ \A u \in Sessions : pc[u] \notin {"append?", "index=0"}
      /\ \A u \in Sessions : pc'[u] = "append?" <=> u = s
  BY <1>1, <1>2 DEF Choosing, Wrapping
<1>5. ASSUME NEW i \in 1..targets_size
      PROVE  asked[i] + Cardinality(Takers(i)') = Taken(i)'
  <2>1. asked[i] + Cardinality(Takers(i)) = Taken(i) /\ asked[i] \in Nat
    BY <1>0, <1>1 DEF LoopInv, ListInv
  <2>2. Takers(i) = {}
    BY <1>4 DEF Takers
  <2>3. Taken(i) = Loops - targets_loops
    <3>1. ~(i <= targets_index)
      BY <1>1
    <3>2. Taken(i) = (Loops - targets_loops) + 0
      BY <3>1 DEF Taken
    <3> QED BY <1>0, <3>2
  <2>4. Taken(i)' = (Loops - targets_loops) + IF i <= 1 THEN 1 ELSE 0
    BY <1>1, <1>3, <1>4 DEF Taken, Wrapping
  <2>5. Cardinality(Takers(i)) = 0
    BY <2>2, FS_EmptySet
  <2>6. target'[s] = <<1>>
    BY <1>0, <1>3
  <2>7. CASE i = 1
    <3>1. Takers(i)' = {s}
      BY <1>4, <2>6, <2>7 DEF Takers
    <3>2. Cardinality({s}) = 1
      BY FS_Singleton
    <3>3. Taken(i)' = (Loops - targets_loops) + 1
      BY <2>4, <2>7
    <3> QED BY <1>0, <2>1, <2>3, <2>5, <3>1, <3>2, <3>3
  <2>8. CASE i # 1
    <3>1. <<1>> # <<i>>
      BY <2>8
    <3>2. Takers(i)' = {}
      BY <1>4, <2>6, <3>1 DEF Takers
    <3>3. Cardinality(Takers(i)') = 0
      BY <3>2, FS_EmptySet
    <3>4. ~(i <= 1)
      BY <2>8
    <3>5. Taken(i)' = (Loops - targets_loops) + 0
      BY <2>4, <3>4
    <3> QED BY <1>0, <2>1, <2>3, <2>5, <3>3, <3>5
  <2> QED BY <2>7, <2>8
<1>6. \A u \in Sessions : EndsLoop(u)'
  BY <1>4 DEF EndsLoop, Wrapping
<1>7. ListInv'
  BY <1>0, <1>1, <1>3, <1>4, <1>5, <1>6 DEF ListInv
<1> QED BY <1>1, <1>3, <1>7 DEF LoopInv

\* The looping is over when all was asked for.
LEMMA OverStep ==
    ASSUME TypeInv, LoopInv, NEW s \in Sessions, StoreOver(s), Chooses(s, "prompt")
    PROVE  LoopInv'
<1>0. targets_size \in Nat \ {0} /\ Loops \in Nat /\ asked \in [1..targets_size -> 0..Loops + 1]
  BY TypeParts, ClientHttpAssumption DEF TypeInv, SharedType
<1>1. /\ pc[s] = "over" /\ pc'[s] = "prompt"
      /\ targets_looping_over' /\ UNCHANGED <<asked, defined>>
      /\ ~targets_looping_over /\ ~Race(pc')
      /\ \A u \in Sessions \ {s} : pc'[u] = pc[u]
      /\ targets_index = 0 /\ targets_loops = 0
  BY DEF StoreOver, At, Chooses, LoopInv, ListInv, EndsLoop
<1>2. \A u \in Sessions \ {s} : pc[u] \notin Choosing
  BY <1>1, Apart DEF Wrapping
<1>3. \A u \in Sessions : pc'[u] \notin Choosing
  BY <1>1, <1>2 DEF Choosing, Wrapping
<1>4. ASSUME NEW i \in 1..targets_size PROVE asked[i] = Loops
  <2>1. \A u \in Sessions : pc[u] # "append?"
    BY <1>1, <1>2 DEF Choosing
  <2>2. Takers(i) = {}
    BY <2>1 DEF Takers
  <2>3. Cardinality(Takers(i)) = 0
    BY <2>2, FS_EmptySet
  <2>4. asked[i] + Cardinality(Takers(i)) = Taken(i)
    BY <1>1 DEF LoopInv, ListInv
  <2>5. ~(i <= targets_index)
    BY <1>1
  <2>6. Taken(i) = (Loops - 0) + 0
    BY <1>1, <2>5 DEF Taken
  <2> QED BY <1>0, <2>3, <2>4, <2>6
<1>5. OverInv'
  BY <1>1, <1>3, <1>4 DEF OverInv
<1> QED BY <1>1, <1>5 DEF LoopInv

\* Asking for a listed target turns a take into a request.
LEMMA AskStep ==
    ASSUME TypeInv, LoopInv, NEW s \in Sessions, AskListed(s), Chooses(s, "asked")
    PROVE  LoopInv'
<1>0. /\ targets_size \in Nat \ {0} /\ Loops \in Nat /\ asked \in [1..targets_size -> 0..Loops + 1]
      /\ targets_loops \in Int /\ targets_index \in Nat
      /\ target \in [Sessions -> AllTargets]
  BY TypeParts, ClientHttpAssumption DEF TypeInv, SharedType, TargetType
<1>1. /\ pc[s] = "append?" /\ pc'[s] = "asked"
      /\ UNCHANGED <<atomics, choice, defined>>
      /\ ~targets_looping_over /\ ~Race(pc')
      /\ \A u \in Sessions \ {s} : pc'[u] = pc[u]
      /\ target' = [target EXCEPT ![s] = target[s]]
      /\ asked' = [i \in 1..targets_size |->
                      IF target[s] = <<i>> /\ asked[i] <= Loops THEN asked[i] + 1 ELSE asked[i]]
  BY <1>0 DEF AskListed, Ask, At, Chooses
<1>2. /\ \A u \in Sessions : pc[u] \notin Wrapping
      /\ \A u \in Sessions : pc'[u] \notin Wrapping
  <2>1. \A u \in Sessions \ {s} : pc[u] \notin Wrapping
    BY <1>1, Apart DEF Choosing
  <2> QED BY <1>1, <2>1 DEF Wrapping
<1>3. target' = target
  BY <1>0, <1>1
<1>4. ASSUME NEW i \in 1..targets_size
      PROVE  asked'[i] + Cardinality(Takers(i)') = Taken(i)'
  <2>1. /\ asked[i] + Cardinality(Takers(i)) = Taken(i)
        /\ asked[i] \in Nat
        /\ IsFiniteSet(Takers(i)) /\ Cardinality(Takers(i)) \in Nat
    BY <1>0, <1>1, TakersFinite DEF LoopInv, ListInv
  <2>2. Taken(i)' = Taken(i)
    BY <1>1, <1>2 DEF Taken, atomics, Wrapping
  <2>3. Takers(i)' = Takers(i) \ {s}
    BY <1>1, <1>3 DEF Takers
  <2>4. CASE target[s] = <<i>>
    <3>1. s \in Takers(i)
      BY <1>1, <2>4 DEF Takers
    <3>2. Cardinality(Takers(i)') = Cardinality(Takers(i)) - 1
      BY <2>1, <2>3, <3>1, FS_RemoveElement
    <3>3. asked[i] <= Loops
      <4>1. Cardinality(Takers(i)) # 0
        BY <2>1, <3>1, FS_EmptySet
      <4>2. targets_loops >= 1
        BY <1>1, <1>2 DEF LoopInv, ListInv
      <4>3. Taken(i) <= Loops /\ Taken(i) \in Int
        BY <1>0, <4>2 DEF Taken
      <4> QED BY <1>0, <2>1, <4>1, <4>3
    <3>4. asked'[i] = asked[i] + 1
      BY <1>1, <2>4, <3>3
    <3> QED BY <2>1, <2>2, <3>2, <3>4
  <2>5. CASE target[s] # <<i>>
    <3>1. Takers(i)' = Takers(i)
      BY <2>3, <2>5 DEF Takers
    <3>2. asked'[i] = asked[i]
      BY <1>1, <2>1, <2>5
    <3> QED BY <2>1, <2>2, <3>1, <3>2
  <2> QED BY <2>4, <2>5
<1>5. \A u \in Sessions : pc'[u] = "index" => temp_loops'[u] = targets_loops'
  BY <1>1 DEF LoopInv, ListInv, atomics, choice
<1>6. \A u \in Sessions : EndsLoop(u)'
  BY <1>2 DEF EndsLoop, Wrapping
<1>7. ListInv'
  BY <1>1, <1>2, <1>4, <1>5, <1>6 DEF LoopInv, ListInv, atomics
<1> QED BY <1>1, <1>7 DEF LoopInv, atomics

\* What is typed is no target of the list.
LEMMA TypedAsks ==
    ASSUME NEW t \in Targets, NEW i \in 1..targets_size
    PROVE  Append(t, Typed) # <<i>>
<1>1. i # 0 /\ targets_size \in Nat
  BY ClientHttpAssumption
<1>2. CASE t = <<>>
  <2>1. Append(<<>>, 0) = <<0>>
    OBVIOUS
  <2>2. <<0>> # <<i>>
    BY <1>1
  <2> QED BY <1>2, <2>1, <2>2 DEF Typed
<1>3. CASE \E j \in 1..targets_size : t = <<j>>
  <2>1. PICK j \in 1..targets_size : t = <<j>>
    BY <1>3
  <2>2. j \in Nat
    BY <1>1
  <2>3. <<j>> \in Seq(Nat) /\ Len(<<j>>) = 1
    BY <2>2
  <2>4. Len(Append(<<j>>, 0)) = 2
    BY <2>3
  <2>5. Len(<<i>>) = 1
    OBVIOUS
  <2> QED BY <2>1, <2>4, <2>5 DEF Typed
<1> QED BY <1>2, <1>3 DEF Targets

LEMMA LoopStep == TypeInv /\ (raced \/ LoopInv) /\ [Next]_vars => raced' \/ LoopInv'
<1> SUFFICES ASSUME TypeInv, raced \/ LoopInv, [Next]_vars, ~raced' PROVE LoopInv'
  OBVIOUS
<1>0. PlaceType /\ SharedType /\ CopyType /\ TargetInv /\ asked \in [1..targets_size -> 0..Loops + 1]
  BY TypeParts DEF TypeInv, SharedType
<1>1. CASE UNCHANGED vars
  <2>1. ~raced
    BY <1>1 DEF vars
  <2>2. LoopInv
    BY <2>1
  <2> QED BY <1>1, <2>2, CalmStep DEF vars, atomics, choice
<1>2. CASE Next
  <2>1. PICK s \in Sessions :
              \/ Connect(s) \/ LoadOver(s) \/ LoadLoops(s) \/ TakeIndex(s) \/ EndLoop(s)
              \/ ResetIndex(s) \/ LoadLoopsAgain(s) \/ TakeFirst(s) \/ StoreOver(s)
              \/ AskListed(s) \/ Type(s) \/ Quit(s) \/ ReceiveText(s) \/ ReceiveHeader(s)
              \/ Name(s) \/ ReceiveBlock(s) \/ Fail(s)
    BY <1>2, Steps
  <2>2. UNCHANGED <<pc, raced>> \/ \E l \in Places : Goto(s, l)
    <3> DEFINE Used == {"head", "ended", "prompt", "loops", "index", "append?", "loops--",
                        "index=0", "again?", "next", "over", "asked", "receiving", "name"}
    <3>1. Used \subseteq Places
      BY DEF Places, Choosing, Wrapping, Asking, Waiting
    <3>2. UNCHANGED <<pc, raced>> \/ \E l \in Used : Goto(s, l)
      BY <1>0, <2>1, StepPlace
    <3> QED BY <3>1, <3>2
  <2>3. ~raced
    BY <2>2 DEF Goto
  <2>4. LoopInv
    BY <2>3
  <2>5. \A u \in Sessions \ {s} : pc'[u] = pc[u]
    BY <1>0, <2>2 DEF Goto, PlaceType
  <2>6. ASSUME NEW l, Goto(s, l), ~targets_looping_over, pc[s] \in Choosing \cup {"head"},
               asked' \in [1..targets_size -> 0..Loops + 1]
        PROVE  Chooses(s, l)
    BY <1>0, <2>5, <2>6 DEF Goto, Chooses, PlaceType
  <2>7. pc[s] \in Choosing => ~targets_looping_over
    BY <2>4 DEF LoopInv, OverInv
  <2>8. SharedType'
    BY <1>0, SharedStep
  <2>9. asked' \in [1..targets_size -> 0..Loops + 1]
    BY <2>8 DEF SharedType
  <2>10. {"loops", "index", "append?", "loops--", "index=0", "again?", "next", "over"}
           \subseteq Choosing
    BY DEF Choosing, Wrapping
  \* The steps outside the choice.
  <2>11. ASSUME UNCHANGED <<atomics, choice, defined, asked>>,
                pc'[s] = pc[s] \/ (pc[s] \notin Choosing /\ pc'[s] \notin Choosing),
                pc[s] = "append?" => target'[s] = target[s],
                \A u \in Sessions \ {s} : target'[u] = target[u]
         PROVE  LoopInv'
    BY <2>4, <2>5, <2>11, CalmStep
  <2>12. {"head", "ended", "prompt", "connecting", "asked", "receiving", "name"} \cap Choosing = {}
    BY DEF Choosing, Wrapping
  <2>13. CASE Connect(s) \/ Quit(s) \/ ReceiveText(s) \/ ReceiveHeader(s) \/ Name(s)
              \/ ReceiveBlock(s) \/ Fail(s)
    <3>1. UNCHANGED <<atomics, choice, defined, asked>>
      BY <2>13 DEF Connect, Quit, ReceiveText, ReceiveHeader, Name, ReceiveBlock, Fail
    <3>2. /\ pc[s] \in {"connecting", "prompt", "asked", "name", "receiving"}
          /\ pc'[s] = pc[s] \/ pc'[s] \in {"head", "ended", "receiving", "name"}
      BY <1>0, <2>13, StepPlace DEF Goto, PlaceType, Waiting
    <3>3. \A u \in Sessions \ {s} : target'[u] = target[u]
      BY <2>13 DEF Connect, Quit, ReceiveText, ReceiveHeader, Name, ReceiveBlock, Fail, Done,
                   TypeInv, TypeOK
    <3> QED BY <2>11, <2>12, <3>1, <3>2, <3>3
  <2>14. CASE Type(s)
    <3>1. pc[s] = "prompt" /\ pc'[s] = "asked"
      BY <1>0, <2>14, StepPlace DEF Goto, PlaceType
    <3>2. target[s] \in Targets
      BY <1>0, <3>1 DEF TargetInv
    <3>3. asked' = asked
      <4>1. asked' = [i \in 1..targets_size |->
                         IF Append(target[s], Typed) = <<i>> /\ asked[i] <= Loops
                         THEN asked[i] + 1 ELSE asked[i]]
        BY <1>0, <2>14 DEF Type, Ask
      <4>2. \A i \in 1..targets_size : Append(target[s], Typed) # <<i>>
        BY <3>2, TypedAsks
      <4> QED BY <1>0, <4>1, <4>2
    <3>4. UNCHANGED <<atomics, choice, defined>>
      BY <2>14 DEF Type
    <3>5. \A u \in Sessions \ {s} : target'[u] = target[u]
      BY <2>14 DEF Type, Ask, TypeInv, TypeOK
    <3> QED BY <2>11, <2>12, <3>1, <3>3, <3>4, <3>5
  <2>15. CASE LoadOver(s)
    <3>1. UNCHANGED <<atomics, choice, defined, asked, target>> /\ pc[s] = "head"
      BY <2>15 DEF LoadOver, At
    <3>2. CASE targets_looping_over
      <4>1. pc'[s] = "prompt"
        BY <1>0, <2>15, <3>2 DEF LoadOver, Goto, PlaceType
      <4> QED BY <2>11, <2>12, <3>1, <4>1
    <3>3. CASE ~targets_looping_over
      <4>1. Goto(s, "loops")
        BY <2>15, <3>3 DEF LoadOver
      <4>2. Chooses(s, "loops")
        BY <2>6, <2>9, <3>1, <3>3, <4>1
      <4> QED BY <2>4, <2>15, <4>2, LoadStep
    <3> QED BY <3>2, <3>3
  <2>16. CASE LoadLoops(s)
    <3>1. Goto(s, "index") /\ pc[s] \in Choosing
      BY <1>0, <2>10, <2>16, StepPlace
    <3>2. Chooses(s, "index")
      BY <2>6, <2>7, <2>9, <3>1
    <3> QED BY <2>4, <2>16, <3>2, LoadStep
  <2>17. CASE TakeIndex(s)
    <3>1. pc[s] \in Choosing /\ \E l \in {"append?", "loops--"} : Goto(s, l)
      BY <1>0, <2>10, <2>17, StepPlace
    <3>2. \E l \in {"append?", "loops--"} : Chooses(s, l)
      BY <2>6, <2>7, <2>9, <3>1
    <3> QED BY <2>4, <2>17, <3>2, IndexStep
  <2>18. CASE EndLoop(s) \/ ResetIndex(s) \/ LoadLoopsAgain(s)
    <3>1. pc[s] \in Choosing /\ \E l \in {"index=0", "again?", "next", "over"} : Goto(s, l)
      BY <1>0, <2>10, <2>18, StepPlace
    <3>2. \E l \in {"index=0", "again?", "next", "over"} : Chooses(s, l)
      BY <2>6, <2>7, <2>9, <3>1
    <3> QED BY <2>4, <2>18, <3>2, EndStep
  <2>19. CASE TakeFirst(s)
    <3>1. pc[s] \in Choosing /\ Goto(s, "append?")
      BY <1>0, <2>10, <2>19, StepPlace
    <3>2. Chooses(s, "append?")
      BY <2>6, <2>7, <2>9, <3>1
    <3> QED BY <2>4, <2>19, <3>2, FirstStep
  <2>20. CASE StoreOver(s)
    <3>1. pc[s] \in Choosing /\ Goto(s, "prompt")
      BY <1>0, <2>10, <2>20, StepPlace
    <3>2. Chooses(s, "prompt")
      BY <2>6, <2>7, <2>9, <3>1
    <3> QED BY <2>4, <2>20, <3>2, OverStep
  <2>21. CASE AskListed(s)
    <3>1. pc[s] \in Choosing
      BY <1>0, <2>10, <2>21, StepPlace
    <3>2. Goto(s, "asked")
      BY <2>7, <2>21, <3>1 DEF AskListed, Ask
    <3>3. Chooses(s, "asked")
      BY <2>6, <2>7, <2>9, <3>1, <3>2
    <3> QED BY <2>4, <2>21, <3>3, AskStep
  <2> QED BY <2>1, <2>13, <2>14, <2>15, <2>16, <2>17, <2>18, <2>19, <2>20, <2>21
<1> QED BY <1>1, <1>2

LEMMA LoopInit == Init => LoopInv
<1> SUFFICES ASSUME Init PROVE LoopInv
  OBVIOUS
<1>1. \A s \in Sessions : pc[s] \notin Choosing /\ pc[s] \notin Wrapping
  BY DEF Init, Choosing, Wrapping
<1>2. ~Race(pc) /\ defined
  BY <1>1 DEF Race, Init
<1>3. CASE Loops = 0
  BY <1>1, <1>2, <1>3 DEF Init, LoopInv, OverInv
<1>4. CASE Loops # 0
  <2>1. ~targets_looping_over /\ targets_loops = Loops /\ targets_index = 0 /\ Loops \in Nat
        /\ targets_size \in Nat
    BY <1>4, ClientHttpAssumption DEF Init
  <2>2. ASSUME NEW i \in 1..targets_size PROVE asked[i] + Cardinality(Takers(i)) = Taken(i)
    <3>1. Takers(i) = {}
      BY DEF Init, Takers
    <3>2. Cardinality(Takers(i)) = 0
      BY <3>1, FS_EmptySet
    <3>3. ~(i <= targets_index)
      BY <2>1
    <3>4. Taken(i) = (Loops - Loops) + 0
      BY <2>1, <3>3 DEF Taken
    <3>5. asked[i] = 0
      BY DEF Init
    <3> QED BY <2>1, <3>2, <3>4, <3>5
  <2>3. \A s \in Sessions : pc[s] # "index" /\ EndsLoop(s)
    BY DEF Init, EndsLoop
  <2>4. ListInv
    BY <1>4, <2>1, <2>2, <2>3 DEF ListInv
  <2> QED BY <1>2, <2>1, <2>4 DEF LoopInv
<1> QED BY <1>3, <1>4

(* Unless a session ended a loop while another was choosing its target,    *)
(* every target of the list is asked for as often as the user wants, and   *)
(* the list is not read beyond its end.                                    *)
THEOREM LoopsExact == Spec => []LoopsExactUnlessRaced
<1>1. TypeInv /\ LoopInv => defined /\ LoopsAsEntered
  <2> SUFFICES ASSUME TypeInv, LoopInv, NEW i \in 1..targets_size
               PROVE  /\ asked[i] <= Loops
                      /\ targets_looping_over => asked[i] = Loops
    BY DEF LoopInv, LoopsAsEntered
  <2>1. /\ targets_loops \in Int /\ targets_index \in Nat /\ targets_size \in Nat \ {0}
        /\ Loops \in Nat /\ asked[i] \in Nat /\ Cardinality(Takers(i)) \in Nat
    BY TypeParts, ClientHttpAssumption, TakersFinite DEF TypeInv, SharedType
  <2>2. CASE targets_looping_over
    BY <2>1, <2>2 DEF LoopInv, OverInv
  <2>3. CASE ~targets_looping_over
    <3>1. asked[i] + Cardinality(Takers(i)) = Taken(i)
      BY <2>3 DEF LoopInv, ListInv
    <3>2. Taken(i) <= Loops
      <4>1. CASE targets_loops >= 1
        BY <2>1, <4>1 DEF Taken
      <4>2. CASE ~(targets_loops >= 1)
        <5>1. PICK s \in Sessions : pc[s] \in Wrapping
          BY <2>3, <4>2 DEF LoopInv, ListInv
        <5>2. EndsLoop(s)
          BY <2>3 DEF LoopInv, ListInv
        <5>3. targets_loops = 0
          BY <2>1, <4>2, <5>1, <5>2 DEF EndsLoop, Wrapping
        <5>4. pc[s] = "index=0" \/ targets_index = 0
          BY <4>2, <5>1, <5>2 DEF EndsLoop, Wrapping
        <5>5. ~(i <= targets_index /\ \A u \in Sessions : pc[u] # "index=0")
          BY <5>4
        <5>6. Taken(i) = (Loops - 0) + 0
          BY <5>3, <5>5 DEF Taken
        <5> QED BY <2>1, <5>6
      <4> QED BY <4>1, <4>2
    <3>3. Taken(i) \in Int
      BY <2>1 DEF Taken
    <3> QED BY <2>1, <2>3, <3>1, <3>2, <3>3
  <2> QED BY <2>2, <2>3
<1>2. TypeInv /\ (raced \/ LoopInv) => LoopsExactUnlessRaced
  BY <1>1 DEF LoopsExactUnlessRaced
<1> QED BY <1>2, TypeInit, LoopInit, TypeStep, LoopStep, PTL DEF Spec
=============================================================================
