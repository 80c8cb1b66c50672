--------------------------- MODULE VgaTextProofs ---------------------------
(***************************************************************************)
(* Proofs about VgaText, for every size of the screen and of a byte: main  *)
(* and the handler that interrupts it leave the position on the screen,    *)
(* store at most one row and one character below it, and a character that  *)
(* was not interrupted puts the adapter's cursor where the next one goes.  *)
(***************************************************************************)
EXTENDS VgaText, SequenceTheorems, TLAPS

(***************************************************************************)
(* What main can have to do yet, named by what comes first.                *)
(***************************************************************************)
Hi    == <<"hi">>
SelHi == <<"selHi", "hi">>
Lo    == <<"lo", "selHi", "hi">>
SelLo == <<"selLo", "lo", "selHi", "hi">>
ColSt == <<"col", "selLo", "lo", "selHi", "hi">>
RowSt == <<"line", "col", "selLo", "lo", "selHi", "hi">>
ScrollOff  == <<"scroll", "args", "line", "col", "selLo", "lo", "selHi", "hi">>
ToBelow    == <<"below", "args", "line", "col", "selLo", "lo", "selHi", "hi">>
\* Of a row that is full:
ReturnOnly == <<"return", "below", "args", "line", "col", "selLo", "lo", "selHi", "hi">>
FeedReturn == <<"feed", "return", "below", "args", "line", "col", "selLo", "lo", "selHi", "hi">>
\* Of a character, a line feed and a carriage return:
ToWrap     == <<"wrap", "below", "args", "line", "col", "selLo", "lo", "selHi", "hi">>
FeedWrap   == <<"feed", "wrap", "below", "args", "line", "col", "selLo", "lo", "selHi", "hi">>
ToRight    == <<"right", "wrap", "below", "args", "line", "col", "selLo", "lo", "selHi", "hi">>
Char == <<"show", "right", "wrap", "below", "args", "line", "col", "selLo", "lo", "selHi", "hi">>
NewLine == <<"return", "feed", "wrap", "below", "args", "line", "col", "selLo", "lo", "selHi", "hi">>
Carriage == <<"return", "wrap", "below", "args", "line", "col", "selLo", "lo", "selHi", "hi">>

\* Of vgaCls:
ClsCol == <<"clsCol">>
ClsRow == <<"clsLine", "clsCol">>

Plans == {<<>>, ClsCol, ClsRow, Hi, SelHi, Lo, SelLo, ColSt, RowSt, SetCursor, ScrollOff, ToBelow,
          ReturnOnly, FeedReturn, ToWrap, FeedWrap, ToRight, Char, NewLine, Carriage}

\* Where main is: the next thing to do, told apart when a full row is the reason.
StageOf(plan) ==
  CASE plan = <<>>       -> "none"
    [] plan = ReturnOnly -> "return full"
    [] plan = FeedReturn -> "feed full"
    [] plan \notin {<<>>, ReturnOnly, FeedReturn} -> Head(plan)
Stage == StageOf(todo)
Clears == {"clsLine", "clsCol"}
CursorOps == {"args", "line", "col", "selLo", "lo", "selHi", "hi"}

(***************************************************************************)
(* The inductive invariant.                                                *)
(***************************************************************************)
TypeInv ==
  /\ line \in Chars /\ col \in Chars /\ ln \in Chars /\ cl \in Chars
  /\ sel \in {CursorHi, CursorLo} /\ crt \in [{CursorHi, CursorLo} -> Int]
  /\ todo \in Plans

RowsOnScreen == line < Lines /\ ln < Lines
ColsOnScreen == col < Cols /\ cl < Cols

\* A byte in memory is main's copy, or what a handler left, which is on the
\* screen; once main has compared them with the screen, so are its copies.
CopiesFollow ==
  /\ Stage \notin Clears \cup {"none"} => (line = ln \/ line < Lines) /\ (col = cl \/ col < Cols)
  /\ Stage \in CursorOps \cup {"below", "scroll"} => ColsOnScreen
  /\ Stage \in CursorOps => RowsOnScreen

\* A placed position leaves the screen by one row or one column, not by both.
NearScreen ==
  placed /\ Stage # "none" =>
    /\ line =< Lines /\ ln =< Lines /\ col =< Cols /\ cl =< Cols
    /\ Stage \in {"show", "right", "return", "feed"} => RowsOnScreen /\ ColsOnScreen
    /\ Stage = "wrap" => RowsOnScreen \/ ColsOnScreen
    /\ Stage = "feed full" => RowsOnScreen

\* While the position is being cleared it is not one that was set.
ClearsUnset == Stage \in Clears => ~placed /\ torn

\* What an uninterrupted character has told the adapter so far.
CursorFollows ==
  ~torn =>
    /\ Stage # "none" => line = ln /\ col = cl
    /\ Stage = "lo" => sel = CursorLo
    /\ Stage \in {"selHi", "hi"} => crt[CursorLo] = CursorAt(line, col)[CursorLo]
    /\ Stage = "hi" => sel = CursorHi

IInv == /\ TypeInv /\ CopiesFollow /\ NearScreen /\ ClearsUnset /\ CursorFollows
        /\ PositionOnScreen /\ CursorHeals

-----------------------------------------------------------------------------
(***************************************************************************)
(* What is left to do after each step.                                     *)
(***************************************************************************)
Ops == CursorOps \cup Clears \cup {"show", "right", "return", "feed", "wrap", "below", "scroll"}

\* Sequences are joined one after the other.
LEMMA Join ==
  ASSUME NEW s \in Seq(Ops), NEW q \in Seq(Ops), NEW r \in Seq(Ops),
         Len(r) = Len(s) + Len(q),
         \A i \in 1..Len(r) : r[i] = IF i =< Len(s) THEN s[i] ELSE q[i - Len(s)]
  PROVE  s \o q = r
  BY SeqEqual, ConcatProperties

\* Every plan is a sequence of operations.
LEMMA PlanTypes ==
  /\ SetCursor \in Seq(Ops) /\ ToBelow \in Seq(Ops) /\ Plans \subseteq Seq(Ops)
<1>1. /\ <<>> \in Seq(Ops) /\ Hi \in Seq(Ops) /\ SelHi \in Seq(Ops) /\ Lo \in Seq(Ops)
      /\ SelLo \in Seq(Ops) /\ ColSt \in Seq(Ops) /\ RowSt \in Seq(Ops)
  BY DEF Ops, CursorOps, Hi, SelHi, Lo, SelLo, ColSt, RowSt
<1>2. SetCursor \in Seq(Ops) /\ ScrollOff \in Seq(Ops) /\ ToBelow \in Seq(Ops)
  BY DEF Ops, CursorOps, SetCursor, ScrollOff, ToBelow
<1>3. ReturnOnly \in Seq(Ops) /\ FeedReturn \in Seq(Ops)
  BY DEF Ops, CursorOps, ReturnOnly, FeedReturn
<1>4. ToWrap \in Seq(Ops) /\ FeedWrap \in Seq(Ops) /\ ToRight \in Seq(Ops)
  BY DEF Ops, CursorOps, ToWrap, FeedWrap, ToRight
<1>5. Char \in Seq(Ops) /\ NewLine \in Seq(Ops) /\ Carriage \in Seq(Ops)
  BY DEF Ops, CursorOps, Char, NewLine, Carriage
<1>6. ClsCol \in Seq(Ops) /\ ClsRow \in Seq(Ops)
  BY DEF Ops, Clears, ClsCol, ClsRow
<1> QED
  BY <1>1, <1>2, <1>3, <1>4, <1>5, <1>6 DEF Plans

\* What comes first in each plan, and what is left after it.
LEMMA Heads ==
  /\ Head(Hi) = "hi" /\ Head(SelHi) = "selHi" /\ Head(Lo) = "lo" /\ Head(SelLo) = "selLo"
  /\ Head(ColSt) = "col" /\ Head(RowSt) = "line" /\ Head(SetCursor) = "args"
  /\ Head(ScrollOff) = "scroll" /\ Head(ToBelow) = "below"
  /\ Head(ReturnOnly) = "return" /\ Head(FeedReturn) = "feed" /\ Head(ToWrap) = "wrap"
  /\ Head(FeedWrap) = "feed" /\ Head(ToRight) = "right"
  /\ Head(Char) = "show" /\ Head(NewLine) = "return" /\ Head(Carriage) = "return"
  /\ Head(ClsCol) = "clsCol" /\ Head(ClsRow) = "clsLine"
  BY DEF ClsCol, ClsRow, Hi, SelHi, Lo, SelLo, ColSt, RowSt, SetCursor, ScrollOff, ToBelow,
         ReturnOnly, FeedReturn, ToWrap, FeedWrap, ToRight, Char, NewLine, Carriage

LEMMA Tails ==
  /\ Tail(Hi) = <<>> /\ Tail(SelHi) = Hi /\ Tail(Lo) = SelHi /\ Tail(SelLo) = Lo
  /\ Tail(ColSt) = SelLo /\ Tail(RowSt) = ColSt /\ Tail(SetCursor) = RowSt
  /\ Tail(ScrollOff) = SetCursor /\ Tail(ToBelow) = SetCursor
  /\ Tail(ReturnOnly) = ToBelow /\ Tail(FeedReturn) = ReturnOnly
  /\ Tail(ToWrap) = ToBelow /\ Tail(FeedWrap) = ToWrap /\ Tail(ToRight) = ToWrap
  /\ Tail(Char) = ToRight /\ Tail(NewLine) = FeedWrap /\ Tail(Carriage) = ToWrap
  /\ Tail(ClsCol) = <<>> /\ Tail(ClsRow) = ClsCol
  BY DEF ClsCol, ClsRow, Hi, SelHi, Lo, SelLo, ColSt, RowSt, SetCursor, ScrollOff, ToBelow,
         ReturnOnly, FeedReturn, ToWrap, FeedWrap, ToRight, Char, NewLine, Carriage

\* Plans that begin alike differ, and none but the last is empty.
LEMMA Distinct ==
  /\ ReturnOnly # NewLine /\ ReturnOnly # Carriage /\ NewLine # Carriage
  /\ FeedReturn # FeedWrap
  /\ <<>> \notin {ClsCol, ClsRow, Hi, SelHi, Lo, SelLo, ColSt, RowSt, SetCursor, ScrollOff,
          ToBelow, ReturnOnly, FeedReturn, ToWrap, FeedWrap, ToRight, Char, NewLine, Carriage}
  BY DEF ClsCol, ClsRow, Hi, SelHi, Lo, SelLo, ColSt, RowSt, SetCursor, ScrollOff, ToBelow,
         ReturnOnly, FeedReturn, ToWrap, FeedWrap, ToRight, Char, NewLine, Carriage

\* The plans vgaPutChar starts with, and those Wrap and CheckBelow extend.
LEMMA Joins ==
  /\ \A plan \in Plans : <<>> \o plan = plan
  /\ <<"feed", "return">> \o ToBelow = FeedReturn
  /\ <<"scroll">> \o SetCursor = ScrollOff
  /\ Script("char") = Char /\ Script("\n") = NewLine /\ Script("\r") = Carriage
<1>1. \A plan \in Plans : <<>> \o plan = plan
  BY PlanTypes, ConcatEmptySeq
<1>2. <<"feed", "return">> \o ToBelow = FeedReturn
  <2>1. <<"feed", "return">> \in Seq(Ops) /\ FeedReturn \in Seq(Ops)
    BY PlanTypes DEF Ops, Plans
  <2>2. /\ Len(FeedReturn) = Len(<<"feed", "return">>) + Len(ToBelow)
        /\ \A i \in 1..Len(FeedReturn) :
             FeedReturn[i] = IF i =< Len(<<"feed", "return">>) THEN <<"feed", "return">>[i]
                             ELSE ToBelow[i - Len(<<"feed", "return">>)]
    BY DEF FeedReturn, ToBelow
  <2> QED
    BY <2>1, <2>2, PlanTypes, Join
<1>3. <<"scroll">> \o SetCursor = ScrollOff
  <2>1. <<"scroll">> \in Seq(Ops) /\ ScrollOff \in Seq(Ops)
    BY PlanTypes DEF Ops, Plans
  <2>2. /\ Len(ScrollOff) = Len(<<"scroll">>) + Len(SetCursor)
        /\ \A i \in 1..Len(ScrollOff) :
             ScrollOff[i] = IF i =< Len(<<"scroll">>) THEN <<"scroll">>[i]
                            ELSE SetCursor[i - Len(<<"scroll">>)]
    BY DEF ScrollOff, SetCursor
  <2> QED
    BY <2>1, <2>2, PlanTypes, Join
<1>4. Script("char") = Char
  <2> DEFINE s == <<"show", "right", "wrap", "below">>
  <2>1. s \in Seq(Ops) /\ Char \in Seq(Ops)
    BY PlanTypes DEF Ops, Plans
  <2>2. /\ Len(Char) = Len(s) + Len(SetCursor)
        /\ \A i \in 1..Len(Char) :
             Char[i] = IF i =< Len(s) THEN s[i] ELSE SetCursor[i - Len(s)]
    BY DEF Char, SetCursor
  <2> HIDE DEF s
  <2>3. s \o SetCursor = Char
    BY <2>1, <2>2, PlanTypes, Join
  <2> QED
    BY <2>3 DEF s, Script
<1>5. Script("\n") = NewLine
  <2> DEFINE s == <<"return", "feed", "wrap", "below">>
  <2>1. s \in Seq(Ops) /\ NewLine \in Seq(Ops)
    BY PlanTypes DEF Ops, Plans
  <2>2. /\ Len(NewLine) = Len(s) + Len(SetCursor)
        /\ \A i \in 1..Len(NewLine) :
             NewLine[i] = IF i =< Len(s) THEN s[i] ELSE SetCursor[i - Len(s)]
    BY DEF NewLine, SetCursor
  <2> HIDE DEF s
  <2>3. s \o SetCursor = NewLine
    BY <2>1, <2>2, PlanTypes, Join
  <2> QED
    BY <2>3 DEF s, Script
<1>6. Script("\r") = Carriage
  <2> DEFINE s == <<"return", "wrap", "below">>
  <2>1. s \in Seq(Ops) /\ Carriage \in Seq(Ops)
    BY PlanTypes DEF Ops, Plans
  <2>2. /\ Len(Carriage) = Len(s) + Len(SetCursor)
        /\ \A i \in 1..Len(Carriage) :
             Carriage[i] = IF i =< Len(s) THEN s[i] ELSE SetCursor[i - Len(s)]
    BY DEF Carriage, SetCursor
  <2> HIDE DEF s
  <2>3. s \o SetCursor = Carriage
    BY <2>1, <2>2, PlanTypes, Join
  <2> QED
    BY <2>3 DEF s, Script
<1> QED
  BY <1>1, <1>2, <1>3, <1>4, <1>5, <1>6

\* The stage each plan stands for.
LEMMA Stages ==
  /\ StageOf(<<>>) = "none" /\ StageOf(Char) = "show" /\ StageOf(ToRight) = "right"
  /\ StageOf(NewLine) = "return" /\ StageOf(Carriage) = "return" /\ StageOf(FeedWrap) = "feed"
  /\ StageOf(ToWrap) = "wrap" /\ StageOf(FeedReturn) = "feed full"
  /\ StageOf(ReturnOnly) = "return full" /\ StageOf(ToBelow) = "below"
  /\ StageOf(ScrollOff) = "scroll" /\ StageOf(SetCursor) = "args" /\ StageOf(RowSt) = "line"
  /\ StageOf(ColSt) = "col" /\ StageOf(SelLo) = "selLo" /\ StageOf(Lo) = "lo"
  /\ StageOf(SelHi) = "selHi" /\ StageOf(Hi) = "hi"
  /\ StageOf(ClsRow) = "clsLine" /\ StageOf(ClsCol) = "clsCol"
  BY Heads, Distinct DEF StageOf

LEMMA RestStage == \A plan \in Plans : plan = <<>> <=> StageOf(plan) = "none"
  BY Stages, Distinct DEF Plans

\* Which stage each step finds, and which it leaves.
LEMMA Moves ==
  ASSUME todo \in Plans
  PROVE  /\ Show => Stage = "show" /\ Stage' = "right"
         /\ Right => Stage = "right" /\ Stage' = "wrap"
         /\ Return => \/ Stage = "return" /\ Stage' \in {"feed", "wrap"}
                      \/ Stage = "return full" /\ Stage' = "below"
         /\ Feed => \/ Stage = "feed" /\ Stage' = "wrap"
                    \/ Stage = "feed full" /\ Stage' = "return full"
         /\ Wrap => Stage = "wrap" /\ Stage' = IF Wraps(cl') THEN "feed full" ELSE "below"
         /\ CheckBelow => Stage = "below" /\ Stage' = IF Below(ln') THEN "scroll" ELSE "args"
         /\ Scroll => Stage = "scroll" /\ Stage' = "args"
         /\ Args => Stage = "args" /\ Stage' = "line"
         /\ Store => \/ Do("line") /\ ~Do("col") /\ Stage = "line" /\ Stage' = "col"
                     \/ Do("col") /\ ~Do("line") /\ Stage = "col" /\ Stage' = "selLo"
         /\ SelectCursor => \/ Do("selLo") /\ Stage = "selLo" /\ Stage' = "lo"
                            \/ ~Do("selLo") /\ Stage = "selHi" /\ Stage' = "hi"
         /\ WriteCursor => \/ Do("lo") /\ ~Do("hi") /\ Stage = "lo" /\ Stage' = "selHi"
                           \/ Do("hi") /\ ~Do("lo") /\ Stage = "hi" /\ Stage' = "none"
         /\ ClsStore => \/ Do("clsLine") /\ ~Do("clsCol") /\ Stage = "clsLine" /\ Stage' = "clsCol"
                        \/ Do("clsCol") /\ ~Do("clsLine") /\ Stage = "clsCol" /\ Stage' = "none"
         /\ PutChar \/ ClsStore => todo' \in Plans
<1>1. /\ Do("show") => todo = Char
      /\ Do("right") => todo = ToRight
      /\ Do("return") => todo \in {NewLine, Carriage, ReturnOnly}
      /\ Do("feed") => todo \in {FeedWrap, FeedReturn}
      /\ Do("wrap") => todo = ToWrap
      /\ Do("below") => todo = ToBelow
      /\ Do("scroll") => todo = ScrollOff
      /\ Do("args") => todo = SetCursor
      /\ Do("line") => todo = RowSt
      /\ Do("col") => todo = ColSt
      /\ Do("selLo") => todo = SelLo
      /\ Do("lo") => todo = Lo
      /\ Do("selHi") => todo = SelHi
      /\ Do("hi") => todo = Hi
      /\ Do("clsLine") => todo = ClsRow
      /\ Do("clsCol") => todo = ClsCol
  BY Heads DEF Do, Plans
<1>2. todo # <<>> => Tail(todo) \in Plans
  BY Tails DEF Plans
<1>3. \A op : Do(op) /\ Then(<<>>) => todo' = Tail(todo) /\ todo' \in Plans
  BY <1>2, Joins DEF Do, Then
<1> DEFINE Leaves(op) == Do(op) /\ todo' = Tail(todo) /\ todo' \in Plans
<1>4. /\ Show => Leaves("show")
      /\ Right => Leaves("right")
      /\ Return => Leaves("return")
      /\ Feed => Leaves("feed")
      /\ Scroll => Leaves("scroll")
      /\ Args => Leaves("args")
      /\ Store => Leaves("line") \/ Leaves("col")
      /\ SelectCursor => Leaves("selLo") \/ Leaves("selHi")
      /\ WriteCursor => Leaves("lo") \/ Leaves("hi")
      /\ ClsStore => Leaves("clsLine") \/ Leaves("clsCol")
  BY <1>3, Zenon DEF Show, Right, Return, Feed, Scroll, Args, Store, SelectCursor, WriteCursor,
                     ClsStore
<1>5. \A op1, op2 : Do(op1) /\ Do(op2) => op1 = op2
  BY DEF Do
<1>6. /\ Leaves("show") => todo = Char /\ todo' = ToRight
      /\ Leaves("right") => todo = ToRight /\ todo' = ToWrap
      /\ Leaves("return") => \/ todo = NewLine /\ todo' = FeedWrap
                             \/ todo = Carriage /\ todo' = ToWrap
                             \/ todo = ReturnOnly /\ todo' = ToBelow
      /\ Leaves("feed") => \/ todo = FeedWrap /\ todo' = ToWrap
                           \/ todo = FeedReturn /\ todo' = ReturnOnly
      /\ Leaves("scroll") => todo = ScrollOff /\ todo' = SetCursor
      /\ Leaves("args") => todo = SetCursor /\ todo' = RowSt
  BY <1>1, Tails
<1>7. /\ Leaves("line") => todo = RowSt /\ todo' = ColSt
      /\ Leaves("col") => todo = ColSt /\ todo' = SelLo
      /\ Leaves("selLo") => todo = SelLo /\ todo' = Lo
      /\ Leaves("lo") => todo = Lo /\ todo' = SelHi
      /\ Leaves("selHi") => todo = SelHi /\ todo' = Hi
      /\ Leaves("hi") => todo = Hi /\ todo' = <<>>
      /\ Leaves("clsLine") => todo = ClsRow /\ todo' = ClsCol
      /\ Leaves("clsCol") => todo = ClsCol /\ todo' = <<>>
  BY <1>1, Tails
<1>8. /\ Leaves("show") => Stage = "show" /\ Stage' = "right"
      /\ Leaves("right") => Stage = "right" /\ Stage' = "wrap"
      /\ Leaves("return") => \/ Stage = "return" /\ Stage' \in {"feed", "wrap"}
                             \/ Stage = "return full" /\ Stage' = "below"
      /\ Leaves("feed") => \/ Stage = "feed" /\ Stage' = "wrap"
                           \/ Stage = "feed full" /\ Stage' = "return full"
      /\ Leaves("scroll") => Stage = "scroll" /\ Stage' = "args"
      /\ Leaves("args") => Stage = "args" /\ Stage' = "line"
  <2> HIDE DEF Leaves
  <2> QED
    BY <1>6, Stages DEF Stage
<1>9. /\ Leaves("line") => Stage = "line" /\ Stage' = "col"
      /\ Leaves("col") => Stage = "col" /\ Stage' = "selLo"
      /\ Leaves("selLo") => Stage = "selLo" /\ Stage' = "lo"
      /\ Leaves("lo") => Stage = "lo" /\ Stage' = "selHi"
      /\ Leaves("selHi") => Stage = "selHi" /\ Stage' = "hi"
      /\ Leaves("hi") => Stage = "hi" /\ Stage' = "none"
      /\ Leaves("clsLine") => Stage = "clsLine" /\ Stage' = "clsCol"
      /\ Leaves("clsCol") => Stage = "clsCol" /\ Stage' = "none"
  <2> HIDE DEF Leaves
  <2> QED
    BY <1>7, Stages DEF Stage
<1>10. Wrap => /\ Stage = "wrap" /\ Stage' = IF Wraps(cl') THEN "feed full" ELSE "below"
               /\ todo' \in Plans
  <2>1. ToBelow \in Plans /\ FeedReturn \in Plans
    BY DEF Plans
  <2>2. Wrap => /\ todo = ToWrap
                /\ todo' = (IF Wraps(cl') THEN <<"feed", "return">> ELSE <<>>) \o Tail(todo)
    BY <1>1 DEF Wrap, Then
  <2>3. Wrap => todo = ToWrap /\ todo' = IF Wraps(cl') THEN FeedReturn ELSE ToBelow
    BY <2>1, <2>2, Tails, Joins
  <2> QED
    BY <2>1, <2>3, Stages DEF Stage
<1>11. CheckBelow => /\ Stage = "below" /\ Stage' = IF Below(ln') THEN "scroll" ELSE "args"
                     /\ todo' \in Plans
  <2>1. SetCursor \in Plans /\ ScrollOff \in Plans
    BY DEF Plans
  <2>2. CheckBelow => /\ todo = ToBelow
                      /\ todo' = (IF Below(ln') THEN <<"scroll">> ELSE <<>>) \o Tail(todo)
    BY <1>1 DEF CheckBelow, Then
  <2>3. CheckBelow => todo = ToBelow /\ todo' = IF Below(ln') THEN ScrollOff ELSE SetCursor
    BY <2>1, <2>2, Tails, Joins
  <2> QED
    BY <2>1, <2>3, Stages DEF Stage
<1>12. \A op : Leaves(op) => todo' \in Plans /\ Do(op) /\ \A other : other # op => ~Do(other)
  BY <1>5
<1> HIDE DEF Leaves
<1> QED
  BY <1>4, <1>6, <1>7, <1>8, <1>9, <1>10, <1>11, <1>12 DEF PutChar

-----------------------------------------------------------------------------
\* The inductive invariant holds at first, and each action keeps each part of it.
LEMMA InitIInv == Init => IInv
<1> SUFFICES ASSUME Init PROVE IInv
  OBVIOUS
<1>1. 0 \in Chars /\ CursorAt(0, 0) \in [{CursorHi, CursorLo} -> Int]
  BY ScreenAssumption DEF Chars, CursorAt, Index
<1>2. TypeInv
  BY <1>1 DEF Init, TypeInv, Plans
<1> QED
  BY <1>2, Stages DEF Init, IInv, CopiesFollow, NearScreen, ClearsUnset, CursorFollows,
              PositionOnScreen, CursorHeals, AtRest, Stage, CursorOps, Clears

\* Bytes are numbers, and one below a bound is at most the bound after Inc.
LEMMA CharFacts ==
  /\ \A x \in Chars : x \in Nat /\ Inc(x) \in Chars
  /\ \A x \in Chars : (x < Lines => Inc(x) =< Lines) /\ (x < Cols => Inc(x) =< Cols)
  /\ 0 \in Chars /\ Lines - 1 \in Chars /\ Lines \in Nat /\ Cols \in Nat /\ 0 < Lines /\ 0 < Cols
  BY ScreenAssumption DEF Chars, Inc

\* The cursor registers hold two numbers, of an index that is one.
LEMMA CursorFacts ==
  /\ CursorHi # CursorLo
  /\ \A l, c \in Chars :
       CursorAt(l, c) \in [{CursorHi, CursorLo} -> Int] /\ Index(l, c) \in Nat
  BY ScreenAssumption DEF CursorAt, Index, Chars, CursorHi, CursorLo

LEMMA NextIInv == IInv /\ [Next]_vars => IInv'
<1>0. SUFFICES ASSUME IInv, [Next]_vars PROVE IInv'
  OBVIOUS
<1>1. TypeInv
  BY <1>0 DEF IInv
<1>2. CopiesFollow
  BY <1>0 DEF IInv
<1>3. NearScreen
  BY <1>0 DEF IInv
<1>4. CursorFollows
  BY <1>0 DEF IInv
<1>5. PositionOnScreen /\ CursorHeals
  BY <1>0 DEF IInv
<1>c. ClearsUnset
  BY <1>0 DEF IInv
<1>6. /\ line \in Nat /\ col \in Nat /\ ln \in Nat /\ cl \in Nat /\ 0 \in Chars
      /\ Lines \in Nat /\ Cols \in Nat /\ 0 < Lines /\ 0 < Cols /\ Lines - 1 \in Chars
  BY <1>1, CharFacts DEF TypeInv
<1>a. /\ Inc(line) \in Chars /\ Inc(ln) \in Chars /\ Inc(col) \in Chars /\ Inc(cl) \in Chars
      /\ line < Lines => Inc(line) =< Lines
      /\ ln < Lines => Inc(ln) =< Lines
      /\ col < Cols => Inc(col) =< Cols
      /\ cl < Cols => Inc(cl) =< Cols
  BY <1>1, CharFacts DEF TypeInv
<1>7. (AtRest <=> Stage = "none") /\ (todo' \in Plans => (AtRest' <=> Stage' = "none"))
  BY <1>1, RestStage DEF TypeInv, AtRest, Stage
<1>8. todo \in Plans /\ (todo' = todo => todo' \in Plans /\ Stage' = Stage /\ AtRest' = AtRest)
  BY <1>1 DEF TypeInv, Stage, AtRest
<1>9. CASE InitRuntime
  <2>1. /\ UNCHANGED <<ln, cl, sel, crt, todo>> /\ line' = 0 /\ col' = 0 /\ ~placed' /\ torn'
        /\ todo' \in Plans /\ Stage = "none" /\ Stage' = "none" /\ AtRest
    BY <1>9, <1>6, <1>7, <1>8 DEF InitRuntime, Phase, regs, hw
  <2>3. TypeInv'
    BY <2>1, <1>5, CursorFacts, <1>1, <1>6 DEF TypeInv
  <2>4. CopiesFollow'
    BY <2>1, <1>5, CursorFacts, <1>2, <1>6
       DEF CopiesFollow, RowsOnScreen, ColsOnScreen, CursorOps, Clears
  <2>5. NearScreen'
    BY <2>1, <1>5, CursorFacts, <1>3, <1>6 DEF NearScreen, RowsOnScreen, ColsOnScreen
  <2>6. CursorFollows'
    BY <2>1, <1>5, CursorFacts, <1>4 DEF CursorFollows
  <2>7. PositionOnScreen' /\ CursorHeals'
    BY <2>1, <1>5, CursorFacts DEF PositionOnScreen, CursorHeals
  <2> QED
    BY <2>1, <1>c, <2>3, <2>4, <2>5, <2>6, <2>7 DEF IInv, ClearsUnset, Clears
<1>10. CASE FindVga
  <2>1. /\ UNCHANGED <<ln, cl, todo>> /\ line' = 0 /\ col' = 0 /\ placed' /\ ~torn'
        /\ sel' = CursorHi /\ crt' = CursorAt(0, 0)
        /\ todo' \in Plans /\ Stage = "none" /\ Stage' = "none" /\ AtRest
    BY <1>10, <1>6, <1>7, <1>8 DEF FindVga, Phase, regs
  <2>3. TypeInv'
    BY <2>1, <1>5, CursorFacts, <1>1, <1>6 DEF TypeInv
  <2>4. CopiesFollow'
    BY <2>1, <1>5, CursorFacts, <1>2, <1>6
       DEF CopiesFollow, RowsOnScreen, ColsOnScreen, CursorOps, Clears
  <2>5. NearScreen'
    BY <2>1, <1>5, CursorFacts, <1>3, <1>6 DEF NearScreen, RowsOnScreen, ColsOnScreen
  <2>6. CursorFollows'
    BY <2>1, <1>5, CursorFacts, <1>4 DEF CursorFollows
  <2>7. PositionOnScreen' /\ CursorHeals'
    BY <2>1, <1>6 DEF PositionOnScreen, CursorHeals
  <2> QED
    BY <2>1, <1>c, <2>3, <2>4, <2>5, <2>6, <2>7 DEF IInv, ClearsUnset, Clears
<1>11. CASE ItrEnable
  <2>1. /\ UNCHANGED <<line, col, ln, cl, sel, crt, todo, placed, torn>>
        /\ todo' \in Plans /\ Stage = "none" /\ Stage' = "none" /\ AtRest
    BY <1>11, <1>6, <1>7, <1>8 DEF ItrEnable, Phase, pos, regs, hw
  <2>3. TypeInv'
    BY <2>1, <1>5, CursorFacts, <1>1, <1>6 DEF TypeInv
  <2>4. CopiesFollow'
    BY <2>1, <1>5, CursorFacts, <1>2, <1>6
       DEF CopiesFollow, RowsOnScreen, ColsOnScreen, CursorOps, Clears
  <2>5. NearScreen'
    BY <2>1, <1>5, CursorFacts, <1>3, <1>6 DEF NearScreen, RowsOnScreen, ColsOnScreen
  <2>6. CursorFollows'
    BY <2>1, <1>5, CursorFacts, <1>4 DEF CursorFollows
  <2>7. PositionOnScreen' /\ CursorHeals'
    BY <2>1, <1>5, CursorFacts DEF PositionOnScreen, CursorHeals
  <2> QED
    BY <2>1, <1>c, <2>3, <2>4, <2>5, <2>6, <2>7 DEF IInv, ClearsUnset, Clears
<1>12. ASSUME NEW here, NEW there, VgaCls(here, there) PROVE IInv'
  <2>1. /\ UNCHANGED <<line, col, cl, sel, crt>> /\ ln' \in Chars /\ ~placed' /\ torn'
        /\ todo' \in Plans /\ Stage' = "clsLine" /\ ~AtRest'
    <3>1. todo' = ClsRow
      BY <1>12 DEF VgaCls, ClsRow
    <3>2. ClsRow \in Plans /\ todo' \in Plans /\ Stage' = "clsLine"
      BY <3>1, Stages DEF Plans, Stage
    <3> QED
      BY <1>12, <1>7, <3>2 DEF VgaCls, pos, hw
  <2>3. TypeInv'
    BY <2>1, <1>1 DEF TypeInv
  <2>4. CopiesFollow'
    BY <2>1 DEF CopiesFollow, CursorOps, Clears
  <2>5. NearScreen'
    BY <2>1 DEF NearScreen
  <2>6. CursorFollows'
    BY <2>1 DEF CursorFollows
  <2>7. PositionOnScreen' /\ CursorHeals'
    BY <2>1 DEF PositionOnScreen, CursorHeals
  <2> QED
    BY <2>1, <2>3, <2>4, <2>5, <2>6, <2>7 DEF IInv, ClearsUnset
<1>b. CASE ClsStore
  <2>1. /\ UNCHANGED <<ln, cl, sel, crt, placed, torn>>
        /\ line' \in {line, ln} /\ col' \in {col, 0}
        /\ \/ Stage = "clsLine" /\ Stage' = "clsCol" /\ ~AtRest'
           \/ Stage = "clsCol" /\ Stage' = "none"
        /\ todo' \in Plans
    BY <1>b, <1>7, <1>8, Moves DEF ClsStore, Keep, regs, hw
  <2>2. ~placed' /\ torn'
    BY <2>1, <1>c DEF ClearsUnset, Clears
  <2>3. TypeInv'
    BY <2>1, <1>1, <1>6 DEF TypeInv
  <2>4. CopiesFollow'
    BY <2>1 DEF CopiesFollow, CursorOps, Clears
  <2>5. NearScreen'
    BY <2>2 DEF NearScreen
  <2>6. CursorFollows'
    BY <2>2 DEF CursorFollows
  <2>7. PositionOnScreen' /\ CursorHeals'
    BY <2>2 DEF PositionOnScreen, CursorHeals
  <2> QED
    BY <2>2, <2>3, <2>4, <2>5, <2>6, <2>7 DEF IInv, ClearsUnset
<1>13. CASE Launch
  <2>1. /\ UNCHANGED <<line, col, ln, cl, sel, crt, todo, placed, torn>>
        /\ todo' \in Plans /\ Stage = "none" /\ Stage' = "none" /\ AtRest
    BY <1>13, <1>6, <1>7, <1>8 DEF Launch, Phase, pos, regs, hw
  <2>3. TypeInv'
    BY <2>1, <1>5, CursorFacts, <1>1, <1>6 DEF TypeInv
  <2>4. CopiesFollow'
    BY <2>1, <1>5, CursorFacts, <1>2, <1>6
       DEF CopiesFollow, RowsOnScreen, ColsOnScreen, CursorOps, Clears
  <2>5. NearScreen'
    BY <2>1, <1>5, CursorFacts, <1>3, <1>6 DEF NearScreen, RowsOnScreen, ColsOnScreen
  <2>6. CursorFollows'
    BY <2>1, <1>5, CursorFacts, <1>4 DEF CursorFollows
  <2>7. PositionOnScreen' /\ CursorHeals'
    BY <2>1, <1>5, CursorFacts DEF PositionOnScreen, CursorHeals
  <2> QED
    BY <2>1, <1>c, <2>3, <2>4, <2>5, <2>6, <2>7 DEF IInv, ClearsUnset, Clears
<1>14. CASE Show
  <2>1. /\ UNCHANGED <<line, col, sel, crt, placed, torn>> /\ ln' \in {line, ln} /\ cl' \in {col, cl}
        /\ Stage = "show" /\ Stage' = "right"
        /\ todo' \in Plans /\ ~AtRest'
    BY <1>14, <1>7, <1>8, Moves DEF Show, pos, hw, PutChar
  <2>3. TypeInv'
    BY <2>1, <1>1, <1>6 DEF TypeInv
  <2>4. CopiesFollow'
    BY <2>1, <1>2, <1>6 DEF CopiesFollow, RowsOnScreen, ColsOnScreen, CursorOps, Clears
  <2>5. NearScreen'
    BY <2>1, <1>3, <1>6 DEF NearScreen, RowsOnScreen, ColsOnScreen
  <2>6. CursorFollows'
    BY <2>1, <1>4 DEF CursorFollows
  <2>7. PositionOnScreen' /\ CursorHeals'
    BY <2>1 DEF PositionOnScreen, CursorHeals
  <2> QED
    BY <2>1, <1>c, <2>3, <2>4, <2>5, <2>6, <2>7 DEF IInv, ClearsUnset, Clears
<1>15. CASE Right
  <2>1. /\ UNCHANGED <<line, ln, sel, crt, placed, torn>>
        /\ cl' \in {Inc(col), Inc(cl)} /\ col' = cl'
        /\ Stage = "right" /\ Stage' = "wrap"
        /\ todo' \in Plans /\ ~AtRest'
    BY <1>15, <1>7, <1>8, Moves DEF Right, Keep, hw, PutChar
  <2>3. TypeInv'
    BY <2>1, <1>1, <1>6, <1>a DEF TypeInv
  <2>4. CopiesFollow'
    BY <2>1, <1>2, <1>6, <1>a DEF CopiesFollow, RowsOnScreen, ColsOnScreen, CursorOps, Clears
  <2>5. NearScreen'
    BY <2>1, <1>3, <1>6, <1>a DEF NearScreen, RowsOnScreen, ColsOnScreen
  <2>6. CursorFollows'
    BY <2>1, <1>4 DEF CursorFollows
  <2>7. PositionOnScreen' /\ CursorHeals'
    BY <2>1 DEF PositionOnScreen, CursorHeals
  <2> QED
    BY <2>1, <1>c, <2>3, <2>4, <2>5, <2>6, <2>7 DEF IInv, ClearsUnset, Clears
<1>16. CASE Return
  <2>1. /\ UNCHANGED <<line, ln, sel, crt, placed, torn>> /\ col' = 0 /\ cl' = 0
        /\ \/ Stage = "return" /\ Stage' \in {"feed", "wrap"}
           \/ Stage = "return full" /\ Stage' = "below"
        /\ todo' \in Plans /\ ~AtRest'
    BY <1>16, <1>7, <1>8, Moves DEF Return, Keep, hw, PutChar
  <2>3. TypeInv'
    BY <2>1, <1>1, <1>6 DEF TypeInv
  <2>4. CopiesFollow'
    BY <2>1, <1>2, <1>6 DEF CopiesFollow, RowsOnScreen, ColsOnScreen, CursorOps, Clears
  <2>5. NearScreen'
    <3>0. col' = 0 /\ cl' = 0
      BY <2>1
    <3>1. col' =< Cols /\ cl' =< Cols /\ ColsOnScreen'
      BY <3>0, <1>6 DEF ColsOnScreen
    <3>2. placed' => line' =< Lines /\ ln' =< Lines
      BY <2>1, <1>3 DEF NearScreen
    <3>3. placed' /\ Stage = "return" => RowsOnScreen'
      BY <2>1, <1>3 DEF NearScreen, RowsOnScreen
    <3> QED
      BY <2>1, <3>1, <3>2, <3>3 DEF NearScreen
  <2>6. CursorFollows'
    BY <2>1, <1>4 DEF CursorFollows
  <2>7. PositionOnScreen' /\ CursorHeals'
    BY <2>1 DEF PositionOnScreen, CursorHeals
  <2> QED
    BY <2>1, <1>c, <2>3, <2>4, <2>5, <2>6, <2>7 DEF IInv, ClearsUnset, Clears
<1>17. CASE Feed
  <2>1. /\ UNCHANGED <<col, cl, sel, crt, placed, torn>>
        /\ ln' \in {Inc(line), Inc(ln)} /\ line' = ln'
        /\ \/ Stage = "feed" /\ Stage' = "wrap"
           \/ Stage = "feed full" /\ Stage' = "return full"
        /\ todo' \in Plans /\ ~AtRest'
    BY <1>17, <1>7, <1>8, Moves DEF Feed, Keep, hw, PutChar
  <2>3. TypeInv'
    BY <2>1, <1>1, <1>6, <1>a DEF TypeInv
  <2>4. CopiesFollow'
    BY <2>1, <1>2, <1>6, <1>a DEF CopiesFollow, RowsOnScreen, ColsOnScreen, CursorOps, Clears
  <2>5. NearScreen'
    BY <2>1, <1>3, <1>6, <1>a DEF NearScreen, RowsOnScreen, ColsOnScreen
  <2>6. CursorFollows'
    BY <2>1, <1>4 DEF CursorFollows
  <2>7. PositionOnScreen' /\ CursorHeals'
    BY <2>1 DEF PositionOnScreen, CursorHeals
  <2> QED
    BY <2>1, <1>c, <2>3, <2>4, <2>5, <2>6, <2>7 DEF IInv, ClearsUnset, Clears
<1>18. CASE Wrap
  <2>1. /\ UNCHANGED <<line, col, ln, sel, crt, placed, torn>> /\ cl' \in {col, cl}
        /\ Stage = "wrap"
        /\ \/ cl' >= Cols /\ Stage' = "feed full"
           \/ ~(cl' >= Cols) /\ Stage' = "below"
        /\ todo' \in Plans /\ ~AtRest'
    BY <1>18, <1>7, <1>8, Moves DEF Wrap, Wraps, Keep, pos, hw, PutChar
  <2>2. /\ Stage' = "below" => ColsOnScreen'
        /\ Stage' = "feed full" => ~ColsOnScreen
        /\ Stage' = "below" => cl' =< Cols
    <3>1. cl' \in {col, cl} /\ col' = col /\ (col = cl \/ col < Cols)
      BY <2>1, <1>2 DEF CopiesFollow, Clears
    <3>2. CASE cl' >= Cols
      <4>1. ~ColsOnScreen
        BY <3>1, <3>2, <1>6 DEF ColsOnScreen
      <4>2. Stage' = "feed full"
        BY <3>2, <2>1
      <4> QED
        BY <4>1, <4>2
    <3>3. CASE ~(cl' >= Cols)
      <4>1. ColsOnScreen'
        BY <3>1, <3>3, <1>6 DEF ColsOnScreen
      <4>2. cl' =< Cols
        BY <3>1, <3>3, <1>6
      <4> QED
        BY <4>1, <4>2, <3>3, <2>1
    <3> QED
      BY <3>2, <3>3
  <2>3. TypeInv'
    BY <2>1, <1>1, <1>6 DEF TypeInv
  <2>4. CopiesFollow'
    BY <2>1, <2>2, <1>2, <1>6 DEF CopiesFollow, RowsOnScreen, ColsOnScreen, CursorOps, Clears
  <2>5. NearScreen'
    BY <2>1, <2>2, <1>3, <1>6 DEF NearScreen, RowsOnScreen, ColsOnScreen
  <2>6. CursorFollows'
    BY <2>1, <1>4 DEF CursorFollows
  <2>7. PositionOnScreen' /\ CursorHeals'
    BY <2>1 DEF PositionOnScreen, CursorHeals
  <2> QED
    BY <2>1, <1>c, <2>3, <2>4, <2>5, <2>6, <2>7 DEF IInv, ClearsUnset, Clears
<1>19. CASE CheckBelow
  <2>1. /\ UNCHANGED <<line, col, cl, sel, crt, placed, torn>> /\ ln' \in {line, ln}
        /\ Stage = "below"
        /\ \/ ln' >= Lines /\ Stage' = "scroll"
           \/ ~(ln' >= Lines) /\ Stage' = "args"
        /\ todo' \in Plans /\ ~AtRest'
    BY <1>19, <1>7, <1>8, Moves DEF CheckBelow, Below, Keep, pos, hw, PutChar
  <2>3. TypeInv'
    BY <2>1, <1>1, <1>6 DEF TypeInv
  <2>4. CopiesFollow'
    BY <2>1, <1>2, <1>6 DEF CopiesFollow, RowsOnScreen, ColsOnScreen, CursorOps, Clears
  <2>5. NearScreen'
    BY <2>1, <1>3, <1>6 DEF NearScreen, RowsOnScreen, ColsOnScreen
  <2>6. CursorFollows'
    BY <2>1, <1>4 DEF CursorFollows
  <2>7. PositionOnScreen' /\ CursorHeals'
    BY <2>1 DEF PositionOnScreen, CursorHeals
  <2> QED
    BY <2>1, <1>c, <2>3, <2>4, <2>5, <2>6, <2>7 DEF IInv, ClearsUnset, Clears
<1>20. CASE Scroll
  <2>1. /\ UNCHANGED <<col, cl, sel, crt, placed, torn>> /\ ln' = Lines - 1 /\ line' = ln'
        /\ Stage = "scroll" /\ Stage' = "args"
        /\ todo' \in Plans /\ ~AtRest'
    BY <1>20, <1>7, <1>8, Moves DEF Scroll, Keep, hw, PutChar
  <2>3. TypeInv'
    BY <2>1, <1>1, <1>6 DEF TypeInv
  <2>4. CopiesFollow'
    BY <2>1, <1>2, <1>6 DEF CopiesFollow, RowsOnScreen, ColsOnScreen, CursorOps, Clears
  <2>5. NearScreen'
    BY <2>1, <1>3, <1>6 DEF NearScreen, RowsOnScreen, ColsOnScreen
  <2>6. CursorFollows'
    BY <2>1, <1>4 DEF CursorFollows
  <2>7. PositionOnScreen' /\ CursorHeals'
    BY <2>1 DEF PositionOnScreen, CursorHeals
  <2> QED
    BY <2>1, <1>c, <2>3, <2>4, <2>5, <2>6, <2>7 DEF IInv, ClearsUnset, Clears
<1>21. CASE Args
  <2>1. /\ UNCHANGED <<line, col, sel, crt, placed, torn>>
        /\ ln' \in {line, ln} /\ cl' \in {col, cl}
        /\ Stage = "args" /\ Stage' = "line"
        /\ todo' \in Plans /\ ~AtRest'
    BY <1>21, <1>7, <1>8, Moves DEF Args, Keep, pos, hw, PutChar
  <2>3. TypeInv'
    BY <2>1, <1>1, <1>6 DEF TypeInv
  <2>4. CopiesFollow'
    BY <2>1, <1>2, <1>6 DEF CopiesFollow, RowsOnScreen, ColsOnScreen, CursorOps, Clears
  <2>5. NearScreen'
    BY <2>1, <1>3, <1>6 DEF NearScreen, RowsOnScreen, ColsOnScreen
  <2>6. CursorFollows'
    BY <2>1, <1>4 DEF CursorFollows
  <2>7. PositionOnScreen' /\ CursorHeals'
    BY <2>1 DEF PositionOnScreen, CursorHeals
  <2> QED
    BY <2>1, <1>c, <2>3, <2>4, <2>5, <2>6, <2>7 DEF IInv, ClearsUnset, Clears
<1>22. CASE Store
  <2>1. /\ UNCHANGED <<ln, cl, sel, crt, placed, torn>>
        /\ \/ line' = ln /\ col' = col /\ Stage = "line" /\ Stage' = "col"
           \/ line' = line /\ col' = cl /\ Stage = "col" /\ Stage' = "selLo"
        /\ todo' \in Plans /\ ~AtRest'
    BY <1>22, <1>7, <1>8, Moves DEF Store, Keep, regs, hw, PutChar
  <2>3. TypeInv'
    BY <2>1, <1>1, <1>6 DEF TypeInv
  <2>4. CopiesFollow'
    BY <2>1, <1>2, <1>6 DEF CopiesFollow, RowsOnScreen, ColsOnScreen, CursorOps, Clears
  <2>5. NearScreen'
    BY <2>1, <1>3, <1>6 DEF NearScreen, RowsOnScreen, ColsOnScreen
  <2>6. CursorFollows'
    BY <2>1, <1>4 DEF CursorFollows
  <2>7. PositionOnScreen' /\ CursorHeals'
    BY <2>1 DEF PositionOnScreen, CursorHeals
  <2> QED
    BY <2>1, <1>c, <2>3, <2>4, <2>5, <2>6, <2>7 DEF IInv, ClearsUnset, Clears
<1>23. CASE SelectCursor
  <2>1. /\ UNCHANGED <<line, col, ln, cl, crt, placed, torn>>
        /\ \/ sel' = CursorLo /\ Stage = "selLo" /\ Stage' = "lo"
           \/ sel' = CursorHi /\ Stage = "selHi" /\ Stage' = "hi"
        /\ todo' \in Plans /\ ~AtRest'
    BY <1>23, <1>7, <1>8, Moves DEF SelectCursor, Select, Keep, pos, regs, PutChar
  <2>3. TypeInv'
    BY <2>1, <1>1, <1>6 DEF TypeInv
  <2>4. CopiesFollow'
    BY <2>1, <1>2, <1>6 DEF CopiesFollow, RowsOnScreen, ColsOnScreen, CursorOps, Clears
  <2>5. NearScreen'
    BY <2>1, <1>3, <1>6 DEF NearScreen, RowsOnScreen, ColsOnScreen
  <2>6. CursorFollows'
    BY <2>1, <1>4 DEF CursorFollows
  <2>7. PositionOnScreen' /\ CursorHeals'
    BY <2>1 DEF PositionOnScreen, CursorHeals
  <2> QED
    BY <2>1, <1>c, <2>3, <2>4, <2>5, <2>6, <2>7 DEF IInv, ClearsUnset, Clears
<1>24. CASE WriteCursor
  <2>1. /\ UNCHANGED <<line, col, ln, cl, sel, torn>> /\ todo' \in Plans
        /\ \/ /\ Stage = "lo" /\ Stage' = "selHi" /\ ~AtRest' /\ (placed' <=> placed)
              /\ crt' = [crt EXCEPT ![sel] = CursorAt(ln, cl)[CursorLo]]
           \/ /\ Stage = "hi" /\ Stage' = "none" /\ AtRest' /\ placed'
              /\ crt' = [crt EXCEPT ![sel] = CursorAt(ln, cl)[CursorHi]]
    <3>1. /\ UNCHANGED <<line, col, ln, cl, sel, torn>> /\ todo' \in Plans
          /\ placed' = (placed \/ Do("hi"))
          /\ crt' = [crt EXCEPT ![sel] = CursorAt(ln, cl)[IF Do("lo") THEN CursorLo ELSE CursorHi]]
      BY <1>24, <1>8, Moves DEF WriteCursor, Half, PutChar, pos, regs
    <3>2. CASE Do("lo") /\ ~Do("hi") /\ Stage = "lo" /\ Stage' = "selHi"
      BY <3>1, <3>2, <1>7
    <3>3. CASE Do("hi") /\ ~Do("lo") /\ Stage = "hi" /\ Stage' = "none"
      BY <3>1, <3>3, <1>7
    <3> QED
      BY <1>24, <1>8, <3>2, <3>3, Moves
  <2>2. /\ CursorAt(ln, cl) \in [{CursorHi, CursorLo} -> Int] /\ CursorHi # CursorLo
        /\ crt \in [{CursorHi, CursorLo} -> Int] /\ sel \in {CursorHi, CursorLo}
    BY <1>1, CursorFacts DEF TypeInv
  <2>3. TypeInv'
    BY <2>1, <2>2, <1>1 DEF TypeInv
  <2>4. CopiesFollow'
    BY <2>1, <1>2, <1>6 DEF CopiesFollow, RowsOnScreen, ColsOnScreen, CursorOps, Clears
  <2>5. NearScreen'
    BY <2>1, <1>3, <1>6 DEF NearScreen, RowsOnScreen, ColsOnScreen
  <2>6. CursorFollows' /\ CursorHeals'
    <3>1. CASE Stage = "lo"
      BY <3>1, <2>1, <2>2, <1>4 DEF CursorFollows, CursorHeals
    <3>2. CASE Stage = "hi"
      BY <3>2, <2>1, <2>2, <1>4 DEF CursorFollows, CursorHeals
    <3> QED
      BY <3>1, <3>2, <2>1
  <2>7. PositionOnScreen'
    BY <2>1, <1>2 DEF PositionOnScreen, CopiesFollow, CursorOps, RowsOnScreen, ColsOnScreen
  <2> QED
    BY <2>1, <1>c, <2>3, <2>4, <2>5, <2>6, <2>7 DEF IInv, ClearsUnset, Clears
<1>25. ASSUME NEW kind \in {"char", "\n", "\r"}, Putc(kind) PROVE IInv'
  <2>0. todo' \in Plans /\ Stage' \in {"show", "return"}
    BY <1>25, Joins, Stages DEF Putc, Plans, Stage
  <2>1. /\ UNCHANGED <<line, col, sel, crt, placed>> /\ ln' = line /\ cl' = col /\ ~torn'
        /\ Stage = "none" /\ AtRest /\ todo' \in Plans /\ Stage' \in {"show", "return"} /\ ~AtRest'
    BY <1>25, <1>7, <2>0 DEF Putc, pos, hw
  <2>2. placed' => line < Lines /\ col < Cols
    BY <2>1, <1>5 DEF PositionOnScreen
  <2>3. TypeInv'
    BY <2>1, <1>5, <1>1, <1>6 DEF TypeInv
  <2>4. CopiesFollow'
    BY <2>1, <1>5, <1>2, <1>6 DEF CopiesFollow, RowsOnScreen, ColsOnScreen, CursorOps, Clears
  <2>5. NearScreen'
    <3>1. placed' => RowsOnScreen' /\ ColsOnScreen'
      BY <2>1, <2>2 DEF RowsOnScreen, ColsOnScreen
    <3>2. placed' => line' =< Lines /\ ln' =< Lines /\ col' =< Cols /\ cl' =< Cols
      BY <2>1, <2>2, <1>6
    <3> QED
      BY <2>1, <3>1, <3>2 DEF NearScreen
  <2>6. CursorFollows'
    BY <2>1, <1>5, <1>4 DEF CursorFollows
  <2>7. PositionOnScreen' /\ CursorHeals'
    BY <2>1, <1>5 DEF PositionOnScreen, CursorHeals
  <2> QED
    BY <2>1, <1>c, <2>3, <2>4, <2>5, <2>6, <2>7 DEF IInv, ClearsUnset, Clears
<1>26. ASSUME NEW kind \in {"char", "\n", "\r"}, IrqPutc(kind) PROVE IInv'
  <2>0. PICK l \in Chars, c \in Chars :
          /\ line' = l /\ col' = c /\ l < Lines /\ c < Cols
          /\ sel' = CursorHi /\ crt' = CursorAt(l, c)
    <3> DEFINE p == Scrolled(Wrapped(Advanced(kind)))
    <3>1. PICK l \in Chars, c \in Chars : Advanced(kind) = <<l, c>>
      BY <1>26, <1>1, <1>6, <1>a DEF Advanced, TypeInv
    <3>2. PICK l2 \in Chars, c2 \in Chars : c2 < Cols /\ Wrapped(<<l, c>>) = <<l2, c2>>
      BY <1>6, CharFacts DEF Wrapped, Wraps
    <3>3. PICK l3 \in Chars : l3 < Lines /\ Scrolled(<<l2, c2>>) = <<l3, c2>>
      <4>1. CASE l2 >= Lines
        BY <4>1, <1>6 DEF Scrolled, Below
      <4>2. CASE ~(l2 >= Lines)
        <5>1. l2 \in Nat /\ l2 < Lines
          BY <4>2, <1>6, CharFacts
        <5> QED
          BY <4>2, <5>1 DEF Scrolled, Below
      <4> QED
        BY <4>1, <4>2
    <3>4. p = <<l3, c2>>
      BY <3>1, <3>2, <3>3
    <3>5. line' = p[1] /\ col' = p[2] /\ sel' = CursorHi /\ crt' = CursorAt(p[1], p[2])
      BY <1>26 DEF IrqPutc
    <3> HIDE DEF p
    <3> QED
      BY <3>2, <3>3, <3>4, <3>5
  <2>1. /\ line' \in Chars /\ col' \in Chars /\ line' \in Nat /\ col' \in Nat
        /\ line' < Lines /\ col' < Cols
        /\ UNCHANGED <<ln, cl, todo>> /\ sel' = CursorHi /\ crt' = CursorAt(line', col')
        /\ placed' = (placed \/ AtRest) /\ torn' = ~AtRest
        /\ todo' \in Plans /\ Stage' = Stage /\ AtRest' = AtRest /\ (AtRest <=> Stage = "none")
    BY <1>26, <2>0, <1>7, <1>8, CharFacts DEF IrqPutc, regs
  <2>2. Stage # "none" => (placed' => placed)
    BY <2>1
  <2>3. TypeInv'
    BY <2>1, CursorFacts, <1>1, <1>6 DEF TypeInv
  <2>4. CopiesFollow'
    BY <2>1, CursorFacts, <1>2, <1>6 DEF CopiesFollow, RowsOnScreen, ColsOnScreen, CursorOps, Clears
  <2>5. NearScreen'
    <3>1. line' =< Lines /\ col' =< Cols
      BY <2>1, <1>6
    <3>2. (RowsOnScreen => RowsOnScreen') /\ (ColsOnScreen => ColsOnScreen')
      BY <2>1 DEF RowsOnScreen, ColsOnScreen
    <3>3. ln' = ln /\ cl' = cl /\ Stage' = Stage
      BY <2>1
    <3> QED
      BY <3>1, <3>2, <3>3, <2>2, <1>3 DEF NearScreen
  <2>6. CursorFollows'
    BY <2>1, CursorFacts, <1>4 DEF CursorFollows
  <2>7. PositionOnScreen' /\ CursorHeals'
    BY <2>1, CursorFacts DEF PositionOnScreen, CursorHeals
  <2> QED
    BY <2>1, <1>c, <2>3, <2>4, <2>5, <2>6, <2>7 DEF IInv, ClearsUnset, Clears
<1>27. CASE UNCHANGED vars
  <2>1. /\ UNCHANGED <<line, col, ln, cl, sel, crt, todo, placed, torn>>
        /\ todo' \in Plans /\ Stage' = Stage /\ AtRest' = AtRest
    BY <1>27, <1>8 DEF vars, pos, regs, hw
  <2>3. TypeInv'
    BY <2>1, <1>5, <1>1, <1>6 DEF TypeInv
  <2>4. CopiesFollow'
    BY <2>1, <1>5, <1>2, <1>6 DEF CopiesFollow, RowsOnScreen, ColsOnScreen, CursorOps, Clears
  <2>5. NearScreen'
    BY <2>1, <1>5, <1>3, <1>6 DEF NearScreen, RowsOnScreen, ColsOnScreen
  <2>6. CursorFollows'
    BY <2>1, <1>5, <1>4 DEF CursorFollows
  <2>7. PositionOnScreen' /\ CursorHeals'
    BY <2>1, <1>5 DEF PositionOnScreen, CursorHeals
  <2> QED
    BY <2>1, <1>c, <2>3, <2>4, <2>5, <2>6, <2>7 DEF IInv, ClearsUnset, Clears
<1> QED
  BY <1>0, <1>9, <1>10, <1>11, <1>12, <1>b, <1>13, <1>14, <1>15, <1>16, <1>17, <1>18, <1>19,
     <1>20, <1>21, <1>22, <1>23, <1>24, <1>25, <1>26, <1>27 DEF Next, Boot, PutChar
LEMMA SpecIInv == Spec => []IInv
<1> QED
  BY InitIInv, NextIInv, PTL DEF Spec

-----------------------------------------------------------------------------
\* Between two characters of main the position is on the screen, whatever
\* handlers printed in between, from the first character that was finished on,
\* and even if the position was undefined before it (PositionOnScreen).
THEOREM PositionStaysOnScreen == Spec => []PositionOnScreen
<1>1. IInv => PositionOnScreen
  BY DEF IInv
<1> QED
  BY SpecIInv, <1>1, PTL

\* The adapter's cursor is where the next character goes whenever main is
\* between two characters and the latest was not interrupted (CursorHeals).
THEOREM CursorIsHealed == Spec => []CursorHeals
<1>1. IInv => CursorHeals
  BY DEF IInv
<1> QED
  BY SpecIInv, <1>1, PTL

\* A place at most a row and a column past the screen has at most this index.
LEMMA IndexGrows ==
  ASSUME NEW l \in Nat, NEW c \in Nat, l =< Lines, c =< Cols
  PROVE  Index(l, c) =< Index(Lines, Cols)
<1>1. l * Cols =< Lines * Cols
  BY ScreenAssumption
<1>2. l * Cols \in Nat /\ Lines * Cols \in Nat /\ Lines \in Nat /\ Cols \in Nat
  BY ScreenAssumption
<1> QED
  BY <1>1, <1>2 DEF Index

\* No character, of main or of a handler, is stored more than one row and one
\* character below the screen once a position has been set (StoresNearScreen).
THEOREM StoresStayNear == Spec => StoresNearScreen
<1>1. IInv /\ [Next]_vars => [placed /\ at' # at => at' =< Index(Lines, Cols)]_vars
  <2>0. SUFFICES ASSUME IInv, Next, placed, at' # at PROVE at' =< Index(Lines, Cols)
    BY DEF vars
  <2>1. TypeInv /\ NearScreen /\ PositionOnScreen
    BY <2>0 DEF IInv
  <2>2. /\ line \in Nat /\ col \in Nat /\ ln \in Nat /\ cl \in Nat
        /\ Lines \in Nat /\ Cols \in Nat
    BY <2>1, CharFacts DEF TypeInv
  <2>3. (AtRest <=> Stage = "none") /\ todo \in Plans
    BY <2>1, RestStage DEF TypeInv, AtRest, Stage
  <2>4. line =< Lines /\ col =< Cols
    <3>1. CASE AtRest
      <4>1. line < Lines /\ col < Cols
        BY <3>1, <2>0, <2>1 DEF PositionOnScreen
      <4> QED
        BY <4>1, <2>2
    <3>2. CASE ~AtRest
      BY <3>2, <2>0, <2>1, <2>3 DEF NearScreen
    <3> QED
      BY <3>1, <3>2
  <2>5. CASE Show
    <3>1. Stage # "none"
      BY <2>3, <2>5, Moves
    <3>2. ln =< Lines /\ cl =< Cols
      BY <3>1, <2>0, <2>1 DEF NearScreen
    <3>3. ln' \in {line, ln} /\ cl' \in {col, cl} /\ at' = Index(ln', cl')
      BY <2>5 DEF Show
    <3> QED
      BY <3>2, <3>3, <2>2, <2>4, IndexGrows
  <2>6. ASSUME NEW kind \in {"char", "\n", "\r"}, IrqPutc(kind)
        PROVE  at' =< Index(Lines, Cols)
    <3>1. at' = Index(line, col)
      BY <2>0, <2>6 DEF IrqPutc
    <3> QED
      BY <3>1, <2>2, <2>4, IndexGrows
  <2>7. \/ Show
        \/ \E kind \in {"char", "\n", "\r"} : IrqPutc(kind)
    BY <2>0 DEF Next, Boot, PutChar, InitRuntime, FindVga, ItrEnable, VgaCls, ClsStore, Launch,
                Right,
                Return, Feed, Wrap, CheckBelow, Scroll, Args, Store, SelectCursor,
                WriteCursor, Putc, Keep
  <2> QED
    BY <2>5, <2>6, <2>7
<1> QED
  BY SpecIInv, <1>1, PTL DEF Spec, StoresNearScreen
=============================================================================
