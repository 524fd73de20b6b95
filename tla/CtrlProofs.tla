----------------------------- MODULE CtrlProofs -----------------------------
(***************************************************************************)
(* Proofs about the controller (Ctrl), however deep the calls nest.        *)
(***************************************************************************)
EXTENDS Ctrl, SequenceTheorems, TLAPS

-----------------------------------------------------------------------------
(* The calls under way *)

InStack(o) == \E i \in 1 .. Len(stack) : stack[i].op = o
Bottom == stack[Len(stack)]

\* Calls are made by callbacks of a call that waits, and none of them is a deinit; the
\* other calls are each for one interface.
Nesting ==
  \A i \in 1 .. Len(stack) : /\ i > 1 => stack[i].at \in Waits
                             /\ i < Len(stack) => stack[i].op # "deinit"
                             /\ stack[i].op # "deinit" => stack[i].itf \in Itf

\* The steps of a deinit after its last wait, and what has been undone at each.
Freeing == {"sched_deinit", "timer_list", "heap_head", "heap_mem", "clear"}

Undone ==
  stack # <<>> /\ Bottom.op = "deinit" =>
    /\ Bottom.at \in Freeing => chip = "off" /\ (~stranded => itf_state = {})
    /\ Bottom.at \in Freeing \ {"sched_deinit"} => ~tasks
    /\ Bottom.at \in {"heap_head", "heap_mem", "clear"} => ~timers
    /\ Bottom.at \in {"heap_mem", "clear"} => ~heap
    /\ Bottom.at = "clear" => ~pool

-----------------------------------------------------------------------------
(* The driver's state and morselib's *)

Running ==
  /\ ~initted => /\ stack = <<>> /\ ~pool /\ ~heap /\ ~tasks /\ ~timers /\ chip = "off"
                 /\ ~stranded => itf_state = {}
  /\ initted /\ ~pool => stack # <<>> /\ Bottom.op = "deinit" /\ Bottom.at = "clear"

\* Nothing goes on in a transceiver that is off, and the interface has the link only
\* while morselib has reported it.
Radio ==
  /\ chip = "off" => sta = "off" /\ ~link /\ ~sweep
  /\ "sta" \in link_up => link

\* A request is made with the flag set, unless a fatal error has cleared it.
Requesting == At({"scan"}, "request") => ~sweep /\ (scan_active \/ chip = "off")

\* Only a join under way looks like one while morselib's station is off.
Joining == sta = "off" /\ link_status \in {"join", "noip"} => InStack("join")

\* What lwIP's list and its default route keep.
Name == Itf \cup {"other"}
Routed == netifs = <<>> => default = "none"
Routes ==
  netifs \in Seq(Name) /\ default \in Name \cup {"none"} /\ NetifsMatch /\ (~stranded => Routed)

IInv ==
  /\ TypeOK
  /\ Nesting /\ Undone
  /\ Running
  /\ Radio /\ Requesting /\ ScanActiveExact /\ Joining
  /\ Routes

-----------------------------------------------------------------------------
(* What a call, a step of it and its return make of the stack *)

LEMMA StackType ==
  ASSUME TypeOK
  PROVE  /\ stack \in Seq(Frame) /\ Len(stack) \in Nat /\ DOMAIN stack = 1 .. Len(stack)
         /\ stack = <<>> <=> Len(stack) = 0
         /\ stack # <<>> => /\ 1 \in 1 .. Len(stack) /\ Len(stack) \in 1 .. Len(stack)
                            /\ Head(stack) = stack[1] /\ Head(stack) \in Frame /\ Bottom \in Frame
BY DEF TypeOK, Bottom

\* A call that does not wait is the only one, or the innermost; a deinit is the outermost.
LEMMA Alone ==
  ASSUME TypeOK, Nesting, stack # <<>>,
         Bottom.at \notin Waits \/ Head(stack).op = "deinit"
  PROVE  Len(stack) = 1 /\ Bottom = Head(stack)
BY StackType DEF Nesting, Bottom

\* While a call waits, or one runs that is no deinit, no deinit is past its last wait.
LEMMA Before ==
  ASSUME TypeOK, Nesting, stack # <<>>, Head(stack).at \notin Freeing
  PROVE  Bottom.at \notin Freeing
BY Alone DEF Waits, Freeing

LEMMA Pushed ==
  ASSUME TypeOK, Nesting, MayCall, NEW o, NEW itf, NEW at, Call(o, itf, at),
         [op |-> o, itf |-> itf, at |-> at] \in Frame, itf \in Itf, o = "deinit" => stack = <<>>
  PROVE  /\ stack' \in Seq(Frame) /\ Len(stack') <= MaxDepth /\ stack' # <<>> /\ Nesting'
         /\ Head(stack').op = o /\ Head(stack').itf = itf /\ Head(stack').at = at
         /\ IF stack = <<>> THEN Bottom' = Head(stack') ELSE Bottom' = Bottom
         /\ \A p : InStack(p)' <=> InStack(p) \/ p = o
<1> DEFINE f == [op |-> o, itf |-> itf, at |-> at]
<1>1. f \in Frame /\ f.op = o /\ f.itf = itf /\ f.at = at
  OBVIOUS
<1>2. /\ stack \in Seq(Frame) /\ Len(stack) \in Nat /\ (stack = <<>> <=> Len(stack) = 0)
      /\ stack # <<>> => Head(stack) = stack[1] /\ 1 \in 1 .. Len(stack)
  BY StackType
<1>3. Len(stack) + 1 <= MaxDepth
  BY <1>2, CtrlAssumption DEF MayCall, in_callback
<1>4. stack # <<>> => stack[1].at \in Waits
  BY <1>2 DEF MayCall, in_callback, Waiting
<1>5. stack' = <<f>> \o stack
  BY DEF Call
<1> HIDE DEF f
<1>6. <<f>> \in Seq(Frame) /\ Len(<<f>>) = 1 /\ <<f>>[1] = f
  BY <1>1
<1>7. /\ stack' \in Seq(Frame) /\ Len(stack') = Len(stack) + 1 /\ stack'[1] = f
      /\ \A i \in 1 .. Len(stack) : i + 1 \in 1 .. Len(stack') /\ stack'[i + 1] = stack[i]
      /\ \A i \in 1 .. Len(stack') : i # 1 => i - 1 \in 1 .. Len(stack) /\ stack'[i] = stack[i - 1]
  BY <1>2, <1>5, <1>6, ConcatProperties
<1>8. stack' # <<>> /\ Head(stack') = f
  BY <1>2, <1>7
<1>9. Nesting'
  <2>1. SUFFICES ASSUME NEW i \in 1 .. Len(stack')
                 PROVE  /\ i > 1 => stack'[i].at \in Waits
                        /\ i < Len(stack') => stack'[i].op # "deinit"
                        /\ stack'[i].op # "deinit" => stack'[i].itf \in Itf
    BY DEF Nesting
  <2>2. CASE i = 1
    BY <1>1, <1>2, <1>7, <2>2
  <2>3. CASE i # 1
    <3>1. /\ i - 1 \in 1 .. Len(stack) /\ stack'[i] = stack[i - 1]
          /\ i < Len(stack') => i - 1 < Len(stack)
      BY <1>2, <1>7, <2>3
    <3>2. stack[i - 1].at \in Waits
      <4>1. CASE i - 1 = 1
        BY <1>2, <1>4, <3>1, <4>1
      <4>2. CASE i - 1 # 1
        BY <1>2, <3>1, <4>2 DEF Nesting
      <4> QED
        BY <4>1, <4>2
    <3> QED
      BY <3>1, <3>2 DEF Nesting
  <2> QED
    BY <2>2, <2>3
<1>10. IF stack = <<>> THEN Bottom' = f ELSE Bottom' = Bottom
  <2>1. CASE stack = <<>>
    BY <1>2, <1>7, <2>1 DEF Bottom
  <2>2. CASE stack # <<>>
    <3>1. Len(stack) \in 1 .. Len(stack)
      BY <1>2, <2>2
    <3> QED
      BY <1>7, <2>2, <3>1 DEF Bottom
  <2> QED
    BY <2>1, <2>2
<1>11. \A p : InStack(p)' <=> InStack(p) \/ p = o
  <2>1. SUFFICES ASSUME NEW p PROVE InStack(p)' <=> InStack(p) \/ p = o
    OBVIOUS
  <2>2. ASSUME InStack(p)' PROVE InStack(p) \/ p = o
    <3>1. PICK i \in 1 .. Len(stack') : stack'[i].op = p
      BY <2>2 DEF InStack
    <3> QED
      BY <1>1, <1>7, <3>1 DEF InStack
  <2>3. ASSUME InStack(p) PROVE InStack(p)'
    <3>1. PICK i \in 1 .. Len(stack) : stack[i].op = p
      BY <2>3 DEF InStack
    <3> QED
      BY <1>7, <3>1 DEF InStack
  <2>4. InStack(o)'
    <3>1. 1 \in 1 .. Len(stack')
      BY <1>2, <1>7
    <3> QED
      BY <1>1, <1>7, <3>1 DEF InStack
  <2> QED
    BY <2>2, <2>3, <2>4
<1> QED
  BY <1>1, <1>2, <1>3, <1>7, <1>8, <1>9, <1>10, <1>11

LEMMA Popped ==
  ASSUME TypeOK, Nesting, stack # <<>>, Return
  PROVE  /\ stack' \in Seq(Frame) /\ Len(stack') <= MaxDepth /\ Nesting'
         /\ IF stack' = <<>> THEN Bottom = Head(stack)
            ELSE Bottom' = Bottom /\ Head(stack').at \in Waits
         /\ Len(stack) = 1 => stack' = <<>>
         /\ \A p : InStack(p)' => InStack(p)
         /\ \A p : InStack(p) /\ p # Head(stack).op => InStack(p)'
<1>1. /\ stack \in Seq(Frame) /\ Len(stack) \in Nat /\ Len(stack) >= 1 /\ Head(stack) = stack[1]
      /\ Len(stack) <= MaxDepth
  BY StackType DEF TypeOK
<1>2. stack' = Tail(stack)
  BY DEF Return
<1>3. /\ stack' \in Seq(Frame) /\ Len(stack') = Len(stack) - 1
      /\ \A i \in 1 .. Len(stack) - 1 : stack'[i] = stack[i + 1]
  BY <1>1, <1>2, HeadTailProperties
<1>4. \A i \in 1 .. Len(stack') : i + 1 \in 1 .. Len(stack) /\ stack'[i] = stack[i + 1]
  BY <1>1, <1>3
<1>5. Nesting'
  <2>1. SUFFICES ASSUME NEW i \in 1 .. Len(stack')
                 PROVE  /\ stack'[i].at \in Waits
                        /\ i < Len(stack') => stack'[i].op # "deinit"
                        /\ stack'[i].op # "deinit" => stack'[i].itf \in Itf
    BY DEF Nesting
  <2>2. i + 1 \in 1 .. Len(stack) /\ stack'[i] = stack[i + 1] /\ i + 1 > 1
        /\ (i < Len(stack') => i + 1 < Len(stack))
    BY <1>1, <1>3, <1>4
  <2> QED
    BY <2>2 DEF Nesting
<1>6. IF stack' = <<>> THEN Bottom = Head(stack) ELSE Bottom' = Bottom /\ Head(stack').at \in Waits
  <2>1. CASE stack' = <<>>
    <3>1. Len(stack') = 0
      BY <2>1
    <3>2. Len(stack) = 1
      BY <1>1, <1>3, <3>1
    <3> QED
      BY <1>1, <2>1, <3>2 DEF Bottom
  <2>2. CASE stack' # <<>>
    <3>1. Len(stack') \in 1 .. Len(stack') /\ 1 \in 1 .. Len(stack') /\ Head(stack') = stack'[1]
      BY <1>1, <1>3, <2>2
    <3>2. Bottom' = Bottom
      BY <1>1, <1>3, <1>4, <3>1 DEF Bottom
    <3>3. stack'[1] = stack[1 + 1] /\ 1 + 1 \in 1 .. Len(stack) /\ 1 + 1 > 1
      BY <1>4, <3>1
    <3>4. stack[1 + 1].at \in Waits
      BY <3>3 DEF Nesting
    <3> QED
      BY <2>2, <3>1, <3>2, <3>3, <3>4
  <2> QED
    BY <2>1, <2>2
<1>7. ASSUME NEW p, InStack(p)' PROVE InStack(p)
  <2>1. PICK i \in 1 .. Len(stack') : stack'[i].op = p
    BY <1>7 DEF InStack
  <2> QED
    BY <1>4, <2>1 DEF InStack
<1>8. ASSUME NEW p, InStack(p), p # Head(stack).op PROVE InStack(p)'
  <2>1. PICK i \in 1 .. Len(stack) : stack[i].op = p
    BY <1>8 DEF InStack
  <2>2. i - 1 \in 1 .. Len(stack') /\ (i - 1) + 1 = i
    BY <1>1, <1>3, <1>8, <2>1
  <2>3. stack'[i - 1].op = p
    BY <1>4, <2>1, <2>2
  <2> QED
    BY <2>2, <2>3 DEF InStack
<1>9. Len(stack') <= MaxDepth /\ (Len(stack) = 1 => stack' = <<>>)
  BY <1>1, <1>3, CtrlAssumption
<1> QED
  BY <1>3, <1>5, <1>6, <1>7, <1>8, <1>9

LEMMA Moved ==
  ASSUME TypeOK, Nesting, stack # <<>>, NEW f \in Frame, f.op = Head(stack).op,
         f.op = "deinit" \/ f.itf = Head(stack).itf, stack' = [stack EXCEPT ![1] = f]
  PROVE  /\ stack' \in Seq(Frame) /\ Len(stack') <= MaxDepth /\ Nesting'
         /\ stack' # <<>> /\ Head(stack') = f
         /\ IF Len(stack) = 1 THEN Bottom = Head(stack) /\ Bottom' = f ELSE Bottom' = Bottom
         /\ \A p : InStack(p)' <=> InStack(p)
<1>1. /\ stack \in Seq(Frame) /\ Len(stack) \in Nat /\ Len(stack) >= 1 /\ Head(stack) = stack[1]
      /\ Len(stack) <= MaxDepth
  BY StackType DEF TypeOK
<1>2. /\ stack' \in Seq(Frame) /\ Len(stack') = Len(stack) /\ stack'[1] = f
      /\ \A i \in 1 .. Len(stack) : i # 1 => stack'[i] = stack[i]
  BY <1>1
<1>3. stack' # <<>> /\ Head(stack') = f
  BY <1>1, <1>2
<1>4. Nesting'
  BY <1>1, <1>2 DEF Nesting
<1>5. IF Len(stack) = 1 THEN Bottom = Head(stack) /\ Bottom' = f ELSE Bottom' = Bottom
  BY <1>1, <1>2 DEF Bottom
<1>6. \A p : InStack(p)' <=> InStack(p)
  BY <1>1, <1>2 DEF InStack
<1> QED
  BY <1>1, <1>2, <1>3, <1>4, <1>5, <1>6

\* The end of bringing an interface down: back to the caller, or to the loop of a deinit.
LEMMA WentDown ==
  ASSUME TypeOK, Nesting, stack # <<>>, Head(stack).op \in {"down", "deinit"}, DownReturns
  PROVE  /\ stack' \in Seq(Frame) /\ Len(stack') <= MaxDepth /\ Nesting'
         /\ stack' # <<>> => Head(stack').at \in Waits \cup {"next"}
         /\ \A p : InStack(p)' => InStack(p)
         /\ \A p : p # "down" => (InStack(p)' <=> InStack(p))
         /\ Head(stack).op = "down" /\ stack' = <<>> => Bottom = Head(stack)
         /\ Head(stack).op = "down" /\ stack' # <<>> => Bottom' = Bottom
         /\ Head(stack).op = "deinit" =>
              /\ stack' # <<>> /\ Bottom = Head(stack) /\ Bottom'.op = "deinit" /\ Bottom'.at = "next"
              /\ Bottom'.itf = IF Head(stack).itf = "sta" THEN "ap" ELSE "end"
<1>1. CASE Head(stack).op = "down"
  <2>1. Return
    BY <1>1 DEF DownReturns, Return
  <2> QED
    BY <1>1, <2>1, Popped
<1>2. CASE Head(stack).op = "deinit"
  <2> DEFINE next == IF Head(stack).itf = "sta" THEN "ap" ELSE "end"
             f == [Head(stack) EXCEPT !.at = "next", !.itf = next]
  <2>1. Head(stack) \in Frame /\ Head(stack) = stack[1] /\ stack \in Seq(Frame)
    BY StackType
  <2>2. next \in Itf \cup {"end"}
    BY DEF Itf
  <2>3. stack' = [stack EXCEPT ![1] = f]
    <3>1. stack' = [stack EXCEPT ![1].at = "next", ![1].itf = next]
      BY <1>2, <2>1 DEF DownReturns
    <3> HIDE DEF next
    <3> QED
      BY <2>1, <3>1 DEF Frame
  <2> HIDE DEF next
  <2>4. f \in Frame /\ f.op = Head(stack).op /\ f.itf = next /\ f.at = "next"
    BY <2>1, <2>2 DEF Frame
  <2> HIDE DEF f
  <2>5. Len(stack) = 1
    BY <1>2, Alone
  <2> QED
    BY <1>2, <2>3, <2>4, <2>5, Moved DEF next
<1> QED
  BY <1>1, <1>2

\* A step that only moves on in the innermost call.
LEMMA Gone ==
  ASSUME TypeOK, Nesting, stack # <<>>, NEW at, Goto(at),
         at \in {"boot", "boot_ok", "bring", "disable", "shutdown", "next", "stop", "sched_deinit",
                 "timer_list", "heap_head", "heap_mem", "clear", "request", "sweep", "abort", "sta_enable"}
  PROVE  /\ stack' \in Seq(Frame) /\ Len(stack') <= MaxDepth /\ Nesting'
         /\ stack' # <<>> /\ Head(stack').op = Head(stack).op /\ Head(stack').itf = Head(stack).itf
         /\ Head(stack').at = at
         /\ IF Len(stack) = 1 THEN Bottom = Head(stack) /\ Bottom' = Head(stack') ELSE Bottom' = Bottom
         /\ \A p : InStack(p)' <=> InStack(p)
<1> DEFINE f == [Head(stack) EXCEPT !.at = at]
<1>1. Head(stack) \in Frame /\ Head(stack) = stack[1] /\ stack \in Seq(Frame)
  BY StackType
<1>2. f \in Frame /\ f.op = Head(stack).op /\ f.itf = Head(stack).itf /\ f.at = at
  BY <1>1 DEF Frame
<1>3. stack' = [stack EXCEPT ![1] = f]
  BY <1>1 DEF Goto
<1> HIDE DEF f
<1> QED
  BY <1>2, <1>3, Moved

-----------------------------------------------------------------------------
(* lwIP's list *)

Once(s) == \A i, j \in DOMAIN s : s[i] = s[j] => i = j

LEMMA Listed ==
  ASSUME NEW s \in Seq(Name), NEW n
  PROVE  n \in ToSet(s) <=> \E i \in 1 .. Len(s) : s[i] = n
BY DEF ToSet

LEMMA ListAdd ==
  ASSUME NEW s \in Seq(Name), Once(s), NEW n \in Name, n \notin ToSet(s)
  PROVE  /\ <<n>> \o s \in Seq(Name) /\ <<n>> \o s # <<>> /\ Once(<<n>> \o s)
         /\ ToSet(<<n>> \o s) = {n} \cup ToSet(s)
<1> DEFINE u == <<n>> \o s
<1>1. <<n>> \in Seq(Name) /\ Len(<<n>>) = 1 /\ <<n>>[1] = n /\ Len(s) \in Nat
  OBVIOUS
<1>2. /\ u \in Seq(Name) /\ Len(u) = Len(s) + 1 /\ u[1] = n
      /\ \A i \in 1 .. Len(s) : i + 1 \in 1 .. Len(u) /\ u[i + 1] = s[i]
      /\ \A i \in 1 .. Len(u) : i # 1 => i - 1 \in 1 .. Len(s) /\ u[i] = s[i - 1]
  BY <1>1, ConcatProperties
<1> HIDE DEF u
<1>3. DOMAIN u = 1 .. Len(u) /\ DOMAIN s = 1 .. Len(s) /\ u # <<>> /\ 1 \in 1 .. Len(u)
  BY <1>1, <1>2
<1>4. ToSet(u) = {n} \cup ToSet(s)
  <2>1. ASSUME NEW x \in ToSet(u) PROVE x \in {n} \cup ToSet(s)
    <3>1. PICK i \in 1 .. Len(u) : u[i] = x
      BY <1>2, Listed
    <3> QED
      BY <1>2, <3>1, Listed
  <2>2. ASSUME NEW x \in ToSet(s) PROVE x \in ToSet(u)
    <3>1. PICK i \in 1 .. Len(s) : s[i] = x
      BY Listed
    <3> QED
      BY <1>2, <3>1, Listed
  <2>3. n \in ToSet(u)
    BY <1>2, <1>3, Listed
  <2> QED
    BY <2>1, <2>2, <2>3
<1>5. Once(u)
  <2>1. SUFFICES ASSUME NEW i \in 1 .. Len(u), NEW j \in 1 .. Len(u), u[i] = u[j] PROVE i = j
    BY <1>3 DEF Once
  <2>2. \A k \in 1 .. Len(s) : s[k] # n
    BY Listed
  <2>3. CASE i = 1 \/ j = 1
    BY <1>2, <2>1, <2>2, <2>3
  <2>4. CASE i # 1 /\ j # 1
    <3>1. i - 1 \in 1 .. Len(s) /\ j - 1 \in 1 .. Len(s) /\ s[i - 1] = s[j - 1]
      BY <1>2, <2>1, <2>4
    <3>2. i - 1 = j - 1
      BY <1>3, <3>1 DEF Once
    <3> QED
      BY <3>2
  <2> QED
    BY <2>3, <2>4
<1> QED
  BY <1>2, <1>3, <1>4, <1>5 DEF u

LEMMA ListRemove ==
  ASSUME NEW s \in Seq(Name), Once(s), NEW i \in DOMAIN s
  PROVE  /\ RemoveAt(s, i) \in Seq(Name) /\ Once(RemoveAt(s, i))
         /\ ToSet(RemoveAt(s, i)) = ToSet(s) \ {s[i]}
<1> DEFINE a == SubSeq(s, 1, i - 1)
           b == SubSeq(s, i + 1, Len(s))
           u == RemoveAt(s, i)
<1>1. /\ Len(s) \in Nat /\ DOMAIN s = 1 .. Len(s) /\ \A k \in 1 .. Len(s) : s[k] \in Name
      /\ i \in 1 .. Len(s)
  OBVIOUS
<1>2. a \in Seq(Name) /\ Len(a) = i - 1 /\ \A k \in 1 .. i - 1 : a[k] = s[k]
  BY <1>1, SubSeqProperties
<1>3. b \in Seq(Name) /\ Len(b) = Len(s) - i /\ \A k \in 1 .. Len(s) - i : b[k] = s[i + k]
  <2>1. i + 1 \in Int /\ Len(s) \in Int /\ \A k \in i + 1 .. Len(s) : s[k] \in Name
    BY <1>1
  <2>2. /\ b \in Seq(Name) /\ Len(b) = (IF i + 1 <= Len(s) THEN Len(s) - (i + 1) + 1 ELSE 0)
        /\ \A k \in 1 .. Len(s) - (i + 1) + 1 : b[k] = s[(i + 1) + k - 1]
    BY <2>1, SubSeqProperties
  <2> HIDE DEF b
  <2>3. Len(b) = Len(s) - i
    <3>1. Len(s) \in Nat /\ i \in Nat /\ i <= Len(s)
      BY <1>1
    <3> HIDE DEF a, u
    <3>2. CASE i + 1 <= Len(s)
      BY <2>2, <3>1, <3>2
    <3>3. CASE ~(i + 1 <= Len(s))
      BY <2>2, <3>1, <3>3
    <3> QED
      BY <3>2, <3>3
  <2>4. ASSUME NEW k \in 1 .. Len(s) - i PROVE b[k] = s[i + k]
    <3>1. k \in 1 .. Len(s) - (i + 1) + 1 /\ (i + 1) + k - 1 = i + k
      BY <1>1
    <3> QED
      BY <2>2, <3>1
  <2> QED
    BY <2>2, <2>3, <2>4
<1>4. u = a \o b
  BY DEF RemoveAt
<1> HIDE DEF a, b, u
<1>5. /\ u \in Seq(Name) /\ Len(u) = Len(s) - 1
      /\ \A k \in 1 .. Len(s) - 1 : u[k] = IF k <= i - 1 THEN a[k] ELSE b[k - (i - 1)]
  <2>1. /\ u \in Seq(Name) /\ Len(u) = Len(a) + Len(b)
        /\ \A k \in 1 .. Len(a) + Len(b) : u[k] = IF k <= Len(a) THEN a[k] ELSE b[k - Len(a)]
    BY <1>2, <1>3, <1>4, ConcatProperties
  <2>2. Len(a) + Len(b) = Len(s) - 1
    BY <1>1, <1>2, <1>3
  <2> QED
    BY <1>2, <2>1, <2>2
<1> DEFINE from(k) == IF k < i THEN k ELSE k + 1
<1>6. \A k \in 1 .. Len(u) : from(k) \in 1 .. Len(s) /\ from(k) # i /\ u[k] = s[from(k)]
  <2>1. SUFFICES ASSUME NEW k \in 1 .. Len(s) - 1
                 PROVE  from(k) \in 1 .. Len(s) /\ from(k) # i /\ u[k] = s[from(k)]
    BY <1>5
  <2>2. CASE k < i
    BY <1>1, <1>2, <1>5, <2>2
  <2>3. CASE ~(k < i)
    <3>1. k - (i - 1) \in 1 .. Len(s) - i /\ i + (k - (i - 1)) = k + 1 /\ ~(k <= i - 1)
      BY <1>1, <2>3
    <3>2. u[k] = s[k + 1]
      BY <1>3, <1>5, <3>1
    <3> QED
      BY <1>1, <2>3, <3>2
  <2> QED
    BY <2>2, <2>3
<1>7. \A j \in 1 .. Len(s) : j # i => \E k \in 1 .. Len(u) : from(k) = j
  <2>1. SUFFICES ASSUME NEW j \in 1 .. Len(s), j # i PROVE \E k \in 1 .. Len(u) : from(k) = j
    OBVIOUS
  <2>2. CASE j < i
    <3>1. j \in 1 .. Len(u) /\ from(j) = j
      BY <1>1, <1>5, <2>2
    <3> QED
      BY <3>1
  <2>3. CASE j > i
    <3>1. j - 1 \in 1 .. Len(u) /\ from(j - 1) = j
      BY <1>1, <1>5, <2>3
    <3> QED
      BY <3>1
  <2> QED
    BY <1>1, <2>1, <2>2, <2>3
<1>8. \A j, k \in 1 .. Len(u) : from(j) = from(k) => j = k
  BY <1>1
<1> HIDE DEF from
<1>9. ToSet(u) = ToSet(s) \ {s[i]}
  <2>1. ASSUME NEW x \in ToSet(u) PROVE x \in ToSet(s) \ {s[i]}
    <3>1. PICK k \in 1 .. Len(u) : u[k] = x
      BY <1>5, Listed
    <3>2. s[from(k)] = x /\ from(k) \in 1 .. Len(s) /\ from(k) # i
      BY <1>6, <3>1
    <3>3. x # s[i]
      BY <1>1, <3>2 DEF Once
    <3> QED
      BY <3>2, <3>3, Listed
  <2>2. ASSUME NEW x \in ToSet(s), x # s[i] PROVE x \in ToSet(u)
    <3>1. PICK j \in 1 .. Len(s) : s[j] = x
      BY Listed
    <3>2. PICK k \in 1 .. Len(u) : from(k) = j
      BY <1>7, <2>2, <3>1
    <3> QED
      BY <1>5, <1>6, <3>1, <3>2, Listed
  <2> QED
    BY <2>1, <2>2
<1>10. Once(u)
  <2>1. DOMAIN u = 1 .. Len(u)
    BY <1>5
  <2>2. SUFFICES ASSUME NEW j \in 1 .. Len(u), NEW k \in 1 .. Len(u), u[j] = u[k] PROVE j = k
    BY <2>1 DEF Once
  <2>3. from(j) = from(k)
    BY <1>1, <1>6, <2>2 DEF Once
  <2> QED
    BY <1>8, <2>3
<1> QED
  BY <1>5, <1>9, <1>10 DEF u

LEMMA ListCut ==
  ASSUME NEW s \in Seq(Name), NEW i \in DOMAIN s
  PROVE  RemoveAt(s, i) \in Seq(Name)
<1>1. /\ Len(s) \in Nat /\ DOMAIN s = 1 .. Len(s) /\ \A k \in 1 .. Len(s) : s[k] \in Name
      /\ i \in 1 .. Len(s)
  OBVIOUS
<1>2. SubSeq(s, 1, i - 1) \in Seq(Name) /\ SubSeq(s, i + 1, Len(s)) \in Seq(Name)
  BY <1>1, SubSeqProperties
<1>3. SubSeq(s, 1, i - 1) \o SubSeq(s, i + 1, Len(s)) \in Seq(Name)
  BY <1>2, ConcatProperties
<1> QED
  BY <1>3 DEF RemoveAt

LEMMA RoutesFacts ==
  ASSUME Routes, ~stranded
  PROVE  /\ Once(netifs) /\ ToSet(netifs) \ {"other"} = itf_state
         /\ default = "none" <=> netifs = <<>>
         /\ netifs # <<>> => default \in ToSet(netifs)
<1>1. ToSet(netifs) \subseteq Name
  BY DEF Routes, ToSet
<1>2. "none" \notin Name
  BY DEF Name, Itf
<1> QED
  BY <1>1, <1>2 DEF Routes, NetifsMatch, Routed, Once

LEMMA InitRoutes ==
  ASSUME Routes, NEW itf \in Itf, itf \notin itf_state, tcpip_init(itf),
         itf_state' = itf_state \cup {itf}, UNCHANGED stranded
  PROVE  Routes'
<1>1. /\ netifs' = IF Ring(itf) THEN netifs ELSE <<itf>> \o netifs
      /\ default' = IF default = "none" THEN itf ELSE default
      /\ netifs \in Seq(Name) /\ itf \in Name /\ itf # "other"
  BY DEF tcpip_init, Routes, Name, Itf
<1>2. netifs' \in Seq(Name) /\ default' \in Name \cup {"none"}
  <2>1. <<itf>> \o netifs \in Seq(Name)
    BY <1>1
  <2> QED
    BY <1>1, <2>1 DEF Routes
<1>3. CASE stranded
  BY <1>2, <1>3 DEF Routes, NetifsMatch
<1>4. CASE ~stranded
  <2>1. /\ Once(netifs) /\ ToSet(netifs) \ {"other"} = itf_state
        /\ default = "none" <=> netifs = <<>>
        /\ netifs # <<>> => default \in ToSet(netifs)
    BY <1>4, RoutesFacts
  <2>2. itf \notin ToSet(netifs)
    BY <1>1, <2>1
  <2>3. ~Ring(itf)
    BY <1>1, <2>2, Listed DEF Ring
  <2>4. netifs' # <<>> /\ Once(netifs') /\ ToSet(netifs') = {itf} \cup ToSet(netifs)
    BY <1>1, <2>1, <2>2, <2>3, ListAdd
  <2>5. ToSet(netifs') \ {"other"} = itf_state' /\ default' \in ToSet(netifs')
    BY <1>1, <2>1, <2>4
  <2> QED
    BY <1>2, <2>4, <2>5 DEF Routes, NetifsMatch, Routed, Once
<1> QED
  BY <1>3, <1>4

LEMMA DeinitRoutes ==
  ASSUME Routes, NEW itf \in Itf, tcpip_deinit(itf), itf_state' = itf_state \ {itf},
         UNCHANGED stranded
  PROVE  Routes'
<1>1. PICK i \in DOMAIN netifs : netifs[i] = itf /\ netifs' = RemoveAt(netifs, i)
  BY DEF tcpip_deinit
<1>2. netifs \in Seq(Name) /\ netifs' \in Seq(Name)
  BY <1>1, ListCut DEF Routes
<1>3. default' \in Name \cup {"none"}
  <2>1. netifs' # <<>> => Head(netifs') \in Name
    BY <1>2
  <2> QED
    BY <2>1 DEF tcpip_deinit, Routes
<1>4. CASE stranded
  BY <1>2, <1>3, <1>4 DEF Routes, NetifsMatch
<1>5. CASE ~stranded
  <2>1. /\ Once(netifs) /\ ToSet(netifs) \ {"other"} = itf_state
        /\ netifs # <<>> => default \in ToSet(netifs)
    BY <1>5, RoutesFacts
  <2>2. Once(netifs') /\ ToSet(netifs') = ToSet(netifs) \ {itf}
    BY <1>1, <1>2, <2>1, ListRemove
  <2>3. default \in ToSet(netifs)
    BY <1>1, <2>1
  <2>4. ToSet(netifs') \ {"other"} = itf_state'
    BY <2>1, <2>2
  <2>5. CASE default # itf
    <3>1. default' = default /\ default' \in ToSet(netifs')
      BY <2>2, <2>3, <2>5 DEF tcpip_deinit
    <3>2. netifs' # <<>>
      BY <3>1 DEF ToSet
    <3> QED
      BY <1>2, <1>3, <2>2, <2>4, <3>1, <3>2 DEF Routes, NetifsMatch, Routed, Once
  <2>6. CASE default = itf /\ netifs' = <<>>
    <3>1. default' = "none"
      BY <2>6 DEF tcpip_deinit
    <3> QED
      BY <1>2, <1>3, <2>2, <2>4, <2>6, <3>1 DEF Routes, NetifsMatch, Routed, Once
  <2>7. CASE default = itf /\ netifs' # <<>>
    <3>1. default' = Head(netifs')
      BY <2>7 DEF tcpip_deinit
    <3>2. Head(netifs') = netifs'[1] /\ 1 \in 1 .. Len(netifs')
      BY <1>2, <2>7
    <3>3. default' \in ToSet(netifs')
      BY <1>2, <3>1, <3>2, Listed
    <3> QED
      BY <1>2, <1>3, <2>2, <2>4, <2>7, <3>3 DEF Routes, NetifsMatch, Routed, Once
  <2> QED
    BY <2>5, <2>6, <2>7
<1> QED
  BY <1>4, <1>5

-----------------------------------------------------------------------------
(* One lemma per action *)

LEMMA Still ==
  ASSUME TypeOK, Nesting, UNCHANGED stack
  PROVE  /\ stack' \in Seq(Frame) /\ Len(stack') <= MaxDepth /\ Nesting' /\ Bottom' = Bottom
         /\ \A p : InStack(p)' <=> InStack(p)
BY DEF TypeOK, Nesting, Bottom, InStack

LEMMA RoutesStill ==
  ASSUME Routes, UNCHANGED <<netifs, default, stranded>>, stranded \/ UNCHANGED itf_state
  PROVE  Routes'
BY DEF Routes, NetifsMatch, Routed

LEMMA EmptyStack == ASSUME stack = <<>>, NEW p PROVE ~InStack(p)
BY DEF InStack

\* No request is under way when a call is made, and none of the other calls makes one.
LEMMA NotRequesting == ASSUME MayCall PROVE ~At({"scan"}, "request")
BY DEF MayCall, in_callback, Waiting, Waits, At

LEMMA DownCallInv == ASSUME IInv, NEW itf \in Itf, DownCall(itf) PROVE IInv'
<1> USE DEF IInv
<1>1. /\ initted
      /\ MayCall
      /\ Call("down", itf, "disable")
      /\ UNCHANGED <<initted, booted, itf_state, scan_active, link_status, pm, ps, cfg, poll,
         stranded, teardown, pool, heap, tx_buf, scan_cache, tasks, timers, chip, sta, link,
         sweep, applied, netifs, default, link_up>>
  BY DEF DownCall, At, ending, settings, memory, morselib, lwip
<1>2. /\ stack' \in Seq(Frame) /\ Len(stack') <= MaxDepth /\ stack' # <<>> /\ Nesting'
      /\ Head(stack').op = "down" /\ Head(stack').itf = itf /\ Head(stack').at = "disable"
      /\ IF stack = <<>> THEN Bottom' = Head(stack') ELSE Bottom' = Bottom
      /\ \A p : InStack(p)' <=> InStack(p) \/ p = "down"
  <2>1. [op |-> "down", itf |-> itf, at |-> "disable"] \in Frame
    BY DEF Frame, Itf
  <2> QED
    BY <1>1, <2>1, Pushed
<1>3. TypeOK'
  BY <1>1, <1>2 DEF TypeOK
<1>4. Undone'
  BY <1>1, <1>2 DEF Undone
<1>5. Running'
  BY <1>1, <1>2 DEF Running
<1>6. Radio'
  BY <1>1, <1>2 DEF Radio
<1>7. Requesting' /\ ScanActiveExact'
  <2>1. ~At({"scan"}, "request") /\ ~At({"scan"}, "request")'
    BY <1>1, <1>2, NotRequesting DEF At
  <2> QED
    BY <1>1, <2>1 DEF Requesting, ScanActiveExact
<1>8. Joining'
  BY <1>1, <1>2 DEF Joining
<1>9. Routes'
  BY <1>1, RoutesStill
<1> QED
  BY <1>2, <1>3, <1>4, <1>5, <1>6, <1>7, <1>8, <1>9

LEMMA DeinitCallInv == ASSUME IInv, DeinitCall PROVE IInv'
<1> USE DEF IInv
<1>1. /\ initted
      /\ stack = <<>>
      /\ MayCall
      /\ Call("deinit", "sta", "next")
      /\ UNCHANGED <<initted, booted, itf_state, scan_active, link_status, pm, ps, cfg, poll,
         stranded, teardown, pool, heap, tx_buf, scan_cache, tasks, timers, chip, sta, link,
         sweep, applied, netifs, default, link_up>>
  BY DEF DeinitCall, At, ending, settings, memory, morselib, lwip, in_callback
<1>2. /\ stack' \in Seq(Frame) /\ Len(stack') <= MaxDepth /\ stack' # <<>> /\ Nesting'
      /\ Head(stack').op = "deinit" /\ Head(stack').itf = "sta" /\ Head(stack').at = "next"
      /\ IF stack = <<>> THEN Bottom' = Head(stack') ELSE Bottom' = Bottom
      /\ \A p : InStack(p)' <=> InStack(p) \/ p = "deinit"
  <2>1. [op |-> "deinit", itf |-> "sta", at |-> "next"] \in Frame
    BY DEF Frame, Itf
  <2>2. "sta" \in Itf
    BY DEF Itf
  <2> QED
    BY <1>1, <2>1, <2>2, Pushed DEF in_callback
<1>3. TypeOK'
  BY <1>1, <1>2 DEF TypeOK
<1>4. Undone'
  BY <1>1, <1>2 DEF Undone, Freeing
<1>5. Running'
  BY <1>1, <1>2 DEF Running
<1>6. Radio'
  BY <1>1, <1>2 DEF Radio
<1>7. Requesting' /\ ScanActiveExact'
  <2>1. ~At({"scan"}, "request") /\ ~At({"scan"}, "request")'
    BY <1>1, <1>2, NotRequesting DEF At
  <2> QED
    BY <1>1, <2>1 DEF Requesting, ScanActiveExact
<1>8. Joining'
  BY <1>1, <1>2 DEF Joining
<1>9. Routes'
  BY <1>1, RoutesStill
<1> QED
  BY <1>2, <1>3, <1>4, <1>5, <1>6, <1>7, <1>8, <1>9

LEMMA LeaveCallInv == ASSUME IInv, NEW itf \in Itf, LeaveCall(itf) PROVE IInv'
<1> USE DEF IInv
<1>1. /\ link_status' = IF itf = "sta" THEN "down" ELSE link_status
      /\ MayCall
      /\ IF initted THEN Call("leave", itf, "disable") ELSE UNCHANGED stack
      /\ UNCHANGED <<initted, booted, itf_state, scan_active, pm, ps, cfg, poll, stranded,
         teardown, pool, heap, tx_buf, scan_cache, tasks, timers, chip, sta, link, sweep,
         applied, netifs, default, link_up>>
  BY DEF LeaveCall, At, ending, settings, memory, morselib, lwip
<1>2. /\ stack' \in Seq(Frame) /\ Len(stack') <= MaxDepth /\ Nesting'
      /\ \/ ~initted /\ stack = <<>> /\ stack' = <<>>
         \/ /\ initted /\ stack' # <<>> /\ Head(stack').op = "leave"
            /\ IF stack = <<>> THEN Bottom' = Head(stack') ELSE Bottom' = Bottom
      /\ \A p : InStack(p) => InStack(p)'
  <2>1. [op |-> "leave", itf |-> itf, at |-> "disable"] \in Frame
    BY DEF Frame, Itf
  <2>2. CASE initted
    BY <1>1, <2>1, <2>2, Pushed
  <2>3. CASE ~initted
    BY <1>1, <2>3, Still DEF Running
  <2> QED
    BY <2>2, <2>3
<1>3. TypeOK'
  BY <1>1, <1>2 DEF TypeOK
<1>4. Undone'
  BY <1>1, <1>2 DEF Undone
<1>5. Running'
  BY <1>1, <1>2 DEF Running
<1>6. Radio'
  BY <1>1, <1>2 DEF Radio
<1>7. Requesting' /\ ScanActiveExact'
  <2>1. ~At({"scan"}, "request") /\ ~At({"scan"}, "request")'
    BY <1>1, <1>2, NotRequesting DEF At
  <2> QED
    BY <1>1, <2>1 DEF Requesting, ScanActiveExact
<1>8. Joining'
  BY <1>1, <1>2 DEF Joining
<1>9. Routes'
  BY <1>1, RoutesStill
<1> QED
  BY <1>2, <1>3, <1>4, <1>5, <1>6, <1>7, <1>8, <1>9

LEMMA JoinCallInv == ASSUME IInv, JoinCall PROVE IInv'
<1> USE DEF IInv
<1>1. /\ link_status' = IF initted THEN "join" ELSE "fail"
      /\ MayCall
      /\ IF initted THEN Call("join", "sta", IF scan_active THEN "abort" ELSE "sta_enable")
         ELSE UNCHANGED stack
      /\ UNCHANGED <<initted, booted, itf_state, scan_active, pm, ps, cfg, poll, stranded,
         teardown, pool, heap, tx_buf, scan_cache, tasks, timers, chip, sta, link, sweep,
         applied, netifs, default, link_up>>
  BY DEF JoinCall, At, ending, settings, memory, morselib, lwip
<1>2. /\ stack' \in Seq(Frame) /\ Len(stack') <= MaxDepth /\ Nesting'
      /\ \/ ~initted /\ stack = <<>> /\ stack' = <<>>
         \/ /\ initted /\ stack' # <<>> /\ Head(stack').op = "join" /\ InStack("join")'
            /\ IF stack = <<>> THEN Bottom' = Head(stack') ELSE Bottom' = Bottom
      /\ \A p : InStack(p) => InStack(p)'
  <2>1. [op |-> "join", itf |-> "sta", at |-> IF scan_active THEN "abort" ELSE "sta_enable"]
          \in Frame
    BY DEF Frame, Itf
  <2>2. "sta" \in Itf
    BY DEF Itf
  <2>3. CASE initted
    BY <1>1, <2>1, <2>2, <2>3, Pushed
  <2>4. CASE ~initted
    BY <1>1, <2>4, Still DEF Running
  <2> QED
    BY <2>3, <2>4
<1>3. TypeOK'
  BY <1>1, <1>2 DEF TypeOK
<1>4. Undone'
  BY <1>1, <1>2 DEF Undone
<1>5. Running'
  BY <1>1, <1>2 DEF Running
<1>6. Radio'
  BY <1>1, <1>2 DEF Radio
<1>7. Requesting' /\ ScanActiveExact'
  <2>1. ~At({"scan"}, "request") /\ ~At({"scan"}, "request")'
    BY <1>1, <1>2, NotRequesting DEF At
  <2> QED
    BY <1>1, <2>1 DEF Requesting, ScanActiveExact
<1>8. Joining'
  BY <1>1, <1>2 DEF Joining
<1>9. Routes'
  BY <1>1, RoutesStill
<1> QED
  BY <1>2, <1>3, <1>4, <1>5, <1>6, <1>7, <1>8, <1>9

LEMMA ScanCallInv == ASSUME IInv, ScanCall PROVE IInv'
<1> USE DEF IInv
<1>1. /\ heap
      /\ scan_cache' = TRUE
      /\ scan_active' = TRUE
      /\ MayCall
      /\ Call("scan", "sta", IF scan_active THEN "sweep" ELSE "request")
      /\ UNCHANGED <<initted, booted, itf_state, link_status, pm, ps, cfg, poll, stranded,
         teardown, pool, heap, tx_buf, tasks, timers, chip, sta, link, sweep, applied, netifs,
         default, link_up>>
  BY DEF ScanCall, At, ending, settings, memory, morselib, lwip
<1>2. /\ stack' \in Seq(Frame) /\ Len(stack') <= MaxDepth /\ stack' # <<>> /\ Nesting'
      /\ Head(stack').op = "scan" /\ Head(stack').itf = "sta" /\ Head(stack').at = IF scan_active THEN "sweep" ELSE "request"
      /\ IF stack = <<>> THEN Bottom' = Head(stack') ELSE Bottom' = Bottom
      /\ \A p : InStack(p)' <=> InStack(p) \/ p = "scan"
  <2>1. [op |-> "scan", itf |-> "sta", at |-> IF scan_active THEN "sweep" ELSE "request"] \in Frame
    BY DEF Frame, Itf
  <2>2. "sta" \in Itf
    BY DEF Itf
  <2> QED
    BY <1>1, <2>1, <2>2, Pushed
<1>3. TypeOK'
  <2>1. scan_active' \in BOOLEAN /\ scan_cache' \in BOOLEAN
    BY <1>1 DEF TypeOK
  <2> QED
    BY <1>1, <1>2, <2>1 DEF TypeOK
<1>4. Undone'
  BY <1>1, <1>2 DEF Undone
<1>5. Running'
  BY <1>1, <1>2 DEF Running
<1>6. Radio'
  BY <1>1, <1>2 DEF Radio
<1>7. Requesting' /\ ScanActiveExact'
  <2>1. ~At({"scan"}, "request") /\ (At({"scan"}, "request")' <=> ~scan_active)
    BY <1>1, <1>2, NotRequesting DEF At
  <2> QED
    BY <1>1, <2>1 DEF Requesting, ScanActiveExact
<1>8. Joining'
  BY <1>1, <1>2 DEF Joining
<1>9. Routes'
  BY <1>1, RoutesStill
<1> QED
  BY <1>2, <1>3, <1>4, <1>5, <1>6, <1>7, <1>8, <1>9

LEMMA JoinAbortedInv == ASSUME IInv, JoinAborted PROVE IInv'
<1> USE DEF IInv
<1>1. /\ Head(stack).op = "join"
      /\ Head(stack).at = "abort"
      /\ stack # <<>>
      /\ Goto("sta_enable")
      /\ UNCHANGED <<initted, booted, itf_state, scan_active, link_status, pm, ps, cfg, poll,
         stranded, teardown, pool, heap, tx_buf, scan_cache, tasks, timers, chip, sta, link,
         sweep, applied, netifs, default, link_up>>
  BY DEF JoinAborted, At, ending, settings, memory, morselib, lwip
<1>2. /\ stack' \in Seq(Frame) /\ Len(stack') <= MaxDepth /\ Nesting'
      /\ stack' # <<>> /\ Head(stack').op = Head(stack).op /\ Head(stack').itf = Head(stack).itf
      /\ Head(stack').at = "sta_enable"
      /\ IF Len(stack) = 1 THEN Bottom = Head(stack) /\ Bottom' = Head(stack') ELSE Bottom' = Bottom
      /\ \A p : InStack(p)' <=> InStack(p)
  BY <1>1, Gone
<1>3. TypeOK'
  BY <1>1, <1>2 DEF TypeOK
<1>4. Undone'
  BY <1>1, <1>2 DEF Undone
<1>5. Running'
  BY <1>1, <1>2 DEF Running
<1>6. Radio'
  BY <1>1, <1>2 DEF Radio
<1>7. Requesting' /\ ScanActiveExact'
  <2>1. ~At({"scan"}, "request") /\ ~At({"scan"}, "request")'
    BY <1>1, <1>2 DEF At
  <2> QED
    BY <1>1, <2>1 DEF Requesting, ScanActiveExact
<1>8. Joining'
  BY <1>1, <1>2 DEF Joining
<1>9. Routes'
  BY <1>1, RoutesStill
<1> QED
  BY <1>2, <1>3, <1>4, <1>5, <1>6, <1>7, <1>8, <1>9

LEMMA ScanReturnsInv == ASSUME IInv, ScanReturns PROVE IInv'
<1> USE DEF IInv
<1>1. /\ Head(stack).op = "scan"
      /\ Head(stack).at = "sweep"
      /\ stack # <<>>
      /\ Return
      /\ UNCHANGED <<initted, booted, itf_state, scan_active, link_status, pm, ps, cfg, poll,
         stranded, teardown, pool, heap, tx_buf, scan_cache, tasks, timers, chip, sta, link,
         sweep, applied, netifs, default, link_up>>
  BY DEF ScanReturns, At, ending, settings, memory, morselib, lwip
<1>2. /\ stack' \in Seq(Frame) /\ Len(stack') <= MaxDepth /\ Nesting'
      /\ IF stack' = <<>> THEN Bottom = Head(stack)
         ELSE Bottom' = Bottom /\ Head(stack').at \in Waits
      /\ Len(stack) = 1 => stack' = <<>>
      /\ \A p : InStack(p)' => InStack(p)
      /\ \A p : InStack(p) /\ p # Head(stack).op => InStack(p)'
  BY <1>1, Popped
<1>3. TypeOK'
  BY <1>1, <1>2 DEF TypeOK
<1>4. Undone'
  BY <1>1, <1>2 DEF Undone
<1>5. Running'
  BY <1>1, <1>2 DEF Running
<1>6. Radio'
  BY <1>1, <1>2 DEF Radio
<1>7. Requesting' /\ ScanActiveExact'
  <2>1. ~At({"scan"}, "request") /\ ~At({"scan"}, "request")'
    BY <1>1, <1>2 DEF At, Waits
  <2> QED
    BY <1>1, <2>1 DEF Requesting, ScanActiveExact
<1>8. Joining'
  BY <1>1, <1>2 DEF Joining
<1>9. Routes'
  BY <1>1, RoutesStill
<1> QED
  BY <1>2, <1>3, <1>4, <1>5, <1>6, <1>7, <1>8, <1>9

LEMMA LinkUpInv == ASSUME IInv, LinkUp PROVE IInv'
<1> USE DEF IInv
<1>1. /\ chip = "up"
      /\ sta = "connected"
      /\ link' = TRUE
      /\ link_up' = link_up \cup {"sta"}
      /\ UNCHANGED <<initted, booted, itf_state, scan_active, link_status, pm, ps, cfg, poll,
         stranded, teardown, pool, heap, tx_buf, scan_cache, tasks, timers, chip, sta, sweep,
         applied, netifs, default, stack>>
  BY DEF LinkUp, At, ending, settings, memory, morselib, lwip, TasksRun
<1>2. /\ stack' \in Seq(Frame) /\ Len(stack') <= MaxDepth /\ Nesting' /\ Bottom' = Bottom
      /\ \A p : InStack(p)' <=> InStack(p)
  BY <1>1, Still
<1>3. TypeOK'
  <2>1. link' \in BOOLEAN /\ link_up' \subseteq Itf
    BY <1>1 DEF TypeOK, Itf
  <2> QED
    BY <1>1, <1>2, <2>1 DEF TypeOK
<1>4. Undone'
  BY <1>1, <1>2 DEF Undone
<1>5. Running'
  BY <1>1, <1>2 DEF Running
<1>6. Radio'
  BY <1>1, <1>2 DEF Radio
<1>7. Requesting' /\ ScanActiveExact'
  <2>1. At({"scan"}, "request")' <=> At({"scan"}, "request")
    BY <1>1 DEF At
  <2> QED
    BY <1>1, <2>1 DEF Requesting, ScanActiveExact
<1>8. Joining'
  BY <1>1, <1>2 DEF Joining
<1>9. Routes'
  BY <1>1, RoutesStill
<1> QED
  BY <1>2, <1>3, <1>4, <1>5, <1>6, <1>7, <1>8, <1>9

LEMMA ScanCompleteInv == ASSUME IInv, ScanComplete PROVE IInv'
<1> USE DEF IInv
<1>1. /\ sweep
      /\ chip = "up"
      /\ sweep' = FALSE
      /\ scan_active' = FALSE
      /\ UNCHANGED <<initted, booted, itf_state, link_status, pm, ps, cfg, poll, stranded,
         teardown, pool, heap, tx_buf, scan_cache, tasks, timers, chip, sta, link, applied,
         netifs, default, link_up, stack>>
  BY DEF ScanComplete, At, ending, settings, memory, morselib, lwip, TasksRun
<1>2. /\ stack' \in Seq(Frame) /\ Len(stack') <= MaxDepth /\ Nesting' /\ Bottom' = Bottom
      /\ \A p : InStack(p)' <=> InStack(p)
  BY <1>1, Still
<1>3. TypeOK'
  <2>1. scan_active' \in BOOLEAN /\ sweep' \in BOOLEAN
    BY <1>1 DEF TypeOK
  <2> QED
    BY <1>1, <1>2, <2>1 DEF TypeOK
<1>4. Undone'
  BY <1>1, <1>2 DEF Undone
<1>5. Running'
  BY <1>1, <1>2 DEF Running
<1>6. Radio'
  BY <1>1, <1>2 DEF Radio
<1>7. Requesting' /\ ScanActiveExact'
  <2>1. At({"scan"}, "request")' <=> At({"scan"}, "request")
    BY <1>1 DEF At
  <2> QED
    BY <1>1, <2>1 DEF Requesting, ScanActiveExact
<1>8. Joining'
  BY <1>1, <1>2 DEF Joining
<1>9. Routes'
  BY <1>1, RoutesStill
<1> QED
  BY <1>2, <1>3, <1>4, <1>5, <1>6, <1>7, <1>8, <1>9

LEMMA FatalErrorInv == ASSUME IInv, FatalError PROVE IInv'
<1> USE DEF IInv
<1>1. /\ booted' = FALSE
      /\ scan_active' = FALSE
      /\ link_status' = "fail"
      /\ link_up' = link_up \ {"sta"}
      /\ chip = "up"
      /\ chip' = "off"
      /\ sta' = "off"
      /\ link' = FALSE
      /\ sweep' = FALSE
      /\ UNCHANGED <<initted, itf_state, pm, ps, cfg, poll, stranded, teardown, pool, heap,
         tx_buf, scan_cache, tasks, timers, applied, netifs, default, stack>>
  BY DEF FatalError, At, ending, settings, memory, morselib, lwip, TasksRun
<1>2. /\ stack' \in Seq(Frame) /\ Len(stack') <= MaxDepth /\ Nesting' /\ Bottom' = Bottom
      /\ \A p : InStack(p)' <=> InStack(p)
  BY <1>1, Still
<1>3. TypeOK'
  <2>1. booted' \in BOOLEAN /\ scan_active' \in BOOLEAN /\ link' \in BOOLEAN /\ sweep' \in BOOLEAN
    BY <1>1 DEF TypeOK
  <2> QED
    BY <1>1, <1>2, <2>1 DEF TypeOK
<1>4. Undone'
  BY <1>1, <1>2 DEF Undone
<1>5. Running'
  BY <1>1, <1>2 DEF Running
<1>6. Radio'
  BY <1>1, <1>2 DEF Radio
<1>7. Requesting' /\ ScanActiveExact'
  <2>1. At({"scan"}, "request")' <=> At({"scan"}, "request")
    BY <1>1 DEF At
  <2> QED
    BY <1>1, <2>1 DEF Requesting, ScanActiveExact
<1>8. Joining'
  BY <1>1, <1>2 DEF Joining
<1>9. Routes'
  BY <1>1, RoutesStill
<1> QED
  BY <1>2, <1>3, <1>4, <1>5, <1>6, <1>7, <1>8, <1>9

LEMMA SetPmInv == ASSUME IInv, NEW mode \in {"none", "powersave"}, SetPm(mode) PROVE IInv'
<1> USE DEF IInv
<1>1. /\ pm' \in {pm, mode} /\ ps' \in {ps, mode}
      /\ UNCHANGED <<initted, booted, itf_state, scan_active, link_status, cfg, poll,
         stranded, teardown, pool, heap, tx_buf, scan_cache, tasks, timers, chip, sta, link,
         sweep, applied, netifs, default, link_up, stack>>
  BY DEF SetPm, At, ending, settings, memory, morselib, lwip
<1>2. /\ stack' \in Seq(Frame) /\ Len(stack') <= MaxDepth /\ Nesting' /\ Bottom' = Bottom
      /\ \A p : InStack(p)' <=> InStack(p)
  BY <1>1, Still
<1>3. TypeOK'
  BY <1>1, <1>2 DEF TypeOK
<1>4. Undone'
  BY <1>1, <1>2 DEF Undone
<1>5. Running'
  BY <1>1, <1>2 DEF Running
<1>6. Radio'
  BY <1>1, <1>2 DEF Radio
<1>7. Requesting' /\ ScanActiveExact'
  <2>1. At({"scan"}, "request")' <=> At({"scan"}, "request")
    BY <1>1 DEF At
  <2> QED
    BY <1>1, <2>1 DEF Requesting, ScanActiveExact
<1>8. Joining'
  BY <1>1, <1>2 DEF Joining
<1>9. Routes'
  BY <1>1, RoutesStill
<1> QED
  BY <1>2, <1>3, <1>4, <1>5, <1>6, <1>7, <1>8, <1>9

LEMMA StaStatusInv == ASSUME IInv, NEW state \in {"connecting", "connected"}, StaStatus(state) PROVE IInv'
<1> USE DEF IInv
<1>1. /\ chip = "up"
      /\ sta' = state
      /\ sta' # "off"
      /\ link_status' = IF state = "connecting" THEN "join" ELSE "noip"
      /\ \/ link' = FALSE /\ link_up' = IF link THEN link_up \ {"sta"} ELSE link_up
         \/ link' = link /\ link_up' = link_up
      /\ UNCHANGED <<initted, booted, itf_state, scan_active, pm, ps, cfg, poll, stranded,
         teardown, pool, heap, tx_buf, scan_cache, tasks, timers, chip, sweep, applied,
         netifs, default, stack>>
  BY DEF StaStatus, At, ending, settings, memory, morselib, lwip, TasksRun
<1>2. /\ stack' \in Seq(Frame) /\ Len(stack') <= MaxDepth /\ Nesting' /\ Bottom' = Bottom
      /\ \A p : InStack(p)' <=> InStack(p)
  BY <1>1, Still
<1>3. TypeOK'
  <2>1. link' \in BOOLEAN
    BY <1>1 DEF TypeOK
  <2> QED
    BY <1>1, <1>2, <2>1 DEF TypeOK
<1>4. Undone'
  BY <1>1, <1>2 DEF Undone
<1>5. Running'
  BY <1>1, <1>2 DEF Running
<1>6. Radio'
  BY <1>1, <1>2 DEF Radio
<1>7. Requesting' /\ ScanActiveExact'
  <2>1. At({"scan"}, "request")' <=> At({"scan"}, "request")
    BY <1>1 DEF At
  <2> QED
    BY <1>1, <2>1 DEF Requesting, ScanActiveExact
<1>8. Joining'
  BY <1>1, <1>2 DEF Joining
<1>9. Routes'
  BY <1>1, RoutesStill
<1> QED
  BY <1>2, <1>3, <1>4, <1>5, <1>6, <1>7, <1>8, <1>9

LEMMA SetRadioInv == ASSUME IInv, NEW what \in Setting, NEW value \in BOOLEAN, SetRadio(what, value) PROVE IInv'
<1> USE DEF IInv
<1>1. /\ cfg' = [cfg EXCEPT ![what] = value]
      /\ applied' = applied \/ applied' = [applied EXCEPT ![what] = value]
      /\ UNCHANGED <<initted, booted, itf_state, scan_active, link_status, pm, ps, poll,
         stranded, teardown, pool, heap, tx_buf, scan_cache, tasks, timers, chip, sta, link,
         sweep, netifs, default, link_up, stack>>
  BY DEF SetRadio, At, ending, settings, memory, morselib, lwip
<1>2. /\ stack' \in Seq(Frame) /\ Len(stack') <= MaxDepth /\ Nesting' /\ Bottom' = Bottom
      /\ \A p : InStack(p)' <=> InStack(p)
  BY <1>1, Still
<1>3. TypeOK'
  BY <1>1, <1>2 DEF TypeOK
<1>4. Undone'
  BY <1>1, <1>2 DEF Undone
<1>5. Running'
  BY <1>1, <1>2 DEF Running
<1>6. Radio'
  BY <1>1, <1>2 DEF Radio
<1>7. Requesting' /\ ScanActiveExact'
  <2>1. At({"scan"}, "request")' <=> At({"scan"}, "request")
    BY <1>1 DEF At
  <2> QED
    BY <1>1, <2>1 DEF Requesting, ScanActiveExact
<1>8. Joining'
  BY <1>1, <1>2 DEF Joining
<1>9. Routes'
  BY <1>1, RoutesStill
<1> QED
  BY <1>2, <1>3, <1>4, <1>5, <1>6, <1>7, <1>8, <1>9

LEMMA OtherUpInv == ASSUME IInv, OtherUp PROVE IInv'
<1> USE DEF IInv
<1>1. /\ \A i \in DOMAIN netifs : netifs[i] # "other"
      /\ netifs' = <<"other">> \o netifs
      /\ default' = IF default = "none" THEN "other" ELSE default
      /\ UNCHANGED <<initted, booted, itf_state, scan_active, link_status, pm, ps, cfg, poll,
         stranded, teardown, pool, heap, tx_buf, scan_cache, tasks, timers, chip, sta, link,
         sweep, applied, link_up, stack>>
  BY DEF OtherUp, At, ending, settings, memory, morselib, lwip
<1>2. /\ stack' \in Seq(Frame) /\ Len(stack') <= MaxDepth /\ Nesting' /\ Bottom' = Bottom
      /\ \A p : InStack(p)' <=> InStack(p)
  BY <1>1, Still
<1>3. Routes'
  <2>1. netifs \in Seq(Name) /\ netifs' \in Seq(Name) /\ default' \in Name \cup {"none"}
    <3>1. "other" \in Name /\ netifs \in Seq(Name)
      BY DEF Name, Routes
    <3>2. <<"other">> \o netifs \in Seq(Name)
      BY <3>1
    <3> QED
      BY <1>1, <3>1, <3>2 DEF Routes
  <2>2. CASE stranded
    BY <1>1, <2>1, <2>2 DEF Routes, NetifsMatch
  <2>3. CASE ~stranded
    <3>1. /\ Once(netifs) /\ ToSet(netifs) \ {"other"} = itf_state
          /\ default = "none" <=> netifs = <<>>
          /\ netifs # <<>> => default \in ToSet(netifs)
      BY <2>3, RoutesFacts
    <3>2. "other" \in Name /\ "other" \notin ToSet(netifs)
      BY <1>1 DEF Name, ToSet
    <3>3. netifs' # <<>> /\ Once(netifs') /\ ToSet(netifs') = {"other"} \cup ToSet(netifs)
      BY <1>1, <2>1, <3>1, <3>2, ListAdd
    <3>4. ToSet(netifs') \ {"other"} = itf_state' /\ default' \in ToSet(netifs')
      BY <1>1, <3>1, <3>3
    <3> QED
      BY <2>1, <3>3, <3>4 DEF Routes, NetifsMatch, Routed, Once
  <2> QED
    BY <2>2, <2>3
<1>4. TypeOK'
  BY <1>1, <1>2, <1>3 DEF TypeOK, Routes, Name
<1>5. Undone'
  BY <1>1, <1>2 DEF Undone
<1>6. Running'
  BY <1>1, <1>2 DEF Running
<1>7. Radio'
  BY <1>1, <1>2 DEF Radio
<1>8. Requesting' /\ ScanActiveExact'
  <2>1. At({"scan"}, "request")' <=> At({"scan"}, "request")
    BY <1>1 DEF At
  <2> QED
    BY <1>1, <2>1 DEF Requesting, ScanActiveExact
<1>9. Joining'
  BY <1>1, <1>2 DEF Joining
<1>10. Routes'
  BY <1>3
<1> QED
  BY <1>2, <1>4, <1>5, <1>6, <1>7, <1>8, <1>9, <1>10

LEMMA BootReturnsInv == ASSUME IInv, NEW ok \in BOOLEAN, BootReturns(ok) PROVE IInv'
<1> USE DEF IInv
<1>1. /\ (ok => chip = "off")
      /\ chip' = IF ok THEN "up" ELSE chip
      /\ tasks' = TRUE
      /\ timers' = TRUE
      /\ stack # <<>>
      /\ Head(stack).op = "up"
      /\ Head(stack).at = "boot"
      /\ IF ok THEN Goto("boot_ok") ELSE Return
      /\ UNCHANGED <<initted, booted, itf_state, scan_active, link_status, pm, ps, cfg, poll,
         stranded, teardown, pool, heap, tx_buf, scan_cache, sta, link, sweep, applied,
         netifs, default, link_up>>
  BY DEF BootReturns, At, ending, settings, memory, morselib, lwip
<1>2. /\ stack' \in Seq(Frame) /\ Len(stack') <= MaxDepth /\ Nesting'
      /\ stack' # <<>> => Head(stack').at \in Waits \cup {"boot_ok"}
      /\ stack' # <<>> => Bottom'.op = Bottom.op
      /\ stack' # <<>> /\ Bottom.op = "deinit" => Bottom' = Bottom
      /\ \A p : p # "up" => (InStack(p)' <=> InStack(p))
  <2>1. CASE ok
    BY <1>1, <2>1, Gone DEF Waits
  <2>2. CASE ~ok
    BY <1>1, <2>2, Popped
  <2> QED
    BY <2>1, <2>2
<1>3. initted /\ pool /\ Bottom.at \notin Freeing
  BY <1>1, Before DEF Running, Freeing
<1>4. TypeOK'
  <2>1. tasks' \in BOOLEAN /\ timers' \in BOOLEAN
    BY <1>1 DEF TypeOK
  <2> QED
    BY <1>1, <1>2, <2>1 DEF TypeOK
<1>5. Undone'
  BY <1>1, <1>2, <1>3 DEF Undone, Freeing
<1>6. Running'
  BY <1>1, <1>2, <1>3 DEF Running
<1>7. Radio'
  BY <1>1, <1>2 DEF Radio
<1>8. Requesting' /\ ScanActiveExact'
  <2>1. ~At({"scan"}, "request") /\ ~At({"scan"}, "request")'
    BY <1>1, <1>2 DEF At, Waits
  <2> QED
    BY <1>1, <2>1 DEF Requesting, ScanActiveExact
<1>9. Joining'
  BY <1>1, <1>2 DEF Joining
<1>10. Routes'
  BY <1>1, RoutesStill
<1> QED
  BY <1>2, <1>4, <1>5, <1>6, <1>7, <1>8, <1>9, <1>10

LEMMA BootOkInv == ASSUME IInv, BootOk PROVE IInv'
<1> USE DEF IInv
<1>1. /\ Head(stack).op = "up"
      /\ Head(stack).at = "boot_ok"
      /\ booted' = TRUE
      /\ stack # <<>>
      /\ Goto("bring")
      /\ UNCHANGED <<initted, itf_state, scan_active, link_status, pm, ps, cfg, poll,
         stranded, teardown, pool, heap, tx_buf, scan_cache, tasks, timers, chip, sta, link,
         sweep, applied, netifs, default, link_up>>
  BY DEF BootOk, At, ending, settings, memory, morselib, lwip
<1>2. /\ stack' \in Seq(Frame) /\ Len(stack') <= MaxDepth /\ Nesting'
      /\ stack' # <<>> /\ Head(stack').op = Head(stack).op /\ Head(stack').itf = Head(stack).itf
      /\ Head(stack').at = "bring"
      /\ IF Len(stack) = 1 THEN Bottom = Head(stack) /\ Bottom' = Head(stack') ELSE Bottom' = Bottom
      /\ \A p : InStack(p)' <=> InStack(p)
  BY <1>1, Gone
<1>3. initted /\ pool /\ Bottom.at \notin Freeing
  BY <1>1, Before DEF Running, Freeing
<1>4. TypeOK'
  <2>1. booted' \in BOOLEAN
    BY <1>1 DEF TypeOK
  <2> QED
    BY <1>1, <1>2, <2>1 DEF TypeOK
<1>5. Undone'
  BY <1>1, <1>2, <1>3 DEF Undone, Freeing
<1>6. Running'
  BY <1>1, <1>2, <1>3 DEF Running
<1>7. Radio'
  BY <1>1, <1>2 DEF Radio
<1>8. Requesting' /\ ScanActiveExact'
  <2>1. ~At({"scan"}, "request") /\ ~At({"scan"}, "request")'
    BY <1>1, <1>2 DEF At
  <2> QED
    BY <1>1, <2>1 DEF Requesting, ScanActiveExact
<1>9. Joining'
  BY <1>1, <1>2 DEF Joining
<1>10. Routes'
  BY <1>1, RoutesStill
<1> QED
  BY <1>2, <1>4, <1>5, <1>6, <1>7, <1>8, <1>9, <1>10

LEMMA SchedDeinitInv == ASSUME IInv, SchedDeinit PROVE IInv'
<1> USE DEF IInv
<1>1. /\ Head(stack).op = "deinit"
      /\ Head(stack).at = "sched_deinit"
      /\ tasks' = FALSE
      /\ stack # <<>>
      /\ Goto("timer_list")
      /\ UNCHANGED <<initted, booted, itf_state, scan_active, link_status, pm, ps, cfg, poll,
         stranded, teardown, pool, heap, tx_buf, scan_cache, timers, chip, sta, link, sweep,
         applied, netifs, default, link_up>>
  BY DEF SchedDeinit, At, ending, settings, memory, morselib, lwip
<1>2. /\ stack' \in Seq(Frame) /\ Len(stack') <= MaxDepth /\ Nesting'
      /\ stack' # <<>> /\ Head(stack').op = Head(stack).op /\ Head(stack').itf = Head(stack).itf
      /\ Head(stack').at = "timer_list"
      /\ IF Len(stack) = 1 THEN Bottom = Head(stack) /\ Bottom' = Head(stack') ELSE Bottom' = Bottom
      /\ \A p : InStack(p)' <=> InStack(p)
  BY <1>1, Gone
<1>3. Len(stack) = 1 /\ Bottom = Head(stack) /\ initted
  BY <1>1, Alone DEF Running
<1>4. TypeOK'
  <2>1. tasks' \in BOOLEAN
    BY <1>1 DEF TypeOK
  <2> QED
    BY <1>1, <1>2, <2>1 DEF TypeOK
<1>5. Undone'
  BY <1>1, <1>2, <1>3 DEF Undone, Freeing
<1>6. Running'
  BY <1>1, <1>2, <1>3 DEF Running, Undone
<1>7. Radio'
  BY <1>1, <1>2 DEF Radio
<1>8. Requesting' /\ ScanActiveExact'
  <2>1. ~At({"scan"}, "request") /\ ~At({"scan"}, "request")'
    BY <1>1, <1>2 DEF At
  <2> QED
    BY <1>1, <2>1 DEF Requesting, ScanActiveExact
<1>9. Joining'
  BY <1>1, <1>2 DEF Joining
<1>10. Routes'
  BY <1>1, RoutesStill
<1> QED
  BY <1>2, <1>4, <1>5, <1>6, <1>7, <1>8, <1>9, <1>10

LEMMA OsalDeinitInv == ASSUME IInv, OsalDeinit PROVE IInv'
<1> USE DEF IInv
<1>1. /\ stack # <<>> /\ Head(stack).op = "deinit"
      /\ \/ /\ Head(stack).at = "timer_list" /\ Goto("heap_head")
            /\ timers' = FALSE /\ heap' = heap /\ pool' = pool
         \/ /\ Head(stack).at = "heap_head" /\ Goto("heap_mem")
            /\ heap' = FALSE /\ timers' = timers /\ pool' = pool
         \/ /\ Head(stack).at = "heap_mem" /\ Goto("clear")
            /\ pool' = FALSE /\ timers' = timers /\ heap' = heap
      /\ UNCHANGED <<initted, booted, itf_state, scan_active, link_status, pm, ps, cfg, poll,
           stranded, teardown, tx_buf, scan_cache, tasks, chip, sta, link, sweep, applied, netifs,
           default, link_up>>
  BY DEF OsalDeinit, At, ending, settings, memory, morselib, lwip
<1>2. Len(stack) = 1 /\ Bottom = Head(stack) /\ initted
  BY <1>1, Alone DEF Running
<1>3. /\ stack' \in Seq(Frame) /\ Len(stack') <= MaxDepth /\ Nesting'
      /\ stack' # <<>> /\ Bottom' = Head(stack') /\ Bottom'.op = "deinit"
      /\ Bottom'.at = IF Bottom.at = "timer_list" THEN "heap_head"
                      ELSE IF Bottom.at = "heap_head" THEN "heap_mem" ELSE "clear"
      /\ \A p : InStack(p)' <=> InStack(p)
  <2>1. CASE Goto("heap_head") /\ Head(stack).at = "timer_list"
    BY <1>1, <1>2, <2>1, Gone
  <2>2. CASE Goto("heap_mem") /\ Head(stack).at = "heap_head"
    BY <1>1, <1>2, <2>2, Gone
  <2>3. CASE Goto("clear") /\ Head(stack).at = "heap_mem"
    BY <1>1, <1>2, <2>3, Gone
  <2> QED
    BY <1>1, <2>1, <2>2, <2>3
<1>4. TypeOK'
  <2>1. timers' \in BOOLEAN /\ heap' \in BOOLEAN /\ pool' \in BOOLEAN
    BY <1>1 DEF TypeOK
  <2> QED
    BY <1>1, <1>3, <2>1 DEF TypeOK
<1>5. Undone'
  BY <1>1, <1>2, <1>3 DEF Undone, Freeing
<1>6. Running'
  BY <1>1, <1>2, <1>3 DEF Running
<1>7. Radio'
  BY <1>1 DEF Radio
<1>8. Requesting' /\ ScanActiveExact'
  <2>1. ~At({"scan"}, "request") /\ ~At({"scan"}, "request")'
    BY <1>1, <1>3 DEF At
  <2> QED
    BY <1>1, <2>1 DEF Requesting, ScanActiveExact
<1>9. Joining'
  BY <1>1, <1>3 DEF Joining
<1>10. Routes'
  BY <1>1, RoutesStill
<1> QED
  BY <1>3, <1>4, <1>5, <1>6, <1>7, <1>8, <1>9, <1>10

LEMMA DeinitClearInv == ASSUME IInv, DeinitClear PROVE IInv'
<1> USE DEF IInv
<1>1. /\ Head(stack).op = "deinit"
      /\ Head(stack).at = "clear"
      /\ tx_buf' = FALSE
      /\ scan_cache' = FALSE
      /\ scan_active' = FALSE
      /\ initted' = FALSE
      /\ link_status' = "down"
      /\ stack # <<>>
      /\ Return
      /\ UNCHANGED <<booted, itf_state, pm, ps, cfg, poll, stranded, teardown, pool, heap,
         tasks, timers, chip, sta, link, sweep, applied, netifs, default, link_up>>
  BY DEF DeinitClear, At, ending, settings, memory, morselib, lwip
<1>2. /\ stack' \in Seq(Frame) /\ Len(stack') <= MaxDepth /\ Nesting'
      /\ IF stack' = <<>> THEN Bottom = Head(stack)
         ELSE Bottom' = Bottom /\ Head(stack').at \in Waits
      /\ Len(stack) = 1 => stack' = <<>>
      /\ \A p : InStack(p)' => InStack(p)
      /\ \A p : InStack(p) /\ p # Head(stack).op => InStack(p)'
  BY <1>1, Popped
<1>3. Len(stack) = 1 /\ Bottom = Head(stack) /\ initted
  BY <1>1, Alone DEF Running
<1>4. TypeOK'
  <2>1. initted' \in BOOLEAN /\ scan_active' \in BOOLEAN /\ tx_buf' \in BOOLEAN /\ scan_cache' \in BOOLEAN
    BY <1>1 DEF TypeOK
  <2> QED
    BY <1>1, <1>2, <2>1 DEF TypeOK
<1>5. Undone'
  BY <1>1, <1>2, <1>3 DEF Undone, Freeing
<1>6. Running'
  BY <1>1, <1>2, <1>3 DEF Running, Undone, Freeing
<1>7. Radio'
  BY <1>1, <1>2 DEF Radio
<1>8. Requesting' /\ ScanActiveExact'
  <2>1. ~At({"scan"}, "request")' /\ chip = "off"
    BY <1>1, <1>2, <1>3 DEF At, Undone, Freeing
  <2> QED
    BY <1>1, <2>1 DEF Requesting, ScanActiveExact, Radio
<1>9. Joining'
  BY <1>1, <1>2 DEF Joining
<1>10. Routes'
  BY <1>1, RoutesStill
<1> QED
  BY <1>2, <1>4, <1>5, <1>6, <1>7, <1>8, <1>9, <1>10

LEMMA DeinitStoppedInv == ASSUME IInv, DeinitStopped PROVE IInv'
<1> USE DEF IInv
<1>1. /\ Head(stack).op = "deinit"
      /\ Head(stack).at = "stop"
      /\ sta' = "off"
      /\ link' = FALSE
      /\ link_up' = IF link THEN link_up \ {"sta"} ELSE link_up
      /\ link_status' = IF sta # "off" THEN "down" ELSE link_status
      /\ chip' = "off"
      /\ sweep' = FALSE
      /\ scan_active' = (scan_active /\ ~sweep)
      /\ tasks' \in {FALSE, tasks}
      /\ timers' \in {FALSE, timers}
      /\ teardown' = FALSE
      /\ booted' = FALSE
      /\ poll' = FALSE
      /\ stranded' = (stranded \/ itf_state # {})
      /\ stack # <<>>
      /\ Goto("sched_deinit")
      /\ UNCHANGED <<initted, itf_state, pm, ps, cfg, pool, heap, tx_buf, scan_cache, applied,
         netifs, default>>
  BY DEF DeinitStopped, At, ending, settings, memory, morselib, lwip, Shutdown, StationStops
<1>2. /\ stack' \in Seq(Frame) /\ Len(stack') <= MaxDepth /\ Nesting'
      /\ stack' # <<>> /\ Head(stack').op = Head(stack).op /\ Head(stack').itf = Head(stack).itf
      /\ Head(stack').at = "sched_deinit"
      /\ IF Len(stack) = 1 THEN Bottom = Head(stack) /\ Bottom' = Head(stack') ELSE Bottom' = Bottom
      /\ \A p : InStack(p)' <=> InStack(p)
  BY <1>1, Gone
<1>3. Len(stack) = 1 /\ Bottom = Head(stack) /\ initted
  BY <1>1, Alone DEF Running
<1>4. TypeOK'
  <2>1. booted' \in BOOLEAN /\ scan_active' \in BOOLEAN /\ poll' \in BOOLEAN /\ teardown' \in BOOLEAN
        /\ tasks' \in BOOLEAN /\ stranded' \in BOOLEAN /\ timers' \in BOOLEAN /\ link' \in BOOLEAN /\ sweep' \in BOOLEAN
    BY <1>1 DEF TypeOK
  <2> QED
    BY <1>1, <1>2, <2>1 DEF TypeOK
<1>5. Undone'
  BY <1>1, <1>2, <1>3 DEF Undone, Freeing
<1>6. Running'
  BY <1>1, <1>2, <1>3 DEF Running, Undone
<1>7. Radio'
  BY <1>1, <1>2 DEF Radio
<1>8. Requesting' /\ ScanActiveExact'
  <2>1. ~At({"scan"}, "request") /\ ~At({"scan"}, "request")'
    BY <1>1, <1>2 DEF At, Waits
  <2>2. scan_active => sweep
    BY <2>1 DEF ScanActiveExact
  <2>3. ~scan_active' /\ ~sweep'
    BY <1>1, <2>2
  <2> QED
    BY <2>1, <2>3 DEF Requesting, ScanActiveExact
<1>9. Joining'
  BY <1>1, <1>2 DEF Joining
<1>10. Routes'
  BY <1>1 DEF Routes, NetifsMatch, Routed
<1> QED
  BY <1>2, <1>4, <1>5, <1>6, <1>7, <1>8, <1>9, <1>10

LEMMA ScanRequestInv == ASSUME IInv, NEW ok \in BOOLEAN, ScanRequest(ok) PROVE IInv'
<1> USE DEF IInv
<1>1. /\ (ok => chip = "up")
      /\ sweep' = (sweep \/ ok)
      /\ scan_active' = (scan_active /\ ok)
      /\ stack # <<>>
      /\ Head(stack).op = "scan"
      /\ Head(stack).at = "request"
      /\ IF ok THEN Goto("sweep") ELSE Return
      /\ UNCHANGED <<initted, booted, itf_state, link_status, pm, ps, cfg, poll, stranded,
         teardown, pool, heap, tx_buf, scan_cache, tasks, timers, chip, sta, link, applied,
         netifs, default, link_up>>
  BY DEF ScanRequest, At, ending, settings, memory, morselib, lwip
<1>2. /\ stack' \in Seq(Frame) /\ Len(stack') <= MaxDepth /\ Nesting'
      /\ stack' # <<>> => Head(stack').at \in Waits
      /\ stack' # <<>> => Bottom'.op = Bottom.op
      /\ stack' # <<>> /\ Bottom.op = "deinit" => Bottom' = Bottom
      /\ \A p : InStack(p)' => InStack(p)
      /\ \A p : p # "scan" => (InStack(p)' <=> InStack(p))
  <2>1. CASE ok
    BY <1>1, <2>1, Gone DEF Waits
  <2>2. CASE ~ok
    BY <1>1, <2>2, Popped
  <2> QED
    BY <2>1, <2>2
<1>3. stack' = <<>> => pool
  <2>1. CASE stack' = <<>> /\ ~pool
    <3>1. Return
      BY <1>1, <2>1, Gone
    <3>2. Bottom = Head(stack)
      BY <1>1, <2>1, <3>1, Popped
    <3> QED
      BY <1>1, <3>2, <2>1 DEF Running
  <2> QED
    BY <2>1
<1>4. TypeOK'
  <2>1. scan_active' \in BOOLEAN /\ sweep' \in BOOLEAN
    BY <1>1 DEF TypeOK
  <2> QED
    BY <1>1, <1>2, <2>1 DEF TypeOK
<1>5. Undone'
  BY <1>1, <1>2 DEF Undone
<1>6. Running'
  <2>1. initted
    BY <1>1 DEF Running
  <2> QED
    BY <1>1, <1>2, <1>3, <2>1 DEF Running
<1>7. Radio'
  <2>1. At({"scan"}, "request")
    BY <1>1 DEF At
  <2> QED
    BY <1>1, <2>1 DEF Radio, Requesting
<1>8. Requesting' /\ ScanActiveExact'
  <2>1. At({"scan"}, "request") /\ ~At({"scan"}, "request")'
    BY <1>1, <1>2 DEF At, Waits
  <2>2. ~sweep /\ (ok => scan_active)
    BY <1>1, <2>1 DEF Requesting
  <2> QED
    BY <1>1, <2>1, <2>2 DEF Requesting, ScanActiveExact
<1>9. Joining'
  BY <1>1, <1>2 DEF Joining
<1>10. Routes'
  BY <1>1, RoutesStill
<1> QED
  BY <1>2, <1>4, <1>5, <1>6, <1>7, <1>8, <1>9, <1>10

LEMMA JoinReturnsInv == ASSUME IInv, NEW ok \in BOOLEAN, JoinReturns(ok) PROVE IInv'
<1> USE DEF IInv
<1>1. /\ Head(stack).op = "join"
      /\ Head(stack).at = "sta_enable"
      /\ \/ /\ chip = "up" /\ sta' = "connecting" /\ link' = FALSE /\ link_status' = link_status
            /\ link_up' = IF link THEN link_up \ {"sta"} ELSE link_up
         \/ link_status' = "fail" /\ sta' = sta /\ link' = link /\ link_up' = link_up
      /\ stack # <<>>
      /\ Return
      /\ UNCHANGED <<initted, booted, itf_state, scan_active, pm, ps, cfg, poll, stranded,
         teardown, pool, heap, tx_buf, scan_cache, tasks, timers, chip, sweep, applied,
         netifs, default>>
  BY DEF JoinReturns, At, ending, settings, memory, morselib, lwip
<1>2. /\ stack' \in Seq(Frame) /\ Len(stack') <= MaxDepth /\ Nesting'
      /\ IF stack' = <<>> THEN Bottom = Head(stack)
         ELSE Bottom' = Bottom /\ Head(stack').at \in Waits
      /\ Len(stack) = 1 => stack' = <<>>
      /\ \A p : InStack(p)' => InStack(p)
      /\ \A p : InStack(p) /\ p # Head(stack).op => InStack(p)'
  BY <1>1, Popped
<1>3. TypeOK'
  <2>1. link' \in BOOLEAN
    BY <1>1 DEF TypeOK
  <2> QED
    BY <1>1, <1>2, <2>1 DEF TypeOK
<1>4. Undone'
  BY <1>1, <1>2 DEF Undone
<1>5. Running'
  BY <1>1, <1>2 DEF Running
<1>6. Radio'
  BY <1>1, <1>2 DEF Radio
<1>7. Requesting' /\ ScanActiveExact'
  <2>1. ~At({"scan"}, "request") /\ ~At({"scan"}, "request")'
    BY <1>1, <1>2 DEF At, Waits
  <2> QED
    BY <1>1, <2>1 DEF Requesting, ScanActiveExact
<1>8. Joining'
  BY <1>1, <1>2 DEF Joining
<1>9. Routes'
  BY <1>1, RoutesStill
<1> QED
  BY <1>2, <1>3, <1>4, <1>5, <1>6, <1>7, <1>8, <1>9

LEMMA LeaveReturnsInv == ASSUME IInv, LeaveReturns PROVE IInv'
<1> USE DEF IInv
<1>1. /\ Head(stack).op = "leave"
      /\ Head(stack).at = "disable"
      /\ \/ /\ sta' = "off" /\ link' = FALSE /\ link_up' = IF link THEN link_up \ {"sta"} ELSE link_up
            /\ link_status' = IF sta # "off" THEN "down" ELSE link_status
         \/ sta' = sta /\ link' = link /\ link_up' = link_up /\ link_status' = link_status
      /\ stack # <<>>
      /\ Return
      /\ UNCHANGED <<initted, booted, itf_state, scan_active, pm, ps, cfg, poll, stranded,
         teardown, pool, heap, tx_buf, scan_cache, tasks, timers, chip, sweep, applied,
         netifs, default>>
  BY DEF LeaveReturns, At, ending, settings, memory, morselib, lwip, StationStops
<1>2. /\ stack' \in Seq(Frame) /\ Len(stack') <= MaxDepth /\ Nesting'
      /\ IF stack' = <<>> THEN Bottom = Head(stack)
         ELSE Bottom' = Bottom /\ Head(stack').at \in Waits
      /\ Len(stack) = 1 => stack' = <<>>
      /\ \A p : InStack(p)' => InStack(p)
      /\ \A p : InStack(p) /\ p # Head(stack).op => InStack(p)'
  BY <1>1, Popped
<1>3. TypeOK'
  <2>1. link' \in BOOLEAN
    BY <1>1 DEF TypeOK
  <2> QED
    BY <1>1, <1>2, <2>1 DEF TypeOK
<1>4. Undone'
  BY <1>1, <1>2 DEF Undone
<1>5. Running'
  BY <1>1, <1>2 DEF Running
<1>6. Radio'
  BY <1>1, <1>2 DEF Radio
<1>7. Requesting' /\ ScanActiveExact'
  <2>1. ~At({"scan"}, "request") /\ ~At({"scan"}, "request")'
    BY <1>1, <1>2 DEF At, Waits
  <2> QED
    BY <1>1, <2>1 DEF Requesting, ScanActiveExact
<1>8. Joining'
  BY <1>1, <1>2 DEF Joining
<1>9. Routes'
  BY <1>1, RoutesStill
<1> QED
  BY <1>2, <1>3, <1>4, <1>5, <1>6, <1>7, <1>8, <1>9

LEMMA ShutdownReturnsInv == ASSUME IInv, ShutdownReturns PROVE IInv'
<1> USE DEF IInv
<1>1. /\ sta' = "off"
      /\ link' = FALSE
      /\ link_up' = IF link THEN link_up \ {"sta"} ELSE link_up
      /\ link_status' = IF sta # "off" THEN "down" ELSE link_status
      /\ chip' = "off"
      /\ sweep' = FALSE
      /\ scan_active' = (scan_active /\ ~sweep)
      /\ tasks' \in {FALSE, tasks}
      /\ timers' \in {FALSE, timers}
      /\ teardown' = FALSE
      /\ booted' = FALSE
      /\ stack # <<>>
      /\ Head(stack).op \in {"down", "deinit"}
      /\ Head(stack).at = "shutdown"
      /\ DownReturns
      /\ UNCHANGED <<initted, itf_state, pm, ps, cfg, poll, stranded, pool, heap, tx_buf,
         scan_cache, applied, netifs, default>>
  BY DEF ShutdownReturns, At, ending, settings, memory, morselib, lwip, Shutdown, StationStops
<1>2. /\ stack' \in Seq(Frame) /\ Len(stack') <= MaxDepth /\ Nesting'
      /\ stack' # <<>> => Head(stack').at \in Waits \cup {"next"}
      /\ \A p : InStack(p)' => InStack(p)
      /\ \A p : p # "down" => (InStack(p)' <=> InStack(p))
      /\ Head(stack).op = "down" /\ stack' = <<>> => Bottom = Head(stack)
      /\ Head(stack).op = "down" /\ stack' # <<>> => Bottom' = Bottom
      /\ Head(stack).op = "deinit" =>
           /\ stack' # <<>> /\ Bottom = Head(stack) /\ Bottom'.op = "deinit" /\ Bottom'.at = "next"
           /\ Bottom'.itf = IF Head(stack).itf = "sta" THEN "ap" ELSE "end"
  BY <1>1, WentDown
<1>3. initted /\ pool /\ Bottom.at \notin Freeing
  BY <1>1, Before DEF Running, Freeing
<1>4. TypeOK'
  <2>1. booted' \in BOOLEAN /\ scan_active' \in BOOLEAN /\ teardown' \in BOOLEAN
        /\ tasks' \in BOOLEAN /\ timers' \in BOOLEAN /\ link' \in BOOLEAN /\ sweep' \in BOOLEAN
    BY <1>1 DEF TypeOK
  <2> QED
    BY <1>1, <1>2, <2>1 DEF TypeOK
<1>5. Undone'
  BY <1>1, <1>2, <1>3 DEF Undone, Freeing
<1>6. Running'
  BY <1>1, <1>2, <1>3 DEF Running
<1>7. Radio'
  BY <1>1, <1>2 DEF Radio
<1>8. Requesting' /\ ScanActiveExact'
  <2>1. ~At({"scan"}, "request") /\ ~At({"scan"}, "request")'
    BY <1>1, <1>2 DEF At, Waits
  <2>2. scan_active => sweep
    BY <2>1 DEF ScanActiveExact
  <2>3. ~scan_active' /\ ~sweep'
    BY <1>1, <2>2
  <2> QED
    BY <2>1, <2>3 DEF Requesting, ScanActiveExact
<1>9. Joining'
  BY <1>1, <1>2 DEF Joining
<1>10. Routes'
  BY <1>1, RoutesStill
<1> QED
  BY <1>2, <1>4, <1>5, <1>6, <1>7, <1>8, <1>9, <1>10

LEMMA BringInv == ASSUME IInv, Bring PROVE IInv'
<1> USE DEF IInv
<1>1. /\ Head(stack).op = "up"
      /\ Head(stack).at = "bring"
      /\ \/ Head(stack).itf = "ap" /\ UNCHANGED <<itf_state, netifs, default, link_up>>
         \/ Add(Head(stack).itf)
      /\ stack # <<>>
      /\ Return
      /\ UNCHANGED <<initted, booted, scan_active, link_status, pm, ps, cfg, poll, stranded,
         teardown, pool, heap, tx_buf, scan_cache, tasks, timers, chip, sta, link, sweep,
         applied>>
  BY DEF Bring, At, ending, settings, memory, morselib, lwip, ap_enable
<1>2. /\ stack' \in Seq(Frame) /\ Len(stack') <= MaxDepth /\ Nesting'
      /\ IF stack' = <<>> THEN Bottom = Head(stack)
         ELSE Bottom' = Bottom /\ Head(stack').at \in Waits
      /\ Len(stack) = 1 => stack' = <<>>
      /\ \A p : InStack(p)' => InStack(p)
      /\ \A p : InStack(p) /\ p # Head(stack).op => InStack(p)'
  BY <1>1, Popped
<1>3. initted /\ pool /\ Bottom.at \notin Freeing /\ Head(stack).itf \in Itf
  <2>1. 1 \in 1 .. Len(stack) /\ Head(stack) = stack[1]
    BY <1>1, StackType
  <2> QED
    BY <1>1, <2>1, Before DEF Running, Nesting, Freeing
<1>4. /\ itf_state' \subseteq Itf /\ link_up' \subseteq Itf
      /\ "sta" \in link_up' => "sta" \in link_up
  BY <1>1, <1>3 DEF Add, TypeOK, Itf
<1>5. Routes'
  <2>1. CASE UNCHANGED <<itf_state, netifs, default>>
    BY <1>1, <2>1, RoutesStill
  <2>2. CASE /\ Head(stack).itf \notin itf_state /\ tcpip_init(Head(stack).itf)
             /\ itf_state' = itf_state \cup {Head(stack).itf}
    BY <1>1, <1>3, <2>2, InitRoutes
  <2> QED
    BY <1>1, <2>1, <2>2 DEF Add
<1>6. TypeOK'
  BY <1>1, <1>2, <1>4, <1>5 DEF TypeOK, Routes, Name
<1>7. Undone'
  BY <1>1, <1>2, <1>3 DEF Undone, Freeing
<1>8. Running'
  BY <1>1, <1>2, <1>3 DEF Running
<1>9. Radio'
  BY <1>1, <1>4 DEF Radio
<1>10. Requesting' /\ ScanActiveExact'
  <2>1. ~At({"scan"}, "request") /\ ~At({"scan"}, "request")'
    BY <1>1, <1>2 DEF At, Waits
  <2> QED
    BY <1>1, <2>1 DEF Requesting, ScanActiveExact
<1>11. Joining'
  BY <1>1, <1>2 DEF Joining
<1>12. Routes'
  BY <1>5
<1> QED
  BY <1>2, <1>6, <1>7, <1>8, <1>9, <1>10, <1>11, <1>12

LEMMA DeinitNextInv == ASSUME IInv, DeinitNext PROVE IInv'
<1> USE DEF IInv
<1>1. /\ stack # <<>>
      /\ Head(stack).op = "deinit"
      /\ Head(stack).at = "next"
      /\ LET rest == {i \in itf_state : Head(stack).itf \in {"sta", i}}
             itf == IF "sta" \in rest THEN "sta" ELSE "ap"
         IN IF rest # {}
            THEN stack' = [stack EXCEPT ![1] = [@ EXCEPT !.itf = itf, !.at = "disable"]]
                 /\ teardown' = teardown
            ELSE Goto("stop") /\ teardown' = TRUE
      /\ UNCHANGED <<initted, booted, itf_state, scan_active, link_status, pm, ps, cfg, poll,
         stranded, pool, heap, tx_buf, scan_cache, tasks, timers, chip, sta, link, sweep,
         applied, netifs, default, link_up>>
  BY DEF DeinitNext, At, ending, settings, memory, morselib, lwip
<1>2. Len(stack) = 1 /\ Bottom = Head(stack) /\ initted
  BY <1>1, Alone DEF Running
<1>3. \/ Goto("stop") /\ teardown' = TRUE
      \/ \E itf \in Itf : /\ stack' = [stack EXCEPT ![1] = [@ EXCEPT !.itf = itf, !.at = "disable"]]
                          /\ teardown' = teardown
  BY <1>1 DEF Itf
<1>4. /\ stack' \in Seq(Frame) /\ Len(stack') <= MaxDepth /\ Nesting'
      /\ stack' # <<>> /\ Bottom'.op = "deinit" /\ Head(stack').op = "deinit"
      /\ \A p : InStack(p)' <=> InStack(p)
      /\ Bottom'.at \in {"stop", "disable"}
  <2>1. CASE Goto("stop")
    BY <1>1, <1>2, <2>1, Gone
  <2>2. ASSUME NEW itf \in Itf,
               stack' = [stack EXCEPT ![1] = [@ EXCEPT !.itf = itf, !.at = "disable"]]
        PROVE  /\ stack' \in Seq(Frame) /\ Len(stack') <= MaxDepth /\ Nesting'
               /\ stack' # <<>> /\ Bottom'.op = "deinit" /\ Head(stack').op = "deinit"
               /\ \A p : InStack(p)' <=> InStack(p)
               /\ Bottom'.at = "disable"
    <3> DEFINE f == [Head(stack) EXCEPT !.itf = itf, !.at = "disable"]
    <3>1. Head(stack) \in Frame /\ Head(stack) = stack[1] /\ stack \in Seq(Frame)
      BY <1>1, StackType
    <3>2. stack' = [stack EXCEPT ![1] = f]
      BY <2>2, <3>1
    <3>3. f \in Frame /\ f.op = "deinit" /\ f.at = "disable"
      BY <1>1, <3>1 DEF Frame
    <3> HIDE DEF f
    <3>4. f.op = Head(stack).op
      BY <1>1, <3>3
    <3> QED
      BY <1>1, <1>2, <2>2, <3>2, <3>3, <3>4, Moved
  <2> QED
    BY <1>3, <2>1, <2>2
<1>5. ~At({"scan"}, "request") /\ ~At({"scan"}, "request")'
  BY <1>1, <1>4 DEF At
<1>6. TypeOK'
  <2>1. teardown' \in BOOLEAN
    BY <1>3 DEF TypeOK
  <2> QED
    BY <1>1, <1>4, <2>1 DEF TypeOK
<1>7. Undone'
  BY <1>1, <1>2, <1>4 DEF Undone, Freeing
<1>8. Running'
  BY <1>1, <1>2, <1>4 DEF Running
<1>9. Radio'
  BY <1>1, <1>2 DEF Radio
<1>10. Requesting' /\ ScanActiveExact'
  BY <1>1, <1>5 DEF Requesting, ScanActiveExact
<1>11. Joining'
  BY <1>1, <1>4 DEF Joining
<1>12. Routes'
  BY <1>1, RoutesStill
<1> QED
  BY <1>4, <1>6, <1>7, <1>8, <1>9, <1>10, <1>11, <1>12

LEMMA DisableReturnsInv == ASSUME IInv, DisableReturns PROVE IInv'
<1> USE DEF IInv
<1>1. /\ itf_state' = itf_state \ {Head(stack).itf}
      /\ teardown' = TRUE \/ teardown' = teardown
      /\ IF Head(stack).itf = "sta"
         THEN /\ sta' = "off" /\ link' = FALSE /\ link_status' = "down"
              /\ link_up' = IF link \/ "sta" \in itf_state THEN link_up \ {"sta"} ELSE link_up
         ELSE /\ sta' = sta /\ link' = link /\ link_status' = link_status
              /\ link_up' \subseteq link_up
      /\ IF Head(stack).itf \in itf_state THEN tcpip_deinit(Head(stack).itf)
         ELSE netifs' = netifs /\ default' = default
      /\ stack # <<>>
      /\ Head(stack).op \in {"down", "deinit"}
      /\ Head(stack).at = "disable"
      /\ IF itf_state' = {} THEN Goto("shutdown") ELSE DownReturns
      /\ UNCHANGED <<initted, booted, scan_active, pm, ps, cfg, poll, stranded, pool, heap,
         tx_buf, scan_cache, tasks, timers, chip, sweep, applied>>
  BY DEF DisableReturns, At, ending, settings, memory, morselib, lwip
<1>2. /\ initted /\ pool /\ Bottom.at \notin Freeing
      /\ itf_state \subseteq {"sta", "ap"} /\ Head(stack).itf \in {"sta", "ap", "end"}
  BY <1>1, StackType, Before DEF Running, Frame, Itf, TypeOK, Freeing
<1>3. /\ stack' \in Seq(Frame) /\ Len(stack') <= MaxDepth /\ Nesting'
      /\ stack' # <<>> => Head(stack').at \in Waits \cup {"next"}
      /\ \A p : InStack(p)' => InStack(p)
      /\ \A p : p # "down" => (InStack(p)' <=> InStack(p))
      /\ Head(stack).op = "down" /\ stack' = <<>> => Bottom = Head(stack)
      /\ stack' # <<>> => Bottom'.op = Bottom.op
      /\ stack' # <<>> /\ Bottom.op = "deinit" => Bottom'.at \in {Bottom.at, "shutdown", "next"}
  <2>1. CASE itf_state' = {}
    <3>1. Goto("shutdown")
      BY <1>1, <2>1
    <3>2. Head(stack).op = "deinit" => Len(stack) = 1
      BY <1>1, Alone
    <3> QED
      BY <1>1, <2>1, <3>1, <3>2, Gone DEF Waits
  <2>2. CASE itf_state' # {}
    <3>1. DownReturns
      BY <1>1, <2>2
    <3> QED
      BY <1>1, <2>2, <3>1, WentDown
  <2> QED
    BY <2>1, <2>2
<1>4. ~At({"scan"}, "request") /\ ~At({"scan"}, "request")'
  BY <1>1, <1>3 DEF At, Waits
<1>5. Routes'
  <2>1. CASE Head(stack).itf \in itf_state
    BY <1>1, <2>1, DeinitRoutes DEF TypeOK
  <2>2. CASE Head(stack).itf \notin itf_state
    <3>1. UNCHANGED <<netifs, default, itf_state, stranded>>
      BY <1>1, <2>2
    <3> QED
      BY <3>1, RoutesStill
  <2> QED
    BY <2>1, <2>2
<1>6. TypeOK'
  <2>1. teardown' \in BOOLEAN /\ link' \in BOOLEAN
    BY <1>1 DEF TypeOK
  <2>2. /\ link_up' \subseteq Itf /\ itf_state' \subseteq Itf
        /\ sta' \in {"off", "connecting", "connected"} /\ link_status' \in {"down", "join", "noip", "fail"}
    BY <1>1 DEF TypeOK
  <2> QED
    BY <1>1, <1>3, <1>5, <2>1, <2>2 DEF TypeOK, Routes, Name
<1>7. Undone'
  BY <1>1, <1>2, <1>3 DEF Undone, Freeing
<1>8. Running'
  BY <1>1, <1>2, <1>3 DEF Running
<1>9. Radio'
  BY <1>1 DEF Radio
<1>10. Requesting' /\ ScanActiveExact'
  BY <1>1, <1>4 DEF Requesting, ScanActiveExact
<1>11. Joining'
  BY <1>1, <1>3 DEF Joining
<1>12. Routes'
  BY <1>5
<1> QED
  BY <1>3, <1>6, <1>7, <1>8, <1>9, <1>10, <1>11, <1>12

LEMMA UpCallInv == ASSUME IInv, NEW itf \in Itf, UpCall(itf) PROVE IInv'
<1> USE DEF IInv
<1>1. MayCall /\ (stack # <<>> => Bottom.at \notin Freeing)
  BY Before DEF UpCall, MayCall, in_callback, Waiting, Waits, Freeing
<1>2. ~At({"scan"}, "request")
  BY <1>1, NotRequesting
<1>3. ~initted => /\ (~stranded => itf_state = {}) /\ stack = <<>> /\ chip = "off"
                  /\ \A p : ~InStack(p)
  BY EmptyStack DEF Running
<1>4. CASE ~initted /\ InitFails
  <2>1. /\ itf_state' = {} /\ scan_active' = FALSE /\ scan_cache' = FALSE /\ link_status' = "down"
        /\ UNCHANGED <<initted, booted, pm, ps, cfg, poll, stranded, teardown, pool, heap,
             tx_buf, tasks, timers, chip, sta, link, sweep, applied, netifs, default, link_up,
             stack>>
    BY <1>4 DEF InitFails, ending, settings, morselib, lwip
  <2>2. /\ stack' \in Seq(Frame) /\ Len(stack') <= MaxDepth /\ Nesting' /\ Bottom' = Bottom
        /\ \A p : InStack(p)' <=> InStack(p)
    BY <2>1, Still
  <2>3. ~sweep /\ ~At({"scan"}, "request")'
    BY <1>2, <1>3, <1>4, <2>1 DEF Radio, At
  <2>4. TypeOK'
    <3>1. scan_active' \in BOOLEAN /\ scan_cache' \in BOOLEAN
      BY <2>1
    <3> QED
      BY <2>1, <2>2, <3>1 DEF TypeOK
  <2>5. Undone' /\ Running'
    BY <1>3, <1>4, <2>1 DEF Undone, Running
  <2>6. Radio' /\ Joining'
    BY <2>1 DEF Radio, Joining
  <2>7. Requesting' /\ ScanActiveExact'
    BY <2>1, <2>3 DEF Requesting, ScanActiveExact
  <2>8. Routes'
    BY <1>3, <1>4, <2>1, RoutesStill
  <2> QED
    BY <2>2, <2>4, <2>5, <2>6, <2>7, <2>8
<1>5. CASE /\ Inits
           /\ \/ Call("up", itf, IF booted THEN "bring" ELSE "boot")
              \/ UNCHANGED stack
           /\ UNCHANGED <<booted, teardown, stranded, pm, cfg, tasks, timers, morselib, lwip>>
  <2>1. /\ UNCHANGED <<booted, teardown, stranded, pm, cfg, tasks, timers, chip, sta, link, sweep,
             netifs, default, link_up>>
        /\ \/ initted /\ UNCHANGED <<initted, itf_state, scan_active, link_status, applied,
                                     ps, poll, pool, heap, tx_buf, scan_cache>>
           \/ /\ ~initted /\ itf_state' = {} /\ scan_active' = FALSE /\ scan_cache' = FALSE
              /\ link_status' = "down" /\ pool' = TRUE /\ heap' = TRUE /\ tx_buf' = TRUE
              /\ ps' = pm /\ applied' = cfg
              /\ initted' = TRUE /\ poll' = TRUE
    BY <1>5 DEF Inits, morselib, lwip
  <2>2. /\ stack' \in Seq(Frame) /\ Len(stack') <= MaxDepth /\ Nesting'
        /\ ~At({"scan"}, "request")'
        /\ stack' # <<>> => Bottom'.op # "deinit" \/ Bottom'.at \notin Freeing
        /\ \A p : p # "up" => (InStack(p)' <=> InStack(p))
    <3>1. CASE Call("up", itf, IF booted THEN "bring" ELSE "boot")
      <4>1. [op |-> "up", itf |-> itf, at |-> IF booted THEN "bring" ELSE "boot"] \in Frame
        BY DEF Frame
      <4> QED
        BY <1>1, <3>1, <4>1, Pushed DEF At
    <3>2. CASE UNCHANGED stack
      BY <1>1, <1>2, <3>2, Still DEF At
    <3> QED
      BY <1>5, <3>1, <3>2
  <2>3. (stranded \/ itf_state' = itf_state) /\ initted' /\ pool'
    BY <1>1, <1>3, <2>1 DEF Running, Freeing
  <2>4. ~initted => ~sweep
    BY <1>3 DEF Radio
  <2>5. TypeOK'
    <3>1. /\ initted' \in BOOLEAN /\ scan_active' \in BOOLEAN /\ poll' \in BOOLEAN /\ pool' \in BOOLEAN
          /\ heap' \in BOOLEAN /\ tx_buf' \in BOOLEAN /\ scan_cache' \in BOOLEAN
      BY <2>1 DEF TypeOK
    <3>2. /\ link_status' \in {"down", "join", "noip", "fail"} /\ itf_state' \subseteq Itf
          /\ applied' \in [Setting -> BOOLEAN] /\ ps' \in {"none", "powersave"}
      BY <2>1 DEF TypeOK
    <3> QED
      BY <2>1, <2>2, <2>3, <3>1, <3>2 DEF TypeOK
  <2>6. Undone' /\ Running'
    BY <2>2, <2>3 DEF Undone, Running, Freeing
  <2>7. Radio'
    BY <2>1 DEF Radio
  <2>8. Requesting' /\ ScanActiveExact'
    BY <1>2, <2>1, <2>2, <2>4 DEF Requesting, ScanActiveExact
  <2>9. Joining'
    BY <2>1, <2>2 DEF Joining
  <2>10. Routes'
    BY <2>1, <2>3, RoutesStill
  <2> QED
    BY <2>2, <2>5, <2>6, <2>7, <2>8, <2>9, <2>10
<1> QED
  BY <1>4, <1>5 DEF UpCall

LEMMA InitInv == Init => IInv
<1> SUFFICES ASSUME Init PROVE IInv
  OBVIOUS
<1> USE DEF Init
<1>1. TypeOK
  <2>1. stack \in Seq(Frame) /\ Len(stack) = 0 /\ netifs \in Seq(Itf \cup {"other"})
    OBVIOUS
  <2>2. Len(stack) <= MaxDepth
    BY <2>1, CtrlAssumption
  <2>3. cfg \in [Setting -> BOOLEAN] /\ applied \in [Setting -> BOOLEAN]
    OBVIOUS
  <2> QED
    BY <2>1, <2>2, <2>3 DEF TypeOK
<1>2. Nesting
  BY DEF Nesting
<1>3. ~At({"scan"}, "request")
  BY DEF At
<1>4. Undone /\ Running /\ Radio /\ Joining
  BY DEF Undone, Running, Radio, Joining
<1>5. Requesting /\ ScanActiveExact
  BY <1>3 DEF Requesting, ScanActiveExact
<1>6. Routes
  <2>1. ToSet(netifs) = {} /\ DOMAIN netifs = {} /\ netifs \in Seq(Name)
    BY DEF ToSet
  <2> QED
    BY <2>1 DEF Routes, NetifsMatch, Routed
<1> QED
  BY <1>1, <1>2, <1>4, <1>5, <1>6 DEF IInv

LEMMA StutterInv == ASSUME IInv, UNCHANGED vars PROVE IInv'
<1> USE DEF IInv
<1>1. UNCHANGED <<initted, booted, itf_state, scan_active, link_status, pm, ps, cfg, poll,
        stranded, teardown, pool, heap, tx_buf, scan_cache, tasks, timers, chip, sta, link,
        sweep, applied, netifs, default, link_up, stack>>
  BY DEF vars, ending, settings, memory, morselib, lwip
<1>2. /\ stack' \in Seq(Frame) /\ Len(stack') <= MaxDepth /\ Nesting' /\ Bottom' = Bottom
      /\ \A p : InStack(p)' <=> InStack(p)
  BY <1>1, Still
<1>3. TypeOK'
  BY <1>1, <1>2 DEF TypeOK
<1>4. Undone' /\ Running' /\ Radio' /\ Joining'
  BY <1>1, <1>2 DEF Undone, Running, Radio, Joining
<1>5. Requesting' /\ ScanActiveExact'
  BY <1>1 DEF Requesting, ScanActiveExact, At
<1>6. Routes'
  BY <1>1, RoutesStill
<1> QED
  BY <1>2, <1>3, <1>4, <1>5, <1>6

LEMMA NextInv == IInv /\ [Next]_vars => IInv'
<1> SUFFICES ASSUME IInv, [Next]_vars PROVE IInv'
  OBVIOUS
<1>1. CASE UNCHANGED vars
  BY <1>1, StutterInv
<1>2. CASE Calls
  BY <1>2, UpCallInv, DownCallInv, LeaveCallInv, DeinitCallInv, ScanCallInv, JoinCallInv, SetPmInv,
     SetRadioInv DEF Calls
<1>3. CASE Steps
  BY <1>3, BootReturnsInv, ScanRequestInv, JoinReturnsInv, BootOkInv, BringInv, DisableReturnsInv,
     ShutdownReturnsInv, DeinitNextInv, DeinitStoppedInv, SchedDeinitInv, OsalDeinitInv,
     DeinitClearInv, ScanReturnsInv, JoinAbortedInv, LeaveReturnsInv DEF Steps
<1>4. CASE Callbacks
  BY <1>4, StaStatusInv, LinkUpInv, ScanCompleteInv, FatalErrorInv DEF Callbacks
<1>5. CASE OtherUp
  BY <1>5, OtherUpInv
<1> QED
  BY <1>1, <1>2, <1>3, <1>4, <1>5 DEF Next

LEMMA Invariant == Spec => []IInv
BY InitInv, NextInv, PTL DEF Spec

-----------------------------------------------------------------------------
(* The theorems *)

\* The variables keep their types: the calls nest no deeper than the callbacks allow, and
\* each is at one of its own places.
THEOREM TypeCorrect == Spec => []TypeOK
<1>1. IInv => TypeOK
  BY DEF IInv
<1> QED
  BY <1>1, Invariant, PTL

\* Nothing the poll or a call under way can reach is in a heap that was given back,
\* however deep callbacks nest calls into a deinit, bringing interfaces up included
\* (mm_halow_deinit, mm_halow_osal_deinit, mm_halow_poll_func).
THEOREM NothingIsLeftDangling == Spec => []NothingDangles
<1>1. IInv => NothingDangles
  <2> SUFFICES ASSUME IInv, ~pool PROVE NothingDangles
    BY DEF NothingDangles
  <2> USE DEF IInv
  <2>1. ~stranded /\ itf_state = {} => Itf \cap ToSet(netifs) = {}
    BY DEF Routes, NetifsMatch, Itf
  <2>2. ~tasks /\ ~timers /\ ~heap /\ Len(stack) <= 1 /\ (~stranded => itf_state = {})
    <3>1. CASE ~initted
      BY <3>1 DEF Running
    <3>2. CASE initted
      <4>1. stack # <<>> /\ Bottom.op = "deinit" /\ Bottom.at = "clear"
        BY <3>2 DEF Running
      <4>2. Len(stack) = 1
        BY <4>1, Alone DEF Waits
      <4> QED
        BY <4>1, <4>2 DEF Undone, Freeing
    <3> QED
      BY <3>1, <3>2
  <2> QED
    BY <2>1, <2>2 DEF NothingDangles
<1> QED
  BY <1>1, Invariant, PTL

\* Until a callback strands an interface in the last wait of a deinit, lwIP's list holds
\* exactly the interfaces that are up, each once, and a listed one has the default route
\* (mm_halow_wifi_set_up, mm_halow_cb_tcpip_deinit).
THEOREM NetifsAreTheInterfaces == Spec => []NetifsMatch
<1>1. IInv => NetifsMatch
  BY DEF IInv, Routes
<1> QED
  BY <1>1, Invariant, PTL

\* scan_active says whether a sweep is running (mm_halow_scan_start_locked,
\* mm_halow_scan_complete_cb, mm_halow_fatal_error_cb).
THEOREM ScanFlagIsExact == Spec => []ScanActiveExact
<1>1. IInv => ScanActiveExact
  BY DEF IInv
<1> QED
  BY <1>1, Invariant, PTL

\* With the transceiver off and no call under way the station does not look healthy
\* (mm_halow_fatal_error_cb, mm_halow_wifi_join).
THEOREM OffIsVisible == Spec => []OffLooksOff
<1>1. IInv => OffLooksOff
  <2> SUFFICES ASSUME IInv, chip = "off", stack = <<>>
               PROVE  link_status \in {"down", "fail"} /\ "sta" \notin link_up
    BY DEF OffLooksOff, netif_is_link_up
  <2> USE DEF IInv
  <2>2. sta = "off" /\ ~link
    BY DEF Radio
  <2>3. ~InStack("join")
    BY EmptyStack
  <2>4. link_status \in {"down", "fail"}
    BY <2>2, <2>3 DEF Joining, TypeOK
  <2> QED
    BY <2>2, <2>4 DEF Radio
<1> QED
  BY <1>1, Invariant, PTL
=============================================================================
