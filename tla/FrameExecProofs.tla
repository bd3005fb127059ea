--------------------------- MODULE FrameExecProofs ---------------------------
(***************************************************************************)
(* For any functions and limits: types are right, the counter of the       *)
(* recursion limit and the chain of C frames are restored, the trace       *)
(* function is not called from itself, exceptions and events fit the state *)
(* of the frames, and recursion ends the process only while an exception   *)
(* is normalised.                                                          *)
(***************************************************************************)
EXTENDS FrameExec, TLAPS

\* Only compiled code is entered, fails in hooks and is left.
Plain == {"body", "failed", "raised"}

\* The first frame is the only one of its kind, and every frame was called from
\* the one before it, or from one that a C++ exception had cut from the chain.
Linked(fs, n) ==
    /\ fs[n].kind = "base" <=> n = 1
    /\ fs[n].kind # "code" => fs[n].pc \in Plain
    /\ n > 1 => \/ fs[n].previous = n - 1
                \/ fs[n].previous = 0 /\ fs[n - 1].cut

Chained(fs) ==
    /\ fs \in Seq(Frame) /\ Len(fs) > 0
    /\ \A n \in 1..Len(fs) : Linked(fs, n)

\* At most one frame of the trace function, and count of them.
Hooked(fs, count) ==
    /\ \A m, n \in 1..Len(fs) : fs[m].kind = "hook" /\ fs[n].kind = "hook" => m = n
    /\ count \in {0, 1}
    /\ count = 1 <=> \E n \in 1..Len(fs) : fs[n].kind = "hook"

OthersTypeOK ==
    /\ hooks \in [Code -> {"none", "plain", "traced"}]
    /\ limit \in Nat /\ limit \in Limits \cup {JitLimit}
    /\ tracefunc \in BOOLEAN /\ fatal \in Nat
    /\ exc \in Exception

FrameInv ==
    /\ OthersTypeOK
    /\ Chained(frames)
    /\ Hooked(frames, tracing)
    /\ depth = Len(frames)
    /\ cframe = Len(frames) \/ (frames[Len(frames)].cut /\ cframe = 0)

\* A step leaves frames, or calls one: a class, or within the room of a limit.
Nests ==
    /\ \A n \in 1..Len(frames') : n <= Len(frames) => frames'[n].kind = frames[n].kind
    /\ \/ Len(frames') <= Len(frames)
       \/ /\ Len(frames') = Len(frames) + 1
          /\ \/ frames'[Len(frames')].kind = "init"
             \/ \E max \in {limit, JitLimit} : Len(frames') <= Room(max)

\* fs and gs differ in what the chain does not depend on, at most.
Alike(fs, gs) ==
    /\ gs \in Seq(Frame) /\ Len(gs) = Len(fs)
    /\ \A n \in 1..Len(fs) :
           /\ gs[n].kind = fs[n].kind /\ gs[n].previous = fs[n].previous
           /\ fs[n].cut => gs[n].cut
           /\ gs[n].kind # "code" => gs[n].pc \in Plain

-----------------------------------------------------------------------------
(* Sequences of frames *)

LEMMA AlikeChained ==
    ASSUME NEW fs, NEW gs, NEW count, Chained(fs), Alike(fs, gs), Hooked(fs, count)
    PROVE  Chained(gs) /\ Hooked(gs, count)
  <1>1. ASSUME NEW n \in 1..Len(gs) PROVE Linked(gs, n)
    <2>1. n \in 1..Len(fs) /\ Linked(fs, n) /\ Len(fs) \in Nat
      BY DEF Chained, Alike
    <2>2. n > 1 => n - 1 \in 1..Len(fs)
      BY <2>1
    <2> QED
      BY <2>1, <2>2 DEF Alike, Linked
  <1>2. Chained(gs)
    BY <1>1 DEF Chained, Alike
  <1>3. Hooked(gs, count)
    BY DEF Hooked, Alike
  <1> QED
    BY <1>2, <1>3

\* What the steps do to single frames.
LEMMA Updates ==
    ASSUME NEW f \in Frame
    PROVE  /\ \A pc \in Plain \cup {"exit", "left"} : [f EXCEPT !.pc = pc] \in Frame
           /\ \A use \in BOOLEAN : [f EXCEPT !.use_tracing = use] \in Frame
           /\ \A e \in Exception : [f EXCEPT !.saved = e] \in Frame
           /\ \A r \in {"value", "null"} : [f EXCEPT !.result = r] \in Frame
           /\ \A r \in BOOLEAN : [f EXCEPT !.reported = r] \in Frame
           /\ [f EXCEPT !.cut = TRUE] \in Frame
  <1>1. \A pc \in Plain \cup {"exit", "left"} : [f EXCEPT !.pc = pc] \in Frame
    BY DEF Frame, Plain
  <1>2. \A use \in BOOLEAN : [f EXCEPT !.use_tracing = use] \in Frame
    BY DEF Frame
  <1>3. \A e \in Exception : [f EXCEPT !.saved = e] \in Frame
    BY DEF Frame
  <1>4. \A r \in {"value", "null"} : [f EXCEPT !.result = r] \in Frame
    BY DEF Frame
  <1>5. \A r \in BOOLEAN : [f EXCEPT !.reported = r] \in Frame
    BY DEF Frame
  <1>6. [f EXCEPT !.cut = TRUE] \in Frame
    BY DEF Frame
  <1> QED
    BY <1>1, <1>2, <1>3, <1>4, <1>5, <1>6

\* The innermost frame goes on at another place.
LEMMA AlikeAt ==
    ASSUME NEW fs, Chained(fs), NEW pc \in Plain
    PROVE  Alike(fs, [fs EXCEPT ![Len(fs)].pc = pc])
  <1>1. fs \in Seq(Frame) /\ Len(fs) \in 1..Len(fs)
    BY DEF Chained
  <1>2. [fs[Len(fs)] EXCEPT !.pc = pc] \in Frame
    <2>1. fs[Len(fs)] \in Frame
      BY <1>1
    <2> QED
      BY <2>1, Updates
  <1> QED
    BY <1>1, <1>2 DEF Alike, Chained, Linked, Plain, Frame

\* The innermost frame is updated.
LEMMA AlikeTop ==
    ASSUME NEW fs, Chained(fs), NEW f \in Frame,
           f.kind = fs[Len(fs)].kind, f.previous = fs[Len(fs)].previous,
           fs[Len(fs)].cut => f.cut, f.kind # "code" => f.pc \in Plain
    PROVE  Alike(fs, [fs EXCEPT ![Len(fs)] = f])
  <1>1. fs \in Seq(Frame) /\ Len(fs) \in 1..Len(fs)
    BY DEF Chained
  <1> QED
    BY <1>1 DEF Alike, Chained, Linked

LEMMA AlikeFlag ==
    ASSUME NEW fs, Chained(fs), NEW n \in 0..Len(fs), NEW use \in BOOLEAN
    PROVE  Alike(fs, WithFlag(fs, n, use))
  <1>1. fs \in Seq(Frame)
    BY DEF Chained
  <1>2. CASE n = 0
    BY <1>1, <1>2 DEF Alike, WithFlag, Chained, Linked
  <1>3. CASE n # 0
    <2>1. [fs[n] EXCEPT !.use_tracing = use] \in Frame
      <3>1. fs[n] \in Frame
        BY <1>1, <1>3
      <3> QED
        BY <3>1, Updates
    <2> QED
      BY <1>1, <1>3, <2>1 DEF Alike, WithFlag, Chained, Linked, Frame
  <1> QED
    BY <1>2, <1>3

LEMMA AlikeUnsettled ==
    ASSUME NEW fs, Chained(fs)
    PROVE  Alike(fs, Unsettled(fs))
  <1>1. fs \in Seq(Frame) /\ DOMAIN fs = 1..Len(fs) /\ Len(fs) \in Nat
    BY DEF Chained
  <1>2. ASSUME NEW n \in 1..Len(fs), NEW g, g = [fs[n] EXCEPT !.reported = FALSE]
        PROVE  /\ g \in Frame /\ g.kind = fs[n].kind /\ g.previous = fs[n].previous
               /\ fs[n].cut => g.cut
               /\ g.kind # "code" => g.pc \in Plain
    <2>1. fs[n] \in Frame /\ Linked(fs, n)
      BY <1>1 DEF Chained
    <2>2. g \in Frame
      BY <1>2, <2>1, Updates
    <2>3. g.kind = fs[n].kind /\ g.previous = fs[n].previous /\ g.cut = fs[n].cut /\ g.pc = fs[n].pc
      BY <1>2, <2>1 DEF Frame
    <2> QED
      BY <2>1, <2>2, <2>3 DEF Linked
  <1>3. \A n \in 1..Len(fs) : Unsettled(fs)[n] = [fs[n] EXCEPT !.reported = FALSE]
    BY <1>1 DEF Unsettled
  <1>4. Unsettled(fs) \in Seq(Frame) /\ Len(Unsettled(fs)) = Len(fs)
    <2>1. \A n \in 1..Len(fs) : [fs[n] EXCEPT !.reported = FALSE] \in Frame
      BY <1>2
    <2> QED
      BY <1>1, <2>1 DEF Unsettled
  <1> QED
    BY <1>2, <1>3, <1>4 DEF Alike

LEMMA AlikeTrans ==
    ASSUME NEW fs, NEW gs, NEW hs, Alike(fs, gs), Alike(gs, hs)
    PROVE  Alike(fs, hs)
  BY DEF Alike

\* A frame is called from the innermost one.
LEMMA Pushed ==
    ASSUME NEW fs, NEW count, Chained(fs), Hooked(fs, count), NEW f \in Frame,
           f.kind # "base", f.kind # "code" => f.pc \in Plain, f.kind = "hook" => count = 0,
           f.previous = Len(fs) \/ (f.previous = 0 /\ fs[Len(fs)].cut)
    PROVE  /\ Chained(Append(fs, f))
           /\ Hooked(Append(fs, f), IF f.kind = "hook" THEN 1 ELSE count)
  <1> DEFINE gs == Append(fs, f)
  <1>1. /\ fs \in Seq(Frame) /\ Len(fs) \in Nat /\ Len(fs) > 0
        /\ gs \in Seq(Frame) /\ Len(gs) = Len(fs) + 1 /\ gs[Len(fs) + 1] = f
        /\ \A n \in 1..Len(fs) : gs[n] = fs[n]
    BY DEF Chained
  <1>2. ASSUME NEW n \in 1..Len(gs) PROVE Linked(gs, n)
    <2>1. CASE n \in 1..Len(fs)
      <3>1. n > 1 => n - 1 \in 1..Len(fs)
        BY <2>1, <1>1
      <3> QED
        BY <1>1, <2>1, <3>1 DEF Chained, Linked
    <2>2. CASE n = Len(fs) + 1
      BY <1>1, <2>2 DEF Linked, Frame
    <2> QED
      BY <1>1, <2>1, <2>2
  <1>3. Hooked(gs, IF f.kind = "hook" THEN 1 ELSE count)
    BY <1>1 DEF Hooked
  <1> QED
    BY <1>1, <1>2, <1>3 DEF Chained

\* The innermost frame is left.
LEMMA PoppedChained ==
    ASSUME NEW fs, NEW count, Chained(fs), Hooked(fs, count), fs[Len(fs)].kind # "base"
    PROVE  /\ Len(fs) > 1
           /\ Len(SubSeq(fs, 1, Len(fs) - 1)) = Len(fs) - 1
           /\ Chained(SubSeq(fs, 1, Len(fs) - 1))
           /\ \A n \in 1..(Len(fs) - 1) : SubSeq(fs, 1, Len(fs) - 1)[n] = fs[n]
           /\ Hooked(SubSeq(fs, 1, Len(fs) - 1),
                     IF fs[Len(fs)].kind = "hook" THEN 0 ELSE count)
  <1> DEFINE gs == SubSeq(fs, 1, Len(fs) - 1)
  <1>1. fs \in Seq(Frame) /\ Len(fs) \in Nat /\ Len(fs) > 0
    BY DEF Chained
  <1>2. Len(fs) > 1
    BY <1>1 DEF Chained, Linked
  <1>3. /\ gs \in Seq(Frame) /\ Len(gs) = Len(fs) - 1
        /\ \A n \in 1..(Len(fs) - 1) : gs[n] = fs[n]
    BY <1>1, <1>2
  <1>4. ASSUME NEW n \in 1..Len(gs) PROVE Linked(gs, n)
    <2>1. n \in 1..Len(fs) /\ (n > 1 => n - 1 \in 1..Len(gs))
      BY <1>1, <1>3
    <2> QED
      BY <1>1, <1>3, <2>1 DEF Chained, Linked
  <1>5. Hooked(gs, IF fs[Len(fs)].kind = "hook" THEN 0 ELSE count)
    <2>1. Len(fs) \in 1..Len(fs) /\ 1..Len(gs) \subseteq 1..Len(fs) /\ Len(fs) \notin 1..Len(gs)
          /\ 1..Len(fs) = (1..Len(gs)) \cup {Len(fs)}
      BY <1>1, <1>3
    <2> QED
      BY <1>3, <2>1 DEF Hooked
  <1> QED
    BY <1>1, <1>2, <1>3, <1>4, <1>5 DEF Chained

-----------------------------------------------------------------------------
(* Steps *)

LEMMA AlikeSelf ==
    ASSUME NEW fs, Chained(fs) PROVE Alike(fs, fs)
  BY DEF Alike, Chained, Linked

\* A step after which the chain has the frames it had.
LEMMA AlikeInv ==
    ASSUME FrameInv, OthersTypeOK', Alike(frames, frames'),
           cframe' = cframe, depth' = depth, tracing' = tracing
    PROVE  FrameInv' /\ Nests
  <1>1. Chained(frames') /\ Hooked(frames', tracing')
    BY AlikeChained DEF FrameInv
  <1>2. Len(frames') = Len(frames) /\ Len(frames) \in 1..Len(frames)
    BY DEF FrameInv, Alike, Chained
  <1>3. frames[Len(frames)].cut => frames'[Len(frames)].cut
    BY <1>2 DEF Alike
  <1>4. Nests
    BY <1>2 DEF Alike, Nests
  <1> QED
    BY <1>1, <1>2, <1>3, <1>4 DEF FrameInv

LEMMA FailsAlike ==
    ASSUME FrameInv, Fails PROVE Alike(frames, frames') /\ exc' \in Exception
  BY AlikeAt DEF FrameInv, Fails, Top, Plain, Exception

\* The flag a call copies.
LEMMA Flags == ASSUME FrameInv PROVE UseTracing \subseteq BOOLEAN
  <1>1. CASE cframe = 0
    BY <1>1 DEF UseTracing
  <1>2. CASE cframe # 0
    <2>1. frames \in Seq(Frame) /\ cframe \in 1..Len(frames)
      BY <1>2 DEF FrameInv, Chained
    <2>2. frames[cframe] \in Frame
      BY <2>1
    <2> QED
      BY <1>2, <2>2 DEF UseTracing, Frame
  <1> QED
    BY <1>1, <1>2

\* The depth of the call that ends the process.
LEMMA Depths == ASSUME FrameInv PROVE depth + 1 \in Nat /\ depth + 2 \in Nat
  BY DEF FrameInv, Chained

LEMMA CheckInv ==
    ASSUME FrameInv, NEW max, CheckRecursiveCall(max),
           hooks' \in [Code -> {"none", "plain", "traced"}],
           UNCHANGED <<limit, tracefunc, tracing>>
    PROVE  FrameInv' /\ Nests
  <1>1. CASE Dies
    <2>1. OthersTypeOK'
      BY <1>1, Depths DEF FrameInv, OthersTypeOK, Dies
    <2> QED
      BY <1>1, <2>1, AlikeSelf, AlikeInv DEF Dies, FrameInv
  <1>2. CASE Refuse
    <2>1. Fails /\ UNCHANGED <<cframe, depth>> /\ fatal' \in Nat
      BY <1>2, Depths DEF Refuse, Formatted, FrameInv, OthersTypeOK
    <2>2. OthersTypeOK'
      BY <2>1, FailsAlike DEF FrameInv, OthersTypeOK
    <2> QED
      BY <2>1, <2>2, FailsAlike, AlikeInv
  <1> QED
    BY <1>1, <1>2 DEF CheckRecursiveCall

LEMMA EnterInv ==
    ASSUME FrameInv, NEW max \in {limit, JitLimit},
           NEW f \in Frame, f.kind = "code", f.previous = cframe,
           EnterRecursiveCall(max, f),
           hooks' \in [Code -> {"none", "plain", "traced"}],
           UNCHANGED <<limit, tracefunc, tracing>>
    PROVE  FrameInv' /\ Nests
  <1>1. CASE depth + 1 <= Room(max) /\ Push(f)
    <2>1. frames' = Append(frames, f) /\ cframe' = Len(frames) + 1 /\ depth' = depth + 1
          /\ UNCHANGED <<exc, fatal>>
      BY <1>1 DEF Push, Top
    <2>2. Chained(frames') /\ Hooked(frames', tracing)
      BY <2>1, Pushed DEF FrameInv
    <2>3. /\ Len(frames') = Len(frames) + 1
          /\ \A n \in 1..Len(frames) : frames'[n] = frames[n]
      BY <2>1 DEF FrameInv, Chained
    <2>4. Nests
      BY <1>1, <2>3 DEF Nests, FrameInv, Chained
    <2> QED
      BY <2>1, <2>2, <2>3, <2>4 DEF FrameInv, OthersTypeOK
  <1> QED
    BY <1>1, CheckInv DEF EnterRecursiveCall

\* The frame of a call, compiled or not.
IsEntered(f, use) ==
    /\ f \in Frame /\ f.kind = "code" /\ f.previous = cframe /\ f.use_tracing = use
    /\ f.pc = "entry" /\ ~f.reported /\ ~f.cut /\ f.result = "value"
    /\ f.saved = "none"

LEMMA EnteredFrame ==
    ASSUME FrameInv, NEW use \in BOOLEAN PROVE IsEntered(Entered(use), use)
  <1>1. cframe \in Nat
    BY DEF FrameInv, Chained
  <1> QED
    BY <1>1 DEF IsEntered, Entered, Frame, Base, Exception

LEMMA TracedFrame ==
    ASSUME NEW e, NEW use, IsEntered(e, use), NEW traced \in BOOLEAN
    PROVE  IsEntered([e EXCEPT !.traced = traced], use)
  BY DEF IsEntered, Frame

LEMMA InterpretedFrame ==
    ASSUME NEW e, NEW use, IsEntered(e, use)
    PROVE  IsEntered([e EXCEPT !.interpreted = TRUE], use)
  BY DEF IsEntered, Frame

\* The frame a call pushes if it is not refused.
LEMMA CallEnters ==
    ASSUME FrameInv, NEW c \in Code, Call(c)
    PROVE  \E use \in UseTracing : \E f : IsEntered(f, use) /\ EnterRecursiveCall(JitLimit, f)
  <1>1. PICK use \in UseTracing :
           EnterRecursiveCall(JitLimit, [Entered(use) EXCEPT !.traced = hooks'[c] = "traced"])
    BY DEF Call
  <1>2. use \in BOOLEAN
    BY Flags
  <1> DEFINE e == Entered(use)
  <1>3. IsEntered(e, use)
    BY <1>2, EnteredFrame
  <1>4. EnterRecursiveCall(JitLimit, [e EXCEPT !.traced = hooks'[c] = "traced"])
    BY <1>1
  <1> HIDE DEF e
  <1>5. (hooks'[c] = "traced") \in BOOLEAN
    OBVIOUS
  <1>6. IsEntered([e EXCEPT !.traced = hooks'[c] = "traced"], use)
    BY <1>3, <1>5, TracedFrame, Zenon
  <1> QED
    BY <1>4, <1>6, Zenon

LEMMA CallInterpretedEnters ==
    ASSUME FrameInv, NEW c \in Uncompiled, CallInterpreted(c)
    PROVE  \E use \in UseTracing : \E f : IsEntered(f, use) /\ EnterRecursiveCall(limit, f)
  <1>1. PICK use \in UseTracing :
           EnterRecursiveCall(limit, [Entered(use) EXCEPT !.interpreted = TRUE])
    BY DEF CallInterpreted
  <1>2. use \in BOOLEAN
    BY Flags
  <1>3. IsEntered([Entered(use) EXCEPT !.interpreted = TRUE], use)
    BY <1>2, EnteredFrame, InterpretedFrame
  <1> QED
    BY <1>1, <1>3, Zenon

LEMMA CallInv == ASSUME FrameInv, NEW c \in Code, Call(c) PROVE FrameInv' /\ Nests
  <1>1. hooks' \in [Code -> {"none", "plain", "traced"}]
    BY DEF Call, FrameInv, OthersTypeOK
  <1>2. PICK use, f : IsEntered(f, use) /\ EnterRecursiveCall(JitLimit, f)
    BY CallEnters, Zenon
  <1> QED
    BY <1>1, <1>2, EnterInv DEF Call, IsEntered

LEMMA CallInterpretedInv ==
    ASSUME FrameInv, NEW c \in Uncompiled, CallInterpreted(c) PROVE FrameInv' /\ Nests
  <1>1. PICK use, f : IsEntered(f, use) /\ EnterRecursiveCall(limit, f)
    BY CallInterpretedEnters, Zenon
  <1> QED
    BY <1>1, EnterInv DEF CallInterpreted, FrameInv, OthersTypeOK, IsEntered

LEMMA CallCInv == ASSUME FrameInv, CallC PROVE FrameInv' /\ Nests
  BY CheckInv DEF CallC, FrameInv, OthersTypeOK

\* The frame of an exception's class.
InitFrame(use) ==
    [Base EXCEPT !.kind = "init", !.use_tracing = use, !.previous = cframe, !.cut = (cframe = 0)]

LEMMA InitFrames ==
    ASSUME FrameInv, NEW use \in BOOLEAN
    PROVE  /\ InitFrame(use) \in Frame
           /\ InitFrame(use).kind = "init" /\ InitFrame(use).previous = cframe
           /\ InitFrame(use).use_tracing = use
           /\ InitFrame(use).pc = "body" /\ ~InitFrame(use).reported
           /\ InitFrame(use).cut = (cframe = 0) /\ InitFrame(use).result = "value"
           /\ InitFrame(use).saved = "none"
  <1>1. cframe \in Nat
    BY DEF FrameInv, Chained
  <1> QED
    BY <1>1 DEF InitFrame, Frame, Base, Exception

LEMMA CreatesInv ==
    ASSUME FrameInv, NEW class, Creates(class),
           UNCHANGED <<hooks, limit, tracefunc, tracing>>
    PROVE  FrameInv' /\ Nests
  <1> DEFINE fs == [frames EXCEPT ![Top].pc = "body"]
  <1>1. PICK use \in UseTracing : frames' = Append(fs, InitFrame(use))
    BY Zenon DEF Creates, InitFrame
  <1>2. use \in BOOLEAN
    BY Flags
  <1> DEFINE f == InitFrame(use)
  <1>3. /\ f \in Frame /\ f.kind = "init" /\ f.previous = cframe /\ f.pc = "body"
        /\ f.cut = (cframe = 0)
    BY <1>2, InitFrames
  <1> HIDE DEF f
  <1>4. Alike(frames, fs)
    BY AlikeAt DEF FrameInv, Top, Plain
  <1> HIDE DEF fs
  <1>5. Chained(fs) /\ Hooked(fs, tracing) /\ Len(fs) = Len(frames)
    BY <1>4, AlikeChained DEF FrameInv, Alike
  <1>6. f.previous = Len(fs) \/ (f.previous = 0 /\ fs[Len(fs)].cut)
    <2>1. Len(frames) \in 1..Len(frames)
      BY DEF FrameInv, Chained
    <2> QED
      BY <1>3, <1>4, <1>5, <2>1 DEF FrameInv, Alike
  <1>7. frames' = Append(fs, f)
    BY <1>1 DEF f
  <1>8. Chained(frames') /\ Hooked(frames', tracing)
    BY <1>3, <1>5, <1>6, <1>7, Pushed DEF Plain
  <1>9. Len(frames') = Len(frames) + 1 /\ frames'[Len(frames) + 1] = f
    BY <1>5, <1>7 DEF Chained
  <1>10. OthersTypeOK'
    BY DEF Creates, FrameInv, OthersTypeOK, Exception
  <1>11. /\ cframe' = IF cframe = 0 THEN 0 ELSE Len(frames) + 1
         /\ depth' = depth + 1
    BY DEF Creates, Top
  <1>12. Nests
    <2>1. fs \in Seq(Frame) /\ Len(frames) \in Nat
      BY <1>5 DEF Chained
    <2>2. \A n \in 1..Len(frames) : frames'[n] = fs[n]
      BY <1>5, <1>7, <2>1
    <2> QED
      BY <1>3, <1>4, <1>9, <2>1, <2>2 DEF Alike, Nests
  <1> QED
    BY <1>3, <1>8, <1>9, <1>10, <1>11, <1>12 DEF FrameInv

LEMMA CatchInv == ASSUME FrameInv, Catch PROVE FrameInv' /\ Nests
  <1>1. CASE Overflows
    <2>1. OthersTypeOK'
      BY <1>1, Depths DEF FrameInv, OthersTypeOK, Catch, Overflows, Dies
    <2> QED
      BY <1>1, <2>1, AlikeSelf, AlikeInv DEF Catch, Overflows, Dies, FrameInv
  <1>2. ASSUME NEW class \in Classes, Creates(class) PROVE FrameInv' /\ Nests
    BY <1>2, CreatesInv DEF Catch
  <1>3. CASE /\ exc' = "none" /\ frames' = [frames EXCEPT ![Top].pc = "body"]
             /\ UNCHANGED <<cframe, depth, fatal>>
    <2>1. Alike(frames, frames')
      BY <1>3, AlikeAt DEF FrameInv, Top, Plain
    <2>2. OthersTypeOK'
      BY <1>3 DEF FrameInv, OthersTypeOK, Catch, Exception
    <2> QED
      BY <1>3, <2>1, <2>2, AlikeInv DEF Catch
  <1> QED
    BY <1>1, <1>2, <1>3 DEF Catch

LEMMA RenormaliseInv == ASSUME FrameInv, Renormalise PROVE FrameInv' /\ Nests
  <1>1. Alike(frames, frames')
    BY AlikeAt DEF FrameInv, Renormalise, Top, Plain
  <1>2. OthersTypeOK'
    BY DEF FrameInv, OthersTypeOK, Renormalise, Exception
  <1> QED
    BY <1>1, <1>2, AlikeInv DEF Renormalise

LEMMA ExitInv == ASSUME FrameInv, Exit PROVE FrameInv' /\ Nests
  <1> DEFINE f(r) == [frames[Top] EXCEPT !.pc = "exit", !.result = r]
  <1>1. /\ frames \in Seq(Frame) /\ Top \in 1..Len(frames) /\ Top = Len(frames)
        /\ frames[Top] \in Frame /\ frames[Top].kind = "code" /\ Chained(frames)
    BY DEF FrameInv, Chained, Exit, Top
  <1>2. ASSUME NEW r \in {"value", "null"} PROVE Alike(frames, [frames EXCEPT ![Top] = f(r)])
    <2>1. f(r) \in Frame
      BY <1>1 DEF Frame
    <2>2. f(r).kind = frames[Top].kind /\ f(r).previous = frames[Top].previous
          /\ f(r).cut = frames[Top].cut
      BY <1>1 DEF Frame
    <2> HIDE DEF f
    <2> QED
      BY <1>1, <2>1, <2>2, AlikeTop
  <1>3. \E r \in {"value", "null"} : frames' = [frames EXCEPT ![Top].pc = "exit", ![Top].result = r]
    BY DEF Exit
  <1>4. \A r : [frames EXCEPT ![Top].pc = "exit", ![Top].result = r] = [frames EXCEPT ![Top] = f(r)]
    BY <1>1
  <1> HIDE DEF f
  <1>5. Alike(frames, frames')
    BY <1>2, <1>3, <1>4
  <1>6. OthersTypeOK'
    BY DEF FrameInv, OthersTypeOK, Exit
  <1> QED
    BY <1>5, <1>6, AlikeInv DEF Exit

\* The callers of a frame that is left, and where the innermost of them goes on.
LEMMA PoppedAlike ==
    ASSUME FrameInv, frames[Top].kind # "base", NEW e
    PROVE  /\ Top > 1 /\ Chained(SubSeq(frames, 1, Top - 1))
           /\ Len(SubSeq(frames, 1, Top - 1)) = Top - 1
           /\ \A n \in 1..(Top - 1) : SubSeq(frames, 1, Top - 1)[n] = frames[n]
           /\ Hooked(SubSeq(frames, 1, Top - 1), IF frames[Top].kind = "hook" THEN 0 ELSE tracing)
           /\ Alike(SubSeq(frames, 1, Top - 1), Popped(e))
  <1>1. /\ Top > 1 /\ Chained(SubSeq(frames, 1, Top - 1))
        /\ Len(SubSeq(frames, 1, Top - 1)) = Top - 1
        /\ \A n \in 1..(Top - 1) : SubSeq(frames, 1, Top - 1)[n] = frames[n]
        /\ Hooked(SubSeq(frames, 1, Top - 1), IF frames[Top].kind = "hook" THEN 0 ELSE tracing)
    BY PoppedChained DEF FrameInv, Top
  <1>2. Alike(SubSeq(frames, 1, Top - 1), Popped(e))
    BY <1>1, AlikeAt DEF Popped, Plain
  <1> QED
    BY <1>1, <1>2

\* Only the first frame, and those a frame was called from, stay when it is left.
LEMMA Previous ==
    ASSUME FrameInv, frames[Top].kind # "base"
    PROVE  /\ Top \in Nat /\ Top > 1 /\ Top = Len(frames) /\ frames[Top] \in Frame
           /\ \/ frames[Top].previous = Top - 1
              \/ frames[Top].previous = 0 /\ frames[Top - 1].cut
  <1>1. /\ frames \in Seq(Frame) /\ Top = Len(frames) /\ Top \in 1..Len(frames)
        /\ Linked(frames, Top)
    BY DEF FrameInv, Chained, Top
  <1> QED
    BY <1>1 DEF Linked

\* A frame is left, and its C frame with it.
LEMMA PoppedInv ==
    ASSUME FrameInv, frames[Top].kind # "base", OthersTypeOK',
           NEW fs, Alike(SubSeq(frames, 1, Top - 1), fs), NEW use \in BOOLEAN,
           frames' = WithFlag(fs, frames[Top].previous, use),
           cframe' = frames[Top].previous \/ (cframe' = 0 /\ fs[Top - 1].cut),
           depth' = depth - 1,
           tracing' = IF frames[Top].kind = "hook" THEN 0 ELSE tracing
    PROVE  FrameInv' /\ Nests
  <1> DEFINE gs == SubSeq(frames, 1, Top - 1)  n == frames[Top].previous
  <1>1. /\ Chained(gs) /\ Len(gs) = Top - 1 /\ Hooked(gs, tracing')
        /\ \A m \in 1..(Top - 1) : gs[m] = frames[m]
    BY PoppedAlike
  <1>2. Chained(fs) /\ Hooked(fs, tracing') /\ Len(fs) = Top - 1
    BY <1>1, AlikeChained DEF Alike
  <1>3. Top - 1 \in 1..(Top - 1) /\ n \in 0..(Top - 1)
    BY Previous
  <1>4. Alike(fs, frames')
    BY <1>2, <1>3, AlikeFlag
  <1>5. Chained(frames') /\ Hooked(frames', tracing') /\ Len(frames') = Top - 1
    BY <1>2, <1>4, AlikeChained DEF Alike
  <1>6. /\ frames[Top - 1].cut => frames'[Top - 1].cut
        /\ fs[Top - 1].cut => frames'[Top - 1].cut
    <2>1. gs[Top - 1].cut => fs[Top - 1].cut
      BY <1>1, <1>3 DEF Alike
    <2>2. fs[Top - 1].cut => frames'[Top - 1].cut
      BY <1>2, <1>3, <1>4 DEF Alike
    <2> QED
      BY <1>1, <1>3, <2>1, <2>2
  <1>7. cframe' = Top - 1 \/ (frames'[Top - 1].cut /\ cframe' = 0)
    BY <1>6, Previous
  <1>8. depth' = Top - 1
    BY DEF FrameInv, Top
  <1>9. Nests
    <2>1. \A m \in 1..(Top - 1) : frames'[m].kind = frames[m].kind
      BY <1>1, <1>2, <1>4 DEF Alike
    <2> QED
      BY <1>5, <2>1, Previous DEF Nests
  <1> QED
    BY <1>5, <1>7, <1>8, <1>9 DEF FrameInv

LEMMA LeaveInv == ASSUME FrameInv, Leave PROVE FrameInv' /\ Nests
  <1>1. frames[Top].kind = "code"
    <2>1. frames[Top].pc = "left" /\ Linked(frames, Top)
      BY DEF Leave, Running, FrameInv, Chained, Top
    <2> QED
      BY <2>1 DEF Linked, Plain
  <1>2. frames[Top].use_tracing \in BOOLEAN
    BY <1>1, Previous DEF Frame
  <1>3. OthersTypeOK'
    BY DEF FrameInv, OthersTypeOK, Leave, Checked, Exception
  <1>4. Alike(SubSeq(frames, 1, Top - 1), Popped(exc'))
    BY <1>1, PoppedAlike
  <1>5. /\ frames' = WithFlag(Popped(exc'), frames[Top].previous, frames[Top].use_tracing)
        /\ cframe' = frames[Top].previous /\ depth' = depth - 1 /\ tracing' = tracing
    BY DEF Leave
  <1> QED
    BY <1>1, <1>2, <1>3, <1>4, <1>5, PoppedInv

LEMMA NormalisedInv == ASSUME FrameInv, Normalised PROVE FrameInv' /\ Nests
  <1> DEFINE gs == SubSeq(frames, 1, Top - 1)  ps == Popped("none")
             fs == [ps EXCEPT ![Top - 1].cut = @ \/ frames[Top].cut]
  <1>1. /\ frames[Top].kind = "init" /\ tracing' = tracing
        /\ frames' = WithFlag(fs, frames[Top].previous, frames[Top].use_tracing)
        /\ cframe' = IF frames[Top].cut THEN 0 ELSE frames[Top].previous
        /\ depth' = depth - 1
    BY DEF Normalised
  <1>2. /\ Chained(gs) /\ Len(gs) = Top - 1 /\ Hooked(gs, tracing) /\ Alike(gs, ps)
        /\ Top \in Nat /\ Top > 1 /\ frames[Top] \in Frame
    BY <1>1, PoppedAlike, Previous
  <1>3. Chained(ps) /\ Len(ps) = Top - 1
    BY <1>2, AlikeChained DEF Alike
  <1>4. ps[Top - 1] \in Frame /\ ps \in Seq(Frame) /\ Top - 1 \in 1..Len(ps) /\ Linked(ps, Top - 1)
    BY <1>2, <1>3 DEF Chained
  <1> HIDE DEF ps
  <1>5. CASE ~frames[Top].cut
    <2>1. fs = ps
      <3>1. ps[Top - 1].cut \in BOOLEAN /\ frames[Top].cut = FALSE
        BY <1>2, <1>4, <1>5 DEF Frame
      <3>2. [ps[Top - 1] EXCEPT !.cut = @ \/ frames[Top].cut] = ps[Top - 1]
        BY <1>4, <3>1 DEF Frame
      <3> QED
        BY <1>4, <3>2
    <2> HIDE DEF fs
    <2>2. Alike(gs, fs)
      BY <1>2, <2>1
    <2>3. OthersTypeOK' /\ frames[Top].use_tracing \in BOOLEAN
      BY <1>2 DEF FrameInv, OthersTypeOK, Normalised, Frame
    <2> QED
      BY <1>1, <1>5, <2>2, <2>3, PoppedInv
  <1>6. CASE frames[Top].cut
    <2> DEFINE h == [ps[Top - 1] EXCEPT !.cut = TRUE]
    <2>1. h \in Frame /\ h.cut /\ h.kind = ps[Top - 1].kind /\ h.pc = ps[Top - 1].pc
          /\ h.previous = ps[Top - 1].previous
      <3>1. h \in Frame
        BY <1>4, Updates
      <3> QED
        BY <1>4, <3>1 DEF Frame
    <2>2. fs = [ps EXCEPT ![Top - 1] = h]
      BY <1>4, <1>6
    <2> HIDE DEF h, fs
    <2>3. Alike(ps, fs)
      BY <1>3, <1>4, <2>1, <2>2, AlikeTop DEF Linked
    <2>4. Alike(gs, fs) /\ fs[Top - 1].cut
      BY <1>2, <1>4, <2>1, <2>2, <2>3, AlikeTrans
    <2>5. OthersTypeOK' /\ frames[Top].use_tracing \in BOOLEAN
      BY <1>2 DEF FrameInv, OthersTypeOK, Normalised, Frame
    <2> QED
      BY <1>1, <1>6, <2>4, <2>5, PoppedInv
  <1> QED
    BY <1>5, <1>6

LEMMA ThrowInv == ASSUME FrameInv, Throw PROVE FrameInv' /\ Nests
  <1> DEFINE gs == SubSeq(frames, 1, Top - 1)  fs == Popped("error")
  <1>1. /\ frames' = [fs EXCEPT ![Top - 1].cut = TRUE]
        /\ cframe' = 0 /\ depth' = depth - 1 /\ tracing' = tracing
        /\ frames[Top].kind = "code"
    BY DEF Throw
  <1>2. /\ Chained(gs) /\ Len(gs) = Top - 1 /\ Hooked(gs, tracing) /\ Alike(gs, fs)
        /\ Top \in Nat /\ Top > 1
    BY <1>1, PoppedAlike, Previous
  <1>3. Chained(fs) /\ Hooked(fs, tracing) /\ Len(fs) = Top - 1
    BY <1>2, AlikeChained DEF Alike
  <1> HIDE DEF fs
  <1> DEFINE h == [fs[Top - 1] EXCEPT !.cut = TRUE]
  <1>5. fs[Top - 1] \in Frame /\ fs \in Seq(Frame) /\ Top - 1 \in 1..Len(fs) /\ Linked(fs, Top - 1)
    BY <1>2, <1>3 DEF Chained
  <1>6. h \in Frame /\ h.cut /\ h.kind = fs[Top - 1].kind /\ h.previous = fs[Top - 1].previous
        /\ h.pc = fs[Top - 1].pc
    <2>1. h \in Frame
      BY <1>5, Updates
    <2> QED
      BY <1>5, <2>1 DEF Frame
  <1>7. frames' = [fs EXCEPT ![Top - 1] = h]
    BY <1>1, <1>5
  <1> HIDE DEF h
  <1>8. Alike(fs, frames')
    BY <1>3, <1>5, <1>6, <1>7, AlikeTop DEF Linked
  <1>9. Chained(frames') /\ Hooked(frames', tracing') /\ Len(frames') = Top - 1
    BY <1>1, <1>3, <1>8, AlikeChained DEF Alike
  <1>10. frames'[Top - 1].cut
    BY <1>5, <1>6, <1>7
  <1>11. depth' = Top - 1
    BY <1>1 DEF FrameInv, Top
  <1>12. OthersTypeOK'
    BY DEF FrameInv, OthersTypeOK, Throw, Exception
  <1>13. Nests
    <2>1. \A m \in 1..(Top - 1) : gs[m] = frames[m]
      BY <1>1, PoppedAlike
    <2>2. \A m \in 1..(Top - 1) : frames'[m].kind = frames[m].kind
      BY <1>2, <1>3, <1>8, <2>1 DEF Alike
    <2> QED
      BY <1>1, <1>2, <1>9, <2>2, Previous DEF Nests
  <1> QED
    BY <1>1, <1>9, <1>10, <1>11, <1>12, <1>13 DEF FrameInv

\* The trace function is called, or is not, and the caller goes on at fs.
LEMMA TracedInv ==
    ASSUME FrameInv, NEW fs, Alike(frames, fs), protected_trace(fs)
    PROVE  FrameInv' /\ Nests
  <1>1. /\ frames \in Seq(Frame) /\ Len(frames) \in 1..Len(frames) /\ Top = Len(frames)
        /\ Chained(frames) /\ Hooked(frames, tracing) /\ Len(fs) = Top /\ Chained(fs)
        /\ cframe \in 0..Top /\ tracing \in {0, 1} /\ exc \in Exception
    <2>1. Chained(frames) /\ Hooked(frames, tracing) /\ Top = Len(frames) /\ exc \in Exception
      BY DEF FrameInv, Top, OthersTypeOK
    <2>2. frames \in Seq(Frame) /\ Len(frames) \in 1..Len(frames) /\ Len(frames) \in Nat
      BY <2>1 DEF Chained
    <2>3. Chained(fs) /\ Len(fs) = Top
      BY <2>1, AlikeChained DEF Alike
    <2>4. cframe \in 0..Top
      BY <2>1, <2>2 DEF FrameInv
    <2>5. tracing \in {0, 1}
      BY <2>1 DEF Hooked
    <2> QED
      BY <2>1, <2>2, <2>3, <2>4, <2>5
  <1>2. UNCHANGED <<hooks, limit>>
    BY DEF protected_trace
  <1>3. CASE Silent
    <2>1. exc' = "none" /\ frames' = fs /\ UNCHANGED <<cframe, depth, tracefunc, tracing, fatal>>
      BY <1>3 DEF protected_trace
    <2>2. OthersTypeOK'
      BY <1>2, <2>1 DEF FrameInv, OthersTypeOK, Exception
    <2> QED
      BY <2>1, <2>2, AlikeInv
  <1>4. CASE ~Silent /\ depth + 1 > Room(limit) /\ ~Normalising
    <2>1. HookFails(fs) /\ Formatted
      BY <1>4 DEF protected_trace
    <2>6. fatal' \in Nat
      BY <2>1, Depths DEF Formatted, FrameInv, OthersTypeOK
    <2>2. Alike(fs, WithFlag(fs, cframe, FALSE))
      BY <1>1, AlikeFlag
    <2>3. Chained(WithFlag(fs, cframe, FALSE))
      BY <1>1, <2>2, AlikeChained, AlikeTrans
    <2>7. frames' = Unsettled(WithFlag(fs, cframe, FALSE))
      BY <2>1 DEF HookFails
    <2>8. Alike(frames, WithFlag(fs, cframe, FALSE))
      BY <2>2, AlikeTrans
    <2>9. Alike(WithFlag(fs, cframe, FALSE), frames')
      BY <2>3, <2>7, AlikeUnsettled
    <2>4. Alike(frames, frames')
      BY <2>8, <2>9, AlikeTrans
    <2>5. OthersTypeOK'
      BY <1>2, <2>1, <2>6 DEF FrameInv, OthersTypeOK, Exception, HookFails
    <2> QED
      BY <2>1, <2>4, <2>5, AlikeInv DEF HookFails
  <1>6. CASE ~Silent /\ depth + 1 > Room(limit) /\ Normalising
    <2>1. Dies /\ UNCHANGED <<tracefunc, tracing>>
      BY <1>6 DEF protected_trace
    <2>2. OthersTypeOK'
      BY <1>2, <2>1, Depths DEF FrameInv, OthersTypeOK, Dies
    <2> QED
      BY <1>1, <2>1, <2>2, AlikeSelf, AlikeInv DEF Dies
  <1>5. CASE ~Silent /\ ~(depth + 1 > Room(limit))
    <2> DEFINE gs == [fs EXCEPT ![Top].saved = exc]
               hs == WithFlag(gs, cframe, FALSE)
               f == [Base EXCEPT !.kind = "hook", !.previous = cframe]
    <2>1. /\ tracing' = tracing + 1 /\ depth' = depth + 1 /\ cframe' = Top + 1
          /\ exc' = "none" /\ frames' = Append(hs, f) /\ UNCHANGED <<tracefunc, fatal>>
      BY <1>5 DEF protected_trace
    <2>2. tracing = 0
      BY <1>1, <1>5 DEF Silent
    <2>3. Alike(fs, gs)
      <3> DEFINE h == [fs[Top] EXCEPT !.saved = exc]
      <3>1. fs \in Seq(Frame) /\ fs[Top] \in Frame /\ Linked(fs, Top)
        BY <1>1 DEF Chained
      <3>2. h \in Frame
        BY <1>1, <3>1, Updates
      <3>3. h.kind = fs[Top].kind /\ h.previous = fs[Top].previous /\ h.cut = fs[Top].cut
            /\ h.pc = fs[Top].pc
        BY <3>1 DEF Frame
      <3>4. gs = [fs EXCEPT ![Top] = h]
        OBVIOUS
      <3> HIDE DEF h, gs
      <3> QED
        BY <1>1, <3>1, <3>2, <3>3, <3>4, AlikeTop DEF Linked
    <2> HIDE DEF gs
    <2>4. Chained(gs) /\ Hooked(gs, tracing) /\ Len(gs) = Top
      BY <1>1, <2>3, AlikeChained, AlikeTrans DEF Alike
    <2>5. Alike(gs, hs)
      BY <1>1, <2>4, AlikeFlag
    <2> HIDE DEF hs
    <2>6. Chained(hs) /\ Hooked(hs, tracing) /\ Len(hs) = Top
      BY <2>4, <2>5, AlikeChained DEF Alike
    <2>7. cframe = Top \/ (hs[Top].cut /\ cframe = 0)
      <3>1. Alike(frames, hs)
        BY <2>3, <2>5, AlikeTrans
      <3>2. frames[Top].cut => hs[Top].cut
        BY <1>1, <3>1 DEF Alike
      <3> QED
        BY <1>1, <3>2 DEF FrameInv
    <2>8. f \in Frame /\ f.kind = "hook" /\ f.pc = "body" /\ f.previous = cframe
      <3>1. cframe \in Nat
        BY <1>1
      <3> QED
        BY <3>1 DEF Frame, Base, Exception
    <2> HIDE DEF f
    <2>9. Chained(frames') /\ Hooked(frames', 1)
      <3>1. Chained(Append(hs, f)) /\ Hooked(Append(hs, f), IF f.kind = "hook" THEN 1 ELSE tracing)
        BY <2>2, <2>6, <2>7, <2>8, Pushed DEF Plain
      <3> QED
        BY <2>1, <2>8, <3>1
    <2>10. /\ Len(frames') = Top + 1 /\ hs \in Seq(Frame)
           /\ \A n \in 1..Top : frames'[n] = hs[n]
      BY <2>1, <2>6 DEF Chained
    <2>11. OthersTypeOK'
      BY <1>2, <2>1 DEF FrameInv, OthersTypeOK, Exception
    <2>12. Nests
      <3>1. Alike(frames, hs)
        BY <2>3, <2>5, AlikeTrans
      <3>2. \A n \in 1..Top : frames'[n].kind = frames[n].kind
        BY <1>1, <2>10, <3>1 DEF Alike
      <3>3. Room(limit) \in Nat /\ depth = Top /\ depth \in Nat
        BY <1>1, LimitAssumption DEF Room, FrameInv, OthersTypeOK
      <3>4. Len(frames') <= Room(limit)
        BY <1>5, <2>10, <3>3
      <3> QED
        BY <1>1, <2>10, <3>2, <3>4 DEF Nests
    <2> QED
      BY <1>1, <2>1, <2>2, <2>9, <2>10, <2>11, <2>12 DEF FrameInv
  <1> QED
    BY <1>3, <1>4, <1>5, <1>6

LEMMA PassedInv ==
    ASSUME FrameInv, NEW fs, Alike(frames, fs), Passed(fs)
    PROVE  FrameInv' /\ Nests
  <1>1. OthersTypeOK'
    BY DEF FrameInv, OthersTypeOK, Passed
  <1> QED
    BY <1>1, AlikeInv DEF Passed

\* The innermost frame at a hook.
LEMMA ToldAlike ==
    ASSUME FrameInv, NEW call \in BOOLEAN, NEW pc \in Plain \cup {"left"},
           frames[Top].kind = "code"
    PROVE  Alike(frames, [Told(call) EXCEPT ![Top].pc = pc])
  <1> DEFINE r == IF Reports /\ tracing = 0 THEN call ELSE frames[Top].reported
             e == [frames[Top] EXCEPT !.reported = r]
             f == [e EXCEPT !.pc = pc]
  <1>1. /\ frames \in Seq(Frame) /\ Top \in 1..Len(frames) /\ Top = Len(frames)
        /\ frames[Top] \in Frame /\ Chained(frames)
    BY DEF FrameInv, Chained, Top
  <1>2. r \in BOOLEAN
    BY <1>1 DEF Frame
  <1>3. e \in Frame
    BY <1>1, <1>2, Updates
  <1> HIDE DEF e
  <1>4. f \in Frame
    BY <1>3, Updates
  <1> HIDE DEF f
  <1>5. f.kind = "code" /\ f.previous = frames[Top].previous /\ f.cut = frames[Top].cut
    BY <1>1, <1>3 DEF e, f, Frame
  <1>6. [Told(call) EXCEPT ![Top].pc = pc] = [frames EXCEPT ![Top] = f]
    BY <1>1 DEF Told, e, f
  <1>7. Alike(frames, [frames EXCEPT ![Top] = f])
    BY <1>1, <1>4, <1>5, AlikeTop
  <1> QED
    BY <1>6, <1>7

\* Hooks at the entry and at the exit are those of compiled code.
LEMMA AtHook ==
    ASSUME FrameInv, Running({"entry", "exit", "left"})
    PROVE  frames[Top].kind = "code"
  <1>1. Linked(frames, Top) /\ frames[Top].pc \notin Plain
    BY DEF FrameInv, Chained, Top, Running, Plain
  <1> QED
    BY <1>1 DEF Linked

LEMMA EntryInv == ASSUME FrameInv, TraceFrameEntry PROVE FrameInv' /\ Nests
  <1> DEFINE fs == [Told(TRUE) EXCEPT ![Top].pc = "body"]
  <1>1. frames[Top].kind = "code"
    BY AtHook DEF TraceFrameEntry, Running
  <1>2. Alike(frames, fs)
    BY <1>1, ToldAlike DEF Plain
  <1>3. protected_trace(fs) \/ Passed(fs)
    BY DEF TraceFrameEntry
  <1> HIDE DEF fs
  <1> QED
    BY <1>2, <1>3, TracedInv, PassedInv

LEMMA ExitHookInv == ASSUME FrameInv, TraceFrameExit PROVE FrameInv' /\ Nests
  <1> DEFINE fs == [Told(FALSE) EXCEPT ![Top].pc = "left"]
  <1>1. frames[Top].kind = "code"
    BY AtHook DEF TraceFrameExit, Running
  <1>2. Alike(frames, fs)
    BY <1>1, ToldAlike
  <1>3. protected_trace(fs) \/ Passed(fs)
    BY DEF TraceFrameExit
  <1> HIDE DEF fs
  <1> QED
    BY <1>2, <1>3, TracedInv, PassedInv

LEMMA ExceptionInv == ASSUME FrameInv, TraceFrameException PROVE FrameInv' /\ Nests
  <1> DEFINE fs == [frames EXCEPT ![Top].pc = "raised"]
  <1>1. Alike(frames, fs)
    BY AlikeAt DEF FrameInv, Top, Plain
  <1>2. protected_trace(fs) \/ Passed(fs)
        \/ (Overflows /\ UNCHANGED <<hooks, limit, tracefunc, tracing>>)
    BY DEF TraceFrameException
  <1> HIDE DEF fs
  <1>3. CASE Overflows /\ UNCHANGED <<hooks, limit, tracefunc, tracing>>
    <2>1. OthersTypeOK'
      BY <1>3, Depths DEF FrameInv, OthersTypeOK, Overflows, Dies
    <2> QED
      BY <1>3, <2>1, AlikeSelf, AlikeInv DEF Overflows, Dies, FrameInv
  <1> QED
    BY <1>1, <1>2, <1>3, TracedInv, PassedInv

LEMMA LineInv == ASSUME FrameInv, TraceLine PROVE FrameInv' /\ Nests
  <1>1. Alike(frames, frames)
    BY AlikeSelf DEF FrameInv
  <1>2. protected_trace(frames)
    BY DEF TraceLine
  <1> QED
    BY <1>1, <1>2, TracedInv

LEMMA HookEndsInv ==
    ASSUME FrameInv, NEW fails \in BOOLEAN, HookEnds(fails) PROVE FrameInv' /\ Nests
  <1> DEFINE rest == SubSeq(frames, 1, Top - 1)
             e == [rest[Top - 1] EXCEPT !.saved = "none"]
             caller == [rest EXCEPT ![Top - 1] = e]
             fs == IF fails THEN Unsettled(caller) ELSE caller
             on == tracefunc /\ ~fails
  <1>1. /\ frames' = WithFlag(fs, frames[Top].previous, on) /\ cframe' = frames[Top].previous
        /\ exc' = IF fails THEN exc ELSE Restored(frames[Top - 1])
        /\ tracefunc' = on /\ tracing' = tracing - 1 /\ depth' = depth - 1
        /\ frames[Top].kind = "hook" /\ UNCHANGED <<hooks, limit, fatal>>
    BY DEF HookEnds
  <1>2. Chained(rest) /\ Len(rest) = Top - 1 /\ Top \in Nat /\ Top > 1
    BY <1>1, PoppedAlike, Previous
  <1>3. Alike(rest, fs)
    <2>1. rest \in Seq(Frame) /\ Top - 1 \in 1..Len(rest) /\ rest[Top - 1] \in Frame
      BY <1>2 DEF Chained
    <2> HIDE DEF rest
    <2>2. e \in Frame
      BY <2>1, Updates DEF Exception
    <2>3. /\ e.kind = rest[Top - 1].kind /\ e.previous = rest[Top - 1].previous
          /\ e.cut = rest[Top - 1].cut /\ e.pc = rest[Top - 1].pc
      BY <2>1 DEF Frame
    <2> HIDE DEF e
    <2>4. Linked(rest, Len(rest))
      BY <1>2, <2>1 DEF Chained
    <2>5. Alike(rest, caller)
      BY <1>2, <2>1, <2>2, <2>3, <2>4, AlikeTop DEF Linked
    <2>6. Chained(caller)
      BY <1>1, <1>2, <2>5, AlikeChained, PoppedAlike DEF rest
    <2> HIDE DEF caller
    <2>7. Alike(caller, Unsettled(caller))
      BY <2>6, AlikeUnsettled
    <2> QED
      BY <2>5, <2>7, AlikeTrans
  <1>4. tracing = 1
    <2>1. Top \in 1..Len(frames)
      BY <1>2 DEF Top
    <2> QED
      BY <1>1, <2>1 DEF FrameInv, Hooked
  <1>5. frames[Top - 1].saved \in Exception
    <2>1. frames \in Seq(Frame) /\ Top - 1 \in 1..Len(frames)
      BY <1>2 DEF FrameInv, Chained, Top
    <2>2. frames[Top - 1] \in Frame
      BY <2>1
    <2> QED
      BY <2>2 DEF Frame
  <1>6. on \in BOOLEAN
    BY DEF FrameInv, OthersTypeOK
  <1>7. OthersTypeOK'
    BY <1>1, <1>5, <1>6 DEF FrameInv, OthersTypeOK, Restored
  <1> HIDE DEF e, caller, fs, on
  <1>8. frames[Top].kind # "base" /\ tracing' = IF frames[Top].kind = "hook" THEN 0 ELSE tracing
    BY <1>1, <1>4
  <1> QED
    BY <1>1, <1>3, <1>6, <1>7, <1>8, PoppedInv

LEMMA SetTraceInv ==
    ASSUME FrameInv, NEW on \in BOOLEAN, SetTrace(on) PROVE FrameInv' /\ Nests
  <1>1. Chained(frames) /\ Len(frames) \in Nat /\ cframe \in 0..Len(frames)
    BY DEF FrameInv, Chained
  <1>2. Alike(frames, WithFlag(frames, cframe, on))
    BY <1>1, AlikeFlag
  <1>3. Chained(WithFlag(frames, cframe, on))
    BY <1>1, <1>2, AlikeChained DEF FrameInv
  <1>4. Alike(frames, frames')
    BY <1>2, <1>3, AlikeUnsettled, AlikeTrans DEF SetTrace
  <1>5. OthersTypeOK'
    BY DEF FrameInv, OthersTypeOK, SetTrace
  <1> QED
    BY <1>4, <1>5, AlikeInv DEF SetTrace

-----------------------------------------------------------------------------
(* What the steps do to frames, field by field *)

\* All of a frame but the flag and whether the trace function was told.
Untouched(f, g) ==
    /\ g.kind = f.kind /\ g.traced = f.traced /\ g.previous = f.previous /\ g.pc = f.pc
    /\ g.result = f.result /\ g.saved = f.saved /\ g.cut = f.cut

LEMMA UntouchedTrans ==
    ASSUME NEW f, NEW g, NEW h, Untouched(f, g), Untouched(g, h) PROVE Untouched(f, h)
  BY DEF Untouched

LEMMA FlagEffect ==
    ASSUME NEW fs \in Seq(Frame), NEW n \in 0..Len(fs), NEW use \in BOOLEAN
    PROVE  /\ WithFlag(fs, n, use) \in Seq(Frame) /\ Len(WithFlag(fs, n, use)) = Len(fs)
           /\ \A m \in 1..Len(fs) :
                  /\ Untouched(fs[m], WithFlag(fs, n, use)[m])
                  /\ WithFlag(fs, n, use)[m].reported = fs[m].reported
                  /\ WithFlag(fs, n, use)[m].use_tracing
                         = IF m = n THEN use ELSE fs[m].use_tracing
  <1> DEFINE gs == WithFlag(fs, n, use)
  <1>1. CASE n = 0
    BY <1>1 DEF WithFlag, Untouched
  <1>2. CASE n # 0
    <2>1. fs[n] \in Frame /\ n \in 1..Len(fs)
      BY <1>2
    <2>2. [fs[n] EXCEPT !.use_tracing = use] \in Frame
      BY <2>1, Updates
    <2>3. gs = [fs EXCEPT ![n] = [fs[n] EXCEPT !.use_tracing = use]]
      BY <1>2, <2>1 DEF WithFlag
    <2>4. gs \in Seq(Frame) /\ Len(gs) = Len(fs)
      BY <2>1, <2>2, <2>3
    <2>5. ASSUME NEW m \in 1..Len(fs), m # n PROVE gs[m] = fs[m]
      BY <2>1, <2>3, <2>5
    <2>6. gs[n] = [fs[n] EXCEPT !.use_tracing = use]
      BY <2>1, <2>3
    <2>7. Untouched(fs[n], gs[n]) /\ gs[n].reported = fs[n].reported /\ gs[n].use_tracing = use
      BY <2>1, <2>6 DEF Frame, Untouched
    <2> HIDE DEF gs
    <2> QED
      BY <2>4, <2>5, <2>7 DEF Untouched, gs
  <1> QED
    BY <1>1, <1>2

\* WithFlag changes one flag, of frame n if there is one.
Flagged(fs, gs, n, use) ==
    /\ Len(gs) = Len(fs)
    /\ \A m \in 1..Len(fs) :
           /\ Untouched(fs[m], gs[m]) /\ gs[m].reported = fs[m].reported
           /\ gs[m].use_tracing = IF m = n THEN use ELSE fs[m].use_tracing

LEMMA FlaggedByFlag ==
    ASSUME NEW fs \in Seq(Frame), NEW n \in 0..Len(fs), NEW use \in BOOLEAN
    PROVE  Flagged(fs, WithFlag(fs, n, use), n, use)
  BY FlagEffect DEF Flagged

LEMMA UnsettledEffect ==
    ASSUME NEW fs \in Seq(Frame)
    PROVE  /\ Unsettled(fs) \in Seq(Frame) /\ Len(Unsettled(fs)) = Len(fs)
           /\ \A m \in 1..Len(fs) :
                  /\ Untouched(fs[m], Unsettled(fs)[m])
                  /\ Unsettled(fs)[m].reported = FALSE
                  /\ Unsettled(fs)[m].use_tracing = fs[m].use_tracing
  <1>1. DOMAIN fs = 1..Len(fs) /\ Len(fs) \in Nat
    OBVIOUS
  <1>2. ASSUME NEW m \in 1..Len(fs)
        PROVE  /\ [fs[m] EXCEPT !.reported = FALSE] \in Frame
               /\ Untouched(fs[m], [fs[m] EXCEPT !.reported = FALSE])
               /\ [fs[m] EXCEPT !.reported = FALSE].reported = FALSE
               /\ [fs[m] EXCEPT !.reported = FALSE].use_tracing = fs[m].use_tracing
    <2>1. fs[m] \in Frame
      OBVIOUS
    <2>2. [fs[m] EXCEPT !.reported = FALSE] \in Frame
      BY <2>1, Updates
    <2> QED
      BY <2>1, <2>2 DEF Frame, Untouched
  <1>3. Unsettled(fs) \in Seq(Frame) /\ Len(Unsettled(fs)) = Len(fs)
    <2>1. \A m \in 1..Len(fs) : [fs[m] EXCEPT !.reported = FALSE] \in Frame
      BY <1>2
    <2> QED
      BY <1>1, <2>1 DEF Unsettled
  <1>4. \A m \in 1..Len(fs) : Unsettled(fs)[m] = [fs[m] EXCEPT !.reported = FALSE]
    BY <1>1 DEF Unsettled
  <1> QED
    BY <1>2, <1>3, <1>4

\* Another place of the innermost frame.
LEMMA PlaceEffect ==
    ASSUME NEW fs \in Seq(Frame), NEW n \in 1..Len(fs), NEW pc \in Plain \cup {"exit", "left"}
    PROVE  /\ [fs EXCEPT ![n].pc = pc] \in Seq(Frame) /\ Len([fs EXCEPT ![n].pc = pc]) = Len(fs)
           /\ \A m \in 1..Len(fs) : m # n => [fs EXCEPT ![n].pc = pc][m] = fs[m]
           /\ [fs EXCEPT ![n].pc = pc][n] = [fs[n] EXCEPT !.pc = pc]
           /\ [fs[n] EXCEPT !.pc = pc] \in Frame
  <1>1. fs[n] \in Frame
    OBVIOUS
  <1>2. [fs[n] EXCEPT !.pc = pc] \in Frame
    BY <1>1, Updates
  <1> QED
    BY <1>1, <1>2

-----------------------------------------------------------------------------
(* Errors, events and the depth: the invariants *)

FailingAt(f) ==
    \/ f.pc \in {"failed", "raised"}
    \/ f.pc \in {"exit", "left"} /\ f.result = "null"

\* e is the exception of a frame, unless one of the exemptions applies.
KeepsError(f, e) ==
    /\ ~spoilt /\ FailingAt(f) => e # "none"
    /\ ~hookFailed /\ ~FailingAt(f) => e = "none"

\* While a trace function runs its caller's exception is the one that was fetched.
PendingInv ==
    /\ KeepsError(frames[Len(frames)], exc)
    /\ \A n \in 1..(Len(frames) - 1) :
           frames[n + 1].kind = "hook" => KeepsError(frames[n], frames[n].saved)

\* Inside of a trace function nothing is traced, and the chain is not cut.
QuietInv ==
    ~spoilt => \A h, m \in 1..Len(frames) :
                   frames[h].kind = "hook" /\ h <= m => ~frames[m].use_tracing /\ ~frames[m].cut

\* The flag is set, or will be when the trace function returns.
On(fs, n) ==
    \/ fs[n].use_tracing
    \/ n < Len(fs) /\ fs[n + 1].kind = "hook" /\ fs[n + 1].previous = n

\* The frames between were called one from the other, in the chain.
Nested(fs, b, n) == \A m \in (b + 1)..n : fs[m].kind # "hook" /\ fs[m].previous = m - 1

\* The frames of a call that was reported, and of what it calls outside of the
\* trace function, are traced.
Evented(fs) ==
    /\ \A b, n \in 1..Len(fs) : b <= n /\ fs[b].reported /\ Nested(fs, b, n) => On(fs, n)
    /\ \A n \in 1..Len(fs) :
           /\ fs[n].reported => tracefunc /\ fs[n].traced /\ fs[n].pc # "left"
           /\ fs[n].pc = "entry" => ~fs[n].reported
    /\ \A h, n \in 1..Len(fs) : fs[h].kind = "hook" /\ h <= n => ~fs[n].reported

EventInv == Evented(frames)

\* One of the two limits bounds the calls that are no part of a normalisation, and
\* the call that ends the process exceeds one by more than the headroom.
DepthInv ==
    /\ \A n \in 1..Len(frames) : Ordinary(n) => n <= limit \/ n <= JitLimit
    /\ fatal > 0 => fatal > limit + Headroom \/ fatal > JitLimit + Headroom

-----------------------------------------------------------------------------
(* Errors, events and the depth: lemmas *)

LEMMA Lengths ==
    ASSUME FrameInv
    PROVE  /\ frames \in Seq(Frame) /\ Len(frames) \in Nat /\ Len(frames) \in 1..Len(frames)
           /\ Top = Len(frames) /\ frames[Len(frames)] \in Frame
           /\ cframe \in 0..Len(frames) /\ exc \in Exception
  <1>1. frames \in Seq(Frame) /\ Len(frames) \in Nat /\ Len(frames) \in 1..Len(frames)
    BY DEF FrameInv, Chained
  <1> QED
    BY <1>1 DEF FrameInv, OthersTypeOK, Top

\* The innermost frame moves on, or the others keep the errors that were fetched.
LEMMA PendingStays ==
    ASSUME FrameInv, PendingInv, Len(frames') \in Nat, Len(frames') > 0,
           Len(frames') <= Len(frames),
           \A n \in 1..Len(frames') : frames'[n].kind = frames[n].kind,
           \A n \in 1..(Len(frames') - 1) :
               /\ frames'[n].pc = frames[n].pc /\ frames'[n].result = frames[n].result
               /\ frames'[n].saved = frames[n].saved,
           spoilt => spoilt', hookFailed => hookFailed',
           KeepsError(frames[Len(frames)], exc)'
    PROVE  PendingInv'
  <1>1. ASSUME NEW n \in 1..(Len(frames') - 1), frames'[n + 1].kind = "hook"
        PROVE  KeepsError(frames[n], frames[n].saved)'
    <2>1. n \in 1..(Len(frames) - 1) /\ n + 1 \in 1..Len(frames')
      BY Lengths
    <2>2. KeepsError(frames[n], frames[n].saved)
      BY <1>1, <2>1 DEF PendingInv
    <2> QED
      BY <2>2 DEF KeepsError, FailingAt
  <1> QED
    BY <1>1 DEF PendingInv

LEMMA QuietStays ==
    ASSUME QuietInv, Len(frames') \in Nat, Len(frames) \in Nat, Len(frames') <= Len(frames),
           \A n \in 1..Len(frames') :
               /\ frames'[n].kind = frames[n].kind
               /\ frames'[n].use_tracing => frames[n].use_tracing
               /\ frames'[n].cut => frames[n].cut,
           spoilt => spoilt'
    PROVE  QuietInv'
  <1> SUFFICES ASSUME ~spoilt', NEW h \in 1..Len(frames'), NEW m \in 1..Len(frames'),
                      frames'[h].kind = "hook", h <= m
               PROVE  ~frames'[m].use_tracing /\ ~frames'[m].cut
    BY DEF QuietInv
  <1>1. h \in 1..Len(frames) /\ m \in 1..Len(frames)
    OBVIOUS
  <1>2. frames[h].kind = "hook"
    OBVIOUS
  <1>3. ~frames[m].use_tracing /\ ~frames[m].cut
    BY <1>1, <1>2 DEF QuietInv
  <1> QED
    BY <1>3

\* Outside of a trace function there is nothing to show.
LEMMA QuietOutside ==
    ASSUME FrameInv', tracing' = 0 PROVE QuietInv'
  BY DEF FrameInv, Hooked, QuietInv

LEMMA QuietSame ==
    ASSUME QuietInv, FrameInv, Len(frames') = Len(frames),
           \A n \in 1..Len(frames) :
               /\ frames'[n].kind = frames[n].kind
               /\ frames'[n].use_tracing = frames[n].use_tracing
               /\ frames'[n].cut = frames[n].cut,
           spoilt => spoilt'
    PROVE  QuietInv'
  BY QuietStays, Lengths

\* The innermost frame is changed, to fs.
LEMMA EventTop ==
    ASSUME FrameInv, EventInv, NEW fs, Len(fs) = Len(frames),
           \A n \in 1..(Len(frames) - 1) : fs[n] = frames[n],
           NEW f, NEW g, f = frames[Len(frames)], g = fs[Len(frames)],
           g.kind = f.kind, g.previous = f.previous, g.use_tracing = f.use_tracing,
           g.reported => tracefunc /\ g.traced /\ g.use_tracing /\ g.pc # "left",
           g.pc = "entry" => ~g.reported,
           g.reported = f.reported \/ tracing = 0
    PROVE  Evented(fs)
  <1> DEFINE L == Len(frames)
  <1>1. L \in Nat /\ L \in 1..L /\ \A n \in 1..L : n # L => n \in 1..(L - 1)
    BY Lengths
  <1>2. \A n \in 1..L : fs[n].kind = frames[n].kind /\ fs[n].previous = frames[n].previous
                        /\ fs[n].use_tracing = frames[n].use_tracing
    BY <1>1
  <1>3. ASSUME NEW b \in 1..L, NEW n \in 1..L, b <= n, fs[b].reported, Nested(fs, b, n)
        PROVE  On(fs, n)
    <2>1. CASE b = L
      BY <1>1, <1>3, <2>1 DEF On
    <2>2. CASE b # L
      <3>1. frames[b].reported
        BY <1>1, <1>3, <2>2
      <3>2. \A m \in (b + 1)..n : m \in 1..L
        BY <1>1
      <3>3. Nested(frames, b, n)
        BY <1>2, <1>3, <3>2 DEF Nested
      <3>4. On(frames, n)
        BY <1>3, <3>1, <3>3 DEF EventInv, Evented
      <3>5. n < L => n + 1 \in 1..L
        BY <1>1
      <3> QED
        BY <1>2, <3>4, <3>5 DEF On
    <2> QED
      BY <2>1, <2>2
  <1>4. ASSUME NEW n \in 1..L
        PROVE  /\ fs[n].reported => tracefunc /\ fs[n].traced /\ fs[n].pc # "left"
               /\ fs[n].pc = "entry" => ~fs[n].reported
    BY <1>1 DEF EventInv, Evented
  <1>5. ASSUME NEW h \in 1..L, NEW n \in 1..L, fs[h].kind = "hook", h <= n
        PROVE  ~fs[n].reported
    <2>1. frames[h].kind = "hook"
      BY <1>2, <1>5
    <2>2. tracing # 0
      BY <2>1 DEF FrameInv, Hooked
    <2>3. ~frames[n].reported
      BY <1>5, <2>1 DEF EventInv, Evented
    <2> QED
      BY <1>1, <2>2, <2>3
  <1> QED
    BY <1>3, <1>4, <1>5 DEF Evented

\* Tracing is switched: no call waits for its end any more.
LEMMA EventUnsettled ==
    ASSUME \A n \in 1..Len(frames') : ~frames'[n].reported PROVE EventInv'
  BY DEF EventInv, Evented

\* Another frame is called.
LEMMA PendingPushed ==
    ASSUME FrameInv, PendingInv, Len(frames') = Len(frames) + 1,
           \A n \in 1..Len(frames) : frames'[n].kind = frames[n].kind,
           \A n \in 1..(Len(frames) - 1) :
               /\ frames'[n].pc = frames[n].pc /\ frames'[n].result = frames[n].result
               /\ frames'[n].saved = frames[n].saved,
           spoilt' = spoilt, hookFailed' = hookFailed,
           NEW f, f = frames'[Len(frames) + 1], KeepsError(f, exc)',
           NEW g, g = frames'[Len(frames)],
           f.kind = "hook" => KeepsError(g, g.saved)'
    PROVE  PendingInv'
  <1>1. ASSUME NEW n \in 1..Len(frames), frames'[n + 1].kind = "hook"
        PROVE  KeepsError(frames[n], frames[n].saved)'
    <2>1. CASE n = Len(frames)
      BY <1>1, <2>1
    <2>2. CASE n # Len(frames)
      <3>1. n \in 1..(Len(frames) - 1) /\ n + 1 \in 1..Len(frames)
        BY <2>2, Lengths
      <3>2. KeepsError(frames[n], frames[n].saved)
        BY <1>1, <3>1 DEF PendingInv
      <3> QED
        BY <3>1, <3>2 DEF KeepsError, FailingAt
    <2> QED
      BY <2>1, <2>2
  <1>2. Len(frames') - 1 = Len(frames)
    BY Lengths
  <1>3. KeepsError(frames[Len(frames)], exc)'
    OBVIOUS
  <1> QED
    BY <1>1, <1>2, <1>3 DEF PendingInv

LEMMA QuietPushed ==
    ASSUME FrameInv, QuietInv, Len(frames') = Len(frames) + 1,
           \A n \in 1..Len(frames) :
               /\ frames'[n].kind = frames[n].kind
               /\ frames'[n].use_tracing => frames[n].use_tracing
               /\ frames'[n].cut => frames[n].cut,
           spoilt' = spoilt,
           NEW f, f = frames'[Len(frames) + 1],
           \/ f.kind # "hook" /\ (~spoilt /\ tracing = 1 => ~f.use_tracing /\ ~f.cut)
           \/ f.kind = "hook" /\ tracing = 0 /\ ~f.use_tracing /\ ~f.cut
    PROVE  QuietInv'
  <1> SUFFICES ASSUME ~spoilt, NEW h \in 1..(Len(frames) + 1), NEW m \in 1..(Len(frames) + 1),
                      frames'[h].kind = "hook", h <= m
               PROVE  ~frames'[m].use_tracing /\ ~frames'[m].cut
    BY DEF QuietInv
  <1>1. Len(frames) \in Nat
    BY Lengths
  <1>2. CASE h = Len(frames) + 1
    BY <1>1, <1>2
  <1>3. CASE h \in 1..Len(frames)
    <2>1. frames[h].kind = "hook" /\ tracing = 1
      BY <1>3 DEF FrameInv, Hooked
    <2>2. CASE m = Len(frames) + 1
      BY <2>1, <2>2
    <2>3. CASE m \in 1..Len(frames)
      <3>1. ~frames[m].use_tracing /\ ~frames[m].cut
        BY <1>3, <2>1, <2>3 DEF QuietInv
      <3> QED
        BY <2>3, <3>1
    <2> QED
      BY <1>1, <2>2, <2>3
  <1> QED
    BY <1>1, <1>2, <1>3

\* A frame is called from the innermost one, whose flag the trace function takes.
LEMMA EventPushed ==
    ASSUME FrameInv, NEW fs, Evented(fs), Len(fs) = Len(frames),
           Len(frames') = Len(frames) + 1, tracefunc' = tracefunc,
           \A n \in 1..Len(frames) : fs[n].kind = frames[n].kind,
           \A n \in 1..Len(frames) :
               /\ frames'[n].kind = fs[n].kind /\ frames'[n].previous = fs[n].previous
               /\ frames'[n].traced = fs[n].traced /\ frames'[n].pc = fs[n].pc
               /\ frames'[n].reported = fs[n].reported,
           \A n \in 1..(Len(frames) - 1) : frames'[n].use_tracing = fs[n].use_tracing,
           NEW f, f = frames'[Len(frames) + 1], ~f.reported,
           NEW g, g = frames'[Len(frames)],
           \/ /\ f.kind # "hook" /\ g.use_tracing = fs[Len(frames)].use_tracing
              /\ f.previous = Len(frames) => f.use_tracing = g.use_tracing
           \/ /\ f.kind = "hook" /\ tracing = 0
              /\ f.previous = Len(frames) \/ g.use_tracing = fs[Len(frames)].use_tracing
    PROVE  EventInv'
  <1> DEFINE L == Len(frames)
  <1>1. L \in Nat /\ L \in 1..L /\ \A n \in 1..(L + 1) : n # L + 1 => n \in 1..L
    BY Lengths
  <1>2. \A n \in 1..L : n # L => n \in 1..(L - 1) /\ n + 1 \in 1..L
    BY <1>1
  <1>3. ASSUME NEW b \in 1..(L + 1), NEW n \in 1..(L + 1), b <= n, frames'[b].reported,
               Nested(frames', b, n)
        PROVE  On(frames', n)
    <2>1. b # L + 1
      BY <1>3
    <2>2. b \in 1..L /\ fs[b].reported
      BY <1>1, <1>3, <2>1
    <2>3. ASSUME NEW m \in 1..L, b <= m, m <= n PROVE On(fs, m)
      <3>1. \A j \in (b + 1)..m : j \in (b + 1)..n /\ j \in 1..L
        BY <1>1, <2>2, <2>3
      <3>2. Nested(fs, b, m)
        BY <1>3, <3>1 DEF Nested
      <3> QED
        BY <2>2, <2>3, <3>2 DEF Evented
    <2>4. CASE n \in 1..(L - 1)
      <3>1. On(fs, n) /\ n \in 1..L /\ n + 1 \in 1..L
        BY <1>1, <1>3, <2>3, <2>4
      <3> QED
        BY <1>1, <2>4, <3>1 DEF On
    <2>5. fs[L].use_tracing \/ n < L
      <3>1. n >= L => On(fs, L)
        BY <1>1, <2>2, <2>3
      <3> QED
        BY <1>1, <3>1 DEF On
    <2>6. CASE n = L
      BY <1>1, <2>5, <2>6 DEF On
    <2>7. CASE n = L + 1
      <3>1. f.kind # "hook" /\ f.previous = L
        BY <1>1, <1>3, <2>2, <2>7 DEF Nested
      <3> QED
        BY <1>1, <2>5, <2>7, <3>1 DEF On
    <2> QED
      BY <1>1, <2>4, <2>6, <2>7
  <1>4. ASSUME NEW n \in 1..(L + 1)
        PROVE  /\ frames'[n].reported => tracefunc' /\ frames'[n].traced /\ frames'[n].pc # "left"
               /\ frames'[n].pc = "entry" => ~frames'[n].reported
    <2>1. CASE n = L + 1
      BY <2>1
    <2>2. CASE n \in 1..L
      BY <2>2 DEF Evented
    <2> QED
      BY <1>1, <2>1, <2>2
  <1>5. ASSUME NEW h \in 1..(L + 1), NEW n \in 1..(L + 1), frames'[h].kind = "hook", h <= n
        PROVE  ~frames'[n].reported
    <2>1. CASE n = L + 1
      BY <2>1
    <2>2. CASE n \in 1..L
      <3>1. h \in 1..L /\ fs[h].kind = "hook"
        BY <1>1, <1>5, <2>2
      <3> QED
        BY <1>5, <2>2, <3>1 DEF Evented
    <2> QED
      BY <1>1, <2>1, <2>2
  <1> QED
    BY <1>3, <1>4, <1>5 DEF EventInv, Evented

\* The innermost frame is left.
LEMMA EventPopped ==
    ASSUME FrameInv, EventInv, Len(frames) > 1, Len(frames') = Len(frames) - 1,
           tracefunc' = tracefunc,
           \A n \in 1..(Len(frames) - 1) :
               /\ frames'[n].kind = frames[n].kind /\ frames'[n].previous = frames[n].previous
               /\ frames'[n].traced = frames[n].traced
               /\ frames'[n].reported = frames[n].reported
               /\ frames'[n].pc = frames[n].pc \/ frames'[n].pc \in {"body", "failed"},
           \A n \in 1..(Len(frames) - 2) : frames'[n].use_tracing = frames[n].use_tracing,
           NEW f, f = frames[Len(frames)], NEW g, g = frames'[Len(frames) - 1],
           \/ /\ f.kind # "hook"
              /\ \/ f.previous = Len(frames) - 1 /\ g.use_tracing = f.use_tracing
                 \/ g.use_tracing = frames[Len(frames) - 1].use_tracing
           \/ /\ f.kind = "hook"
              /\ IF f.previous = Len(frames) - 1 THEN g.use_tracing = tracefunc
                 ELSE g.use_tracing = frames[Len(frames) - 1].use_tracing
    PROVE  EventInv'
  <1> DEFINE L == Len(frames)
  <1>1. /\ L \in Nat /\ L \in 1..L /\ L - 1 \in 1..L /\ \A n \in 1..(L - 1) : n \in 1..L
        /\ \A n \in 1..(L - 1) : n # L - 1 => n \in 1..(L - 2) /\ n + 1 \in 1..(L - 1)
    BY Lengths
  <1>2. ASSUME NEW b \in 1..(L - 1), NEW n \in 1..(L - 1), b <= n, frames'[b].reported,
               Nested(frames', b, n)
        PROVE  On(frames', n)
    <2>1. b \in 1..L /\ n \in 1..L /\ frames[b].reported
      BY <1>1, <1>2
    <2>2. \A j \in (b + 1)..n : j \in 1..(L - 1)
      BY <1>1
    <2>3. Nested(frames, b, n)
      BY <1>2, <2>2 DEF Nested
    <2>4. On(frames, n) /\ tracefunc
      BY <1>2, <2>1, <2>3 DEF EventInv, Evented
    <2>5. CASE n # L - 1
      <3>1. n \in 1..(L - 2) /\ n + 1 \in 1..(L - 1) /\ n < L - 1
        BY <1>1, <2>5
      <3>2. frames'[n].use_tracing = frames[n].use_tracing
        BY <3>1
      <3>3. frames'[n + 1].kind = frames[n + 1].kind
            /\ frames'[n + 1].previous = frames[n + 1].previous
        BY <3>1
      <3> QED
        BY <2>4, <3>1, <3>2, <3>3 DEF On
    <2>6. CASE n = L - 1
      <3>1. f.kind # "hook" => frames[L - 1].use_tracing
        BY <1>1, <2>4, <2>6 DEF On
      <3>2. ASSUME f.kind # "hook", f.previous = L - 1 PROVE f.use_tracing
        <4>1. (b + 1)..L = ((b + 1)..n) \cup {L}
          BY <1>1, <1>2, <2>6
        <4>2. Nested(frames, b, L)
          BY <2>3, <3>2, <4>1 DEF Nested
        <4>3. On(frames, L)
          BY <1>1, <2>1, <4>2 DEF EventInv, Evented
        <4> QED
          BY <1>1, <4>3 DEF On
      <3>3. f.kind = "hook" /\ f.previous # L - 1 => frames[L - 1].use_tracing
        BY <1>1, <2>4, <2>6 DEF On
      <3> QED
        BY <2>4, <2>6, <3>1, <3>2, <3>3 DEF On
    <2> QED
      BY <2>5, <2>6
  <1>3. ASSUME NEW n \in 1..(L - 1)
        PROVE  /\ frames'[n].reported => tracefunc' /\ frames'[n].traced /\ frames'[n].pc # "left"
               /\ frames'[n].pc = "entry" => ~frames'[n].reported
    <2>1. n \in 1..L
      BY <1>1
    <2>2. /\ frames[n].reported => tracefunc /\ frames[n].traced /\ frames[n].pc # "left"
          /\ frames[n].pc = "entry" => ~frames[n].reported
      BY <2>1 DEF EventInv, Evented
    <2>3. frames'[n].reported => frames[n].reported
      OBVIOUS
    <2> QED
      BY <2>2, <2>3
  <1>4. ASSUME NEW h \in 1..(L - 1), NEW n \in 1..(L - 1), frames'[h].kind = "hook", h <= n
        PROVE  ~frames'[n].reported
    <2>1. h \in 1..L /\ n \in 1..L /\ frames[h].kind = "hook"
      BY <1>1, <1>4
    <2>2. ~frames[n].reported
      BY <1>4, <2>1 DEF EventInv, Evented
    <2> QED
      BY <2>2
  <1> QED
    BY <1>2, <1>3, <1>4 DEF EventInv, Evented

-----------------------------------------------------------------------------
(* Errors, events and the depth: steps *)

ErrorInv == PendingInv /\ QuietInv /\ EventInv

\* The innermost frame goes on at another place.
LEMMA TopMoves ==
    ASSUME FrameInv, ErrorInv, NEW f, f = frames[Len(frames)],
           NEW g, Len(frames') = Len(frames), frames'[Len(frames)] = g,
           \A n \in 1..(Len(frames) - 1) : frames'[n] = frames[n],
           g.kind = f.kind, g.traced = f.traced, g.previous = f.previous, g.cut = f.cut,
           g.use_tracing = f.use_tracing, g.reported = f.reported,
           g.pc \notin {"entry", "left"},
           ~spoilt /\ FailingAt(g) => exc' # "none",
           ~hookFailed /\ ~FailingAt(g) => exc' = "none",
           UNCHANGED <<tracefunc, spoilt, hookFailed>>
    PROVE  ErrorInv'
  <1> DEFINE L == Len(frames)
  <1>1. L \in Nat /\ L \in 1..L /\ \A n \in 1..L : n # L => n \in 1..(L - 1)
    BY Lengths
  <1>2. PendingInv'
    <2>1. \A n \in 1..L : frames'[n].kind = frames[n].kind
      BY <1>1
    <2>2. KeepsError(frames[Len(frames)], exc)'
      BY <1>1 DEF KeepsError
    <2> QED
      BY <1>1, <2>1, <2>2, PendingStays DEF ErrorInv
  <1>3. QuietInv'
    <2>1. \A n \in 1..L : /\ frames'[n].kind = frames[n].kind /\ frames'[n].cut = frames[n].cut
                          /\ frames'[n].use_tracing = frames[n].use_tracing
      BY <1>1
    <2> QED
      BY <1>1, <2>1, QuietSame DEF ErrorInv
  <1>4. EventInv'
    <2>1. g.reported => tracefunc /\ g.traced /\ g.use_tracing /\ g.pc # "left"
      <3>1. g.reported => f.reported
        OBVIOUS
      <3>2. Nested(frames, L, L)
        BY <1>1 DEF Nested
      <3>3. f.reported => On(frames, L) /\ tracefunc /\ f.traced
        BY <1>1, <3>2 DEF ErrorInv, EventInv, Evented
      <3> QED
        BY <1>1, <3>1, <3>3 DEF On
    <2>2. EventInv
      BY DEF ErrorInv
    <2>3. Evented(frames')
      BY <1>1, <2>1, <2>2, EventTop
    <2> QED
      BY <2>3 DEF EventInv, Evented
  <1> QED
    BY <1>2, <1>3, <1>4 DEF ErrorInv

\* An operation of the innermost frame fails, or its error has been traced, or caught.
LEMMA PlaceMoves ==
    ASSUME FrameInv, ErrorInv, NEW pc \in Plain, frames' = [frames EXCEPT ![Top].pc = pc],
           pc # "body" => (~spoilt => exc' # "none"), pc = "body" => (~hookFailed => exc' = "none"),
           UNCHANGED <<tracefunc, spoilt, hookFailed>>
    PROVE  ErrorInv'
  <1> DEFINE g == [frames[Len(frames)] EXCEPT !.pc = pc]
  <1>1. /\ frames \in Seq(Frame) /\ Top = Len(frames) /\ Len(frames) \in 1..Len(frames)
        /\ frames[Len(frames)] \in Frame
    BY Lengths
  <1>2. /\ Len(frames') = Len(frames) /\ frames'[Len(frames)] = g
        /\ \A n \in 1..(Len(frames) - 1) : frames'[n] = frames[n]
    BY <1>1
  <1>3. /\ g.kind = frames[Len(frames)].kind /\ g.traced = frames[Len(frames)].traced
        /\ g.previous = frames[Len(frames)].previous /\ g.cut = frames[Len(frames)].cut
        /\ g.use_tracing = frames[Len(frames)].use_tracing
        /\ g.reported = frames[Len(frames)].reported
        /\ g.pc = pc
    BY <1>1 DEF Frame
  <1> HIDE DEF g
  <1>4. /\ g.pc \notin {"entry", "left"}
        /\ ~spoilt /\ FailingAt(g) => exc' # "none"
        /\ ~hookFailed /\ ~FailingAt(g) => exc' = "none"
    BY <1>3 DEF FailingAt, Plain
  <1> QED
    BY <1>2, <1>3, <1>4, TopMoves

LEMMA FailsErrors ==
    ASSUME FrameInv, ErrorInv, Fails, UNCHANGED <<tracefunc, spoilt, hookFailed>>
    PROVE  ErrorInv'
  BY PlaceMoves DEF Fails, Plain

\* The process ends, with nothing else changed.
LEMMA SameErrors ==
    ASSUME ErrorInv, UNCHANGED <<frames, exc, tracefunc, spoilt, hookFailed>>
    PROVE  ErrorInv'
  <1>1. PendingInv'
    BY DEF ErrorInv, PendingInv, KeepsError
  <1>2. QuietInv'
    BY DEF ErrorInv, QuietInv
  <1>3. EventInv'
    BY DEF ErrorInv, EventInv, Evented
  <1> QED
    BY <1>1, <1>2, <1>3 DEF ErrorInv

\* Whether the innermost frame has failed.
LEMMA TopKeeps ==
    ASSUME FrameInv, ErrorInv
    PROVE  /\ ~spoilt /\ FailingAt(frames[Top]) => exc # "none"
           /\ ~hookFailed /\ ~FailingAt(frames[Top]) => exc = "none"
  BY Lengths DEF ErrorInv, PendingInv, KeepsError

LEMMA ExitErrors == ASSUME FrameInv, ErrorInv, Exit PROVE ErrorInv'
  <1> DEFINE f == frames[Len(frames)]
             g(r) == [f EXCEPT !.pc = "exit", !.result = r]
  <1>1. /\ frames \in Seq(Frame) /\ Top = Len(frames) /\ Len(frames) \in 1..Len(frames)
        /\ f \in Frame
    BY Lengths
  <1>2. PICK r \in {"value", "null"} :
            /\ frames' = [frames EXCEPT ![Top].pc = "exit", ![Top].result = r]
            /\ r = "value" => f.pc = "body"
            /\ r = "null" => f.pc = "raised"
    BY <1>1 DEF Exit, Running
  <1>3. /\ Len(frames') = Len(frames) /\ frames'[Len(frames)] = g(r)
        /\ \A n \in 1..(Len(frames) - 1) : frames'[n] = frames[n]
    <2>1. frames' = [frames EXCEPT ![Len(frames)] = g(r)]
      BY <1>1, <1>2
    <2> HIDE DEF g
    <2> QED
      BY <1>1, <2>1
  <1>4. /\ g(r).kind = f.kind /\ g(r).traced = f.traced /\ g(r).previous = f.previous
        /\ g(r).cut = f.cut /\ g(r).use_tracing = f.use_tracing
        /\ g(r).reported = f.reported
        /\ g(r).pc = "exit" /\ g(r).result = r
    BY <1>1 DEF Frame
  <1>5. FailingAt(g(r)) <=> FailingAt(f)
    BY <1>2, <1>4 DEF FailingAt
  <1>6. /\ ~spoilt /\ FailingAt(f) => exc # "none"
        /\ ~hookFailed /\ ~FailingAt(f) => exc = "none"
    BY <1>1, TopKeeps
  <1>7. UNCHANGED <<exc, tracefunc, spoilt, hookFailed>>
    BY DEF Exit
  <1> HIDE DEF g, f
  <1> QED
    BY <1>3, <1>4, <1>5, <1>6, <1>7, TopMoves DEF f

\* A function is called, with the flag of the thread's C frame.
\* The flag a call copies is that of the innermost frame, unless the chain is cut.
LEMMA CopiedFlag ==
    ASSUME FrameInv, ErrorInv, NEW use \in UseTracing
    PROVE  /\ cframe = Len(frames) => use = frames[Len(frames)].use_tracing
           /\ ~spoilt /\ tracing = 1 => ~use /\ cframe # 0
  <1>1. Len(frames) \in 1..Len(frames) /\ Len(frames) \in Nat
    BY Lengths
  <1>2. cframe = Len(frames) => use = frames[Len(frames)].use_tracing
    BY <1>1 DEF UseTracing
  <1>3. ASSUME ~spoilt, tracing = 1 PROVE ~use /\ cframe # 0
    <2>1. PICK h \in 1..Len(frames) : frames[h].kind = "hook"
      BY <1>3 DEF FrameInv, Hooked
    <2>2. ~frames[Len(frames)].use_tracing /\ ~frames[Len(frames)].cut
      BY <1>1, <1>3, <2>1 DEF ErrorInv, QuietInv
    <2>3. cframe = Len(frames)
      BY <2>2 DEF FrameInv
    <2> QED
      BY <1>1, <1>2, <2>2, <2>3
  <1> QED
    BY <1>2, <1>3

LEMMA EnterErrors ==
    ASSUME FrameInv, ErrorInv, NEW use \in UseTracing, NEW f, IsEntered(f, use),
           NEW max, EnterRecursiveCall(max, f), Running({"body"}),
           UNCHANGED <<tracefunc, tracing, spoilt, hookFailed>>
    PROVE  ErrorInv'
  <1> DEFINE L == Len(frames)
  <1>0. /\ frames \in Seq(Frame) /\ L \in Nat /\ L \in 1..L /\ Top = L /\ cframe \in 0..L
        /\ frames[L] \in Frame
    BY Lengths
  <1>1. CASE Refuse
    BY <1>1, FailsErrors DEF Refuse
  <1>2. CASE Dies
    BY <1>2, SameErrors DEF Dies
  <1>3. CASE Push(f)
    <2>1. frames' = Append(frames, f) /\ exc' = exc
      BY <1>3 DEF Push
    <2>2. /\ f.kind = "code" /\ f.previous = cframe /\ f.use_tracing = use /\ f.pc = "entry"
          /\ ~f.reported /\ ~f.cut /\ f.result = "value"
      BY DEF IsEntered
    <2>3. Len(frames') = L + 1 /\ frames'[L + 1] = f /\ \A n \in 1..L : frames'[n] = frames[n]
      BY <1>0, <2>1
    <2>5. ~hookFailed => exc = "none"
      <3>1. ~FailingAt(frames[Top])
        BY <1>0 DEF Running, FailingAt
      <3> QED
        BY <3>1, TopKeeps
    <2>6. PendingInv'
      <3>1. KeepsError(f, exc)'
        BY <2>1, <2>2, <2>3, <2>5 DEF KeepsError, FailingAt
      <3>2. PendingInv /\ \A n \in 1..(L - 1) : n \in 1..L
        BY <1>0 DEF ErrorInv
      <3> QED
        BY <1>0, <2>2, <2>3, <3>1, <3>2, PendingPushed
    <2>7. QuietInv'
      <3>1. f.kind # "hook" /\ (~spoilt /\ tracing = 1 => ~f.use_tracing /\ ~f.cut)
        BY <2>2, CopiedFlag
      <3>2. QuietInv
        BY DEF ErrorInv
      <3> QED
        BY <2>3, <3>1, <3>2, QuietPushed
    <2>8. EventInv'
      <3>1. f.previous = L => f.use_tracing = frames[L].use_tracing
        BY <1>0, <2>2, CopiedFlag
      <3>2. Evented(frames) /\ \A n \in 1..(L - 1) : n \in 1..L
        BY <1>0 DEF ErrorInv, EventInv
      <3>3. frames'[L] = frames[L] /\ \A n \in 1..(L - 1) : frames'[n] = frames[n]
        BY <1>0, <2>3, <3>2
      <3>4. tracefunc' = tracefunc /\ ~f.reported /\ f.kind # "hook"
        BY <2>2
      <3> QED
        BY <2>3, <3>1, <3>2, <3>3, <3>4, EventPushed
    <2> QED
      BY <2>6, <2>7, <2>8 DEF ErrorInv
  <1> QED
    BY <1>1, <1>2, <1>3 DEF EnterRecursiveCall, CheckRecursiveCall

LEMMA CallErrors == ASSUME FrameInv, ErrorInv, NEW c \in Code, Call(c) PROVE ErrorInv'
  <1>1. PICK use, f : use \in UseTracing /\ IsEntered(f, use) /\ EnterRecursiveCall(JitLimit, f)
    BY CallEnters
  <1>2. UNCHANGED <<tracefunc, tracing, spoilt, hookFailed>> /\ Running({"body"})
    BY DEF Call
  <1> QED
    BY <1>1, <1>2, EnterErrors

LEMMA CallInterpretedErrors ==
    ASSUME FrameInv, ErrorInv, NEW c \in Uncompiled, CallInterpreted(c) PROVE ErrorInv'
  <1>1. PICK use, f : use \in UseTracing /\ IsEntered(f, use) /\ EnterRecursiveCall(limit, f)
    BY CallInterpretedEnters
  <1>2. UNCHANGED <<tracefunc, tracing, spoilt, hookFailed>> /\ Running({"body"})
    BY DEF CallInterpreted
  <1> QED
    BY <1>1, <1>2, EnterErrors

LEMMA CallCErrors == ASSUME FrameInv, ErrorInv, CallC PROVE ErrorInv'
  <1>1. Refuse \/ Dies
    BY DEF CallC, CheckRecursiveCall
  <1>2. UNCHANGED <<tracefunc, tracing, spoilt, hookFailed>>
    BY DEF CallC
  <1>3. CASE Refuse
    BY <1>2, <1>3, FailsErrors DEF Refuse
  <1>4. CASE Dies
    BY <1>2, <1>4, SameErrors DEF Dies
  <1> QED
    BY <1>1, <1>3, <1>4

\* The class of an exception that is caught is called.
LEMMA CreatesErrors ==
    ASSUME FrameInv, ErrorInv, NEW class, Creates(class),
           UNCHANGED <<tracefunc, tracing, spoilt, hookFailed>>
    PROVE  ErrorInv'
  <1> DEFINE L == Len(frames)
             c == frames[L]
             fs == [frames EXCEPT ![Top].pc = "body"]
             g == [c EXCEPT !.pc = "body"]
  <1>0. /\ frames \in Seq(Frame) /\ L \in Nat /\ L \in 1..L /\ Top = L /\ cframe \in 0..L
        /\ c \in Frame
    BY Lengths
  <1>1. PICK use \in UseTracing : frames' = Append(fs, InitFrame(use))
    BY Zenon DEF Creates, InitFrame
  <1>2. use \in BOOLEAN
    BY Flags
  <1>13. PICK f : f = InitFrame(use)
    OBVIOUS
  <1>3. /\ f.kind = "init" /\ f.previous = cframe /\ f.use_tracing = use /\ f.pc = "body"
        /\ ~f.reported /\ f.cut = (cframe = 0) /\ f.result = "value"
    BY <1>2, <1>13, InitFrames
  <1>4. frames' = Append(fs, f)
    BY <1>1, <1>13
  <1>5. /\ fs \in Seq(Frame) /\ Len(fs) = L /\ fs[L] = g
        /\ \A n \in 1..(L - 1) : fs[n] = frames[n]
    <2>1. /\ [frames EXCEPT ![L].pc = "body"] \in Seq(Frame)
          /\ Len([frames EXCEPT ![L].pc = "body"]) = L
          /\ \A m \in 1..L : m # L => [frames EXCEPT ![L].pc = "body"][m] = frames[m]
          /\ [frames EXCEPT ![L].pc = "body"][L] = g
      <3>1. "body" \in Plain \cup {"exit", "left"}
        BY DEF Plain
      <3>2. frames \in Seq(Frame) /\ L \in 1..Len(frames)
        BY <1>0
      <3> HIDE DEF L
      <3>3. /\ [frames EXCEPT ![L].pc = "body"] \in Seq(Frame)
            /\ Len([frames EXCEPT ![L].pc = "body"]) = Len(frames)
            /\ \A m \in 1..Len(frames) : m # L => [frames EXCEPT ![L].pc = "body"][m] = frames[m]
            /\ [frames EXCEPT ![L].pc = "body"][L] = [frames[L] EXCEPT !.pc = "body"]
        BY <3>1, <3>2, PlaceEffect
      <3> QED
        BY <3>3 DEF L
    <2>2. \A n \in 1..(L - 1) : n \in 1..L /\ n # L
      BY <1>0
    <2> QED
      BY <1>0, <2>1, <2>2
  <1>6. /\ g.kind = c.kind /\ g.traced = c.traced /\ g.previous = c.previous /\ g.cut = c.cut
        /\ g.use_tracing = c.use_tracing /\ g.reported = c.reported
        /\ g.pc = "body"
    BY <1>0 DEF Frame
  <1> HIDE DEF fs, g
  <1>7. /\ Len(frames') = L + 1 /\ frames'[L + 1] = f /\ frames'[L] = g
        /\ \A n \in 1..L : frames'[n] = fs[n]
        /\ \A n \in 1..L : n # L => n \in 1..(L - 1)
        /\ \A n \in 1..(L - 1) : n \in 1..L /\ frames'[n] = frames[n]
    <2>1. /\ Len(frames') = L + 1 /\ frames'[L + 1] = f /\ \A n \in 1..L : frames'[n] = fs[n]
      BY <1>0, <1>4, <1>5
    <2> QED
      BY <1>0, <1>5, <2>1
  <1>8. exc' = "none"
    BY DEF Creates
  <1>9. PendingInv'
    <2>1. KeepsError(f, exc)'
      BY <1>3, <1>7, <1>8 DEF KeepsError, FailingAt
    <2>2. PendingInv /\ \A n \in 1..L : frames'[n].kind = frames[n].kind
      BY <1>6, <1>7 DEF ErrorInv
    <2> QED
      BY <1>3, <1>7, <2>1, <2>2, PendingPushed
  <1>10. QuietInv'
    <2>1. f.kind # "hook" /\ (~spoilt /\ tracing = 1 => ~f.use_tracing /\ ~f.cut)
      BY <1>3, CopiedFlag
    <2>2. /\ QuietInv
          /\ \A n \in 1..L :
                 /\ frames'[n].kind = frames[n].kind
                 /\ frames'[n].use_tracing => frames[n].use_tracing
                 /\ frames'[n].cut => frames[n].cut
      BY <1>6, <1>7 DEF ErrorInv
    <2>3. Len(frames') = Len(frames) + 1 /\ f = frames'[Len(frames) + 1] /\ spoilt' = spoilt
      BY <1>7
    <2> QED
      BY <2>1, <2>2, <2>3, QuietPushed
  <1>11. Evented(fs)
    <2>1. g.reported => tracefunc /\ g.traced /\ g.use_tracing /\ g.pc # "left"
      <3>1. g.reported => c.reported
        BY <1>6
      <3>2. Nested(frames, L, L)
        BY <1>0 DEF Nested
      <3>3. c.reported => On(frames, L) /\ tracefunc /\ c.traced
        BY <1>0, <3>2 DEF ErrorInv, EventInv, Evented
      <3> QED
        BY <1>0, <1>6, <3>1, <3>3 DEF On
    <2>2. EventInv
      BY DEF ErrorInv
    <2> QED
      BY <1>5, <1>6, <2>1, <2>2, EventTop
  <1>12. EventInv'
    <2>1. f.previous = L => f.use_tracing = frames'[L].use_tracing
      BY <1>3, <1>6, <1>7, CopiedFlag
    <2>2. /\ tracefunc' = tracefunc /\ ~f.reported /\ f.kind # "hook"
          /\ frames'[L].use_tracing = fs[L].use_tracing
      BY <1>3, <1>5, <1>7
    <2>3. \A n \in 1..L : fs[n].kind = frames[n].kind
      BY <1>5, <1>6, <1>7
    <2>4. \A n \in 1..(L - 1) : frames'[n].use_tracing = fs[n].use_tracing
      BY <1>7
    <2>5. \A n \in 1..L :
             /\ frames'[n].kind = fs[n].kind /\ frames'[n].previous = fs[n].previous
             /\ frames'[n].traced = fs[n].traced /\ frames'[n].pc = fs[n].pc
             /\ frames'[n].reported = fs[n].reported
      BY <1>7
    <2>6. Len(frames') = L + 1 /\ f = frames'[L + 1] /\ Len(fs) = L
      BY <1>5, <1>7
    <2> QED
      BY <1>11, <2>1, <2>2, <2>3, <2>4, <2>5, <2>6, EventPushed
  <1> QED
    BY <1>9, <1>10, <1>12 DEF ErrorInv

LEMMA CatchErrors == ASSUME FrameInv, ErrorInv, Catch PROVE ErrorInv'
  <1>1. UNCHANGED <<tracefunc, tracing, spoilt, hookFailed>>
    BY DEF Catch
  <1>2. CASE Overflows
    BY <1>1, <1>2, SameErrors DEF Overflows, Dies
  <1>3. ASSUME NEW class \in Classes, Creates(class) PROVE ErrorInv'
    BY <1>1, <1>3, CreatesErrors
  <1>4. CASE exc' = "none" /\ frames' = [frames EXCEPT ![Top].pc = "body"]
    BY <1>1, <1>4, PlaceMoves DEF Plain
  <1> QED
    BY <1>2, <1>3, <1>4 DEF Catch

LEMMA RenormaliseErrors == ASSUME FrameInv, ErrorInv, Renormalise PROVE ErrorInv'
  BY PlaceMoves DEF Renormalise, Plain

\* The callers of a frame that is left, and the innermost of them at its new place.
LEMMA PoppedEffect ==
    ASSUME FrameInv, frames[Top].kind # "base", NEW e
    PROVE  /\ Len(frames) > 1 /\ Len(frames) - 1 \in 1..(Len(frames) - 1)
           /\ Popped(e) \in Seq(Frame) /\ Len(Popped(e)) = Len(frames) - 1
           /\ \A n \in 1..(Len(frames) - 2) : Popped(e)[n] = frames[n]
           /\ Popped(e)[Len(frames) - 1]
                = [frames[Len(frames) - 1] EXCEPT !.pc = IF e = "none" THEN "body" ELSE "failed"]
           /\ frames[Len(frames) - 1] \in Frame /\ Popped(e)[Len(frames) - 1] \in Frame
  <1> DEFINE gs == SubSeq(frames, 1, Top - 1)
             pc == IF e = "none" THEN "body" ELSE "failed"
  <1>1. /\ Top = Len(frames) /\ Top > 1 /\ Top \in Nat
        /\ gs \in Seq(Frame) /\ Len(gs) = Top - 1 /\ \A n \in 1..(Top - 1) : gs[n] = frames[n]
    BY Lengths, PoppedAlike DEF Chained
  <1>2. Popped(e) = [gs EXCEPT ![Top - 1].pc = pc]
    BY DEF Popped
  <1>3. pc \in Plain \cup {"exit", "left"} /\ Top - 1 \in 1..Len(gs)
    BY <1>1 DEF Plain
  <1> HIDE DEF gs, pc
  <1>4. /\ [gs EXCEPT ![Top - 1].pc = pc] \in Seq(Frame)
        /\ Len([gs EXCEPT ![Top - 1].pc = pc]) = Len(gs)
        /\ \A m \in 1..Len(gs) : m # Top - 1 => [gs EXCEPT ![Top - 1].pc = pc][m] = gs[m]
        /\ [gs EXCEPT ![Top - 1].pc = pc][Top - 1] = [gs[Top - 1] EXCEPT !.pc = pc]
        /\ [gs[Top - 1] EXCEPT !.pc = pc] \in Frame
    BY <1>1, <1>3, PlaceEffect
  <1>5. \A n \in 1..(Len(frames) - 2) : n \in 1..(Top - 1) /\ n # Top - 1
    BY <1>1
  <1>6. gs[Top - 1] = frames[Top - 1] /\ gs[Top - 1] \in Frame
    BY <1>1, <1>3
  <1> QED
    BY <1>1, <1>2, <1>3, <1>4, <1>5, <1>6 DEF pc

\* A frame other than that of the trace function is left with exception e.
LEMMA LeftErrors ==
    ASSUME FrameInv, FrameInv', ErrorInv, frames[Top].kind \notin {"base", "hook"},
           Len(frames') = Len(frames) - 1,
           \A n \in 1..(Len(frames) - 2) : Untouched(frames[n], frames'[n])
               /\ frames'[n].reported = frames[n].reported
               /\ frames'[n].use_tracing = frames[n].use_tracing,
           NEW f, f = frames[Len(frames)], NEW c, c = frames[Len(frames) - 1],
           NEW g, g = frames'[Len(frames) - 1],
           g.kind = c.kind, g.traced = c.traced, g.previous = c.previous,
           g.reported = c.reported,
           \/ f.previous = Len(frames) - 1 /\ g.use_tracing = f.use_tracing
           \/ g.use_tracing = c.use_tracing,
           \/ g.pc = IF exc' = "none" THEN "body" ELSE "failed"
           \/ g.pc = "body" /\ (~hookFailed => exc' = "none"),
           (g.cut => c.cut \/ f.cut) \/ tracing = 0 \/ spoilt',
           UNCHANGED <<tracefunc, tracing, hookFailed>>, spoilt => spoilt'
    PROVE  ErrorInv'
  <1> DEFINE L == Len(frames)
  <1>1. /\ L \in Nat /\ L > 1 /\ L \in 1..L /\ L - 1 \in 1..L /\ Top = L
        /\ \A n \in 1..(L - 1) : n \in 1..L /\ (n # L - 1 => n \in 1..(L - 2))
    <2>1. Top \in Nat /\ Top > 1 /\ Top = L
      BY Previous
    <2> QED
      BY <2>1
  <1>2. \A n \in 1..(L - 1) : /\ frames'[n].kind = frames[n].kind
                              /\ frames'[n].previous = frames[n].previous
                              /\ frames'[n].traced = frames[n].traced
                              /\ frames'[n].reported = frames[n].reported
                              /\ frames'[n].pc = frames[n].pc \/ frames'[n].pc \in {"body", "failed"}
    BY <1>1 DEF Untouched
  <1>3. PendingInv'
    <2>1. KeepsError(frames[Len(frames)], exc)'
      BY <1>1 DEF KeepsError, FailingAt
    <2>2. \A n \in 1..(L - 2) : /\ frames'[n].pc = frames[n].pc
                                /\ frames'[n].result = frames[n].result
                                /\ frames'[n].saved = frames[n].saved
      BY DEF Untouched
    <2>3. PendingInv /\ L - 1 \in Nat /\ L - 1 > 0 /\ L - 1 <= L
          /\ \A n \in 1..(L - 1 - 1) : n \in 1..(L - 2)
      BY <1>1 DEF ErrorInv
    <2> QED
      BY <1>1, <1>2, <2>1, <2>2, <2>3, PendingStays
  <1>4. QuietInv'
    <2>1. CASE tracing = 0
      BY <2>1, QuietOutside
    <2>2. CASE tracing # 0 /\ ~spoilt'
      <3>1. ASSUME NEW h \in 1..(L - 1), NEW m \in 1..(L - 1), frames'[h].kind = "hook", h <= m
            PROVE  ~frames'[m].use_tracing /\ ~frames'[m].cut
        <4>1. frames[h].kind = "hook" /\ h \in 1..L /\ m \in 1..L /\ h <= L
          BY <1>1, <1>2, <3>1
        <4>2. /\ ~frames[m].use_tracing /\ ~frames[m].cut
              /\ ~frames[L].use_tracing /\ ~frames[L].cut
          BY <1>1, <2>2, <3>1, <4>1 DEF ErrorInv, QuietInv
        <4>3. CASE m = L - 1
          BY <2>2, <4>2, <4>3
        <4>4. CASE m # L - 1
          BY <1>1, <4>2, <4>4 DEF Untouched
        <4> QED
          BY <4>3, <4>4
      <3> QED
        BY <3>1 DEF QuietInv
    <2>3. CASE spoilt'
      BY <2>3 DEF QuietInv
    <2> QED
      BY <2>1, <2>2, <2>3
  <1>5. EventInv'
    <2>1. EventInv /\ tracefunc' = tracefunc /\ f.kind # "hook"
      BY <1>1 DEF ErrorInv
    <2> QED
      BY <1>1, <1>2, <2>1, EventPopped
  <1> QED
    BY <1>3, <1>4, <1>5 DEF ErrorInv

LEMMA LeaveErrors == ASSUME FrameInv, FrameInv', ErrorInv, Leave PROVE ErrorInv'
  <1> DEFINE L == Len(frames)
             fs == Popped(exc')
             c == frames[L - 1]
             pc == IF exc' = "none" THEN "body" ELSE "failed"
  <1>1. frames[Top].kind = "code" /\ frames[Top].kind # "base"
    BY AtHook DEF Leave, Running
  <1>2. /\ Top = L /\ L \in Nat /\ frames[L] \in Frame
        /\ \/ frames[L].previous = L - 1
           \/ frames[L].previous = 0
    BY <1>1, Lengths, Previous
  <1>3. /\ L > 1 /\ L - 1 \in 1..(L - 1) /\ fs \in Seq(Frame) /\ Len(fs) = L - 1
        /\ \A n \in 1..(L - 2) : fs[n] = frames[n]
        /\ fs[L - 1] = [c EXCEPT !.pc = pc] /\ c \in Frame
    BY <1>1, PoppedEffect
  <1>4. frames' = WithFlag(fs, frames[L].previous, frames[L].use_tracing)
        /\ UNCHANGED <<tracefunc, tracing, hookFailed, spoilt>>
    BY <1>2 DEF Leave
  <1>5. /\ fs[L - 1].kind = c.kind /\ fs[L - 1].traced = c.traced
        /\ fs[L - 1].previous = c.previous /\ fs[L - 1].reported = c.reported
        /\ fs[L - 1].reported = c.reported /\ fs[L - 1].use_tracing = c.use_tracing
        /\ fs[L - 1].pc = pc /\ fs[L - 1].cut = c.cut
    BY <1>3 DEF Frame
  <1> HIDE DEF fs, c, pc
  <1>6. frames[L].previous \in 0..Len(fs) /\ frames[L].use_tracing \in BOOLEAN
    BY <1>2, <1>3 DEF Frame
  <1>7. /\ Len(frames') = L - 1
        /\ \A m \in 1..(L - 1) :
               /\ Untouched(fs[m], frames'[m]) /\ frames'[m].reported = fs[m].reported
               /\ frames'[m].use_tracing = IF m = frames[L].previous THEN frames[L].use_tracing
                                           ELSE fs[m].use_tracing
    BY <1>3, <1>4, <1>6, FlagEffect
  <1>8. \A n \in 1..(L - 2) : /\ Untouched(frames[n], frames'[n])
                              /\ frames'[n].reported = frames[n].reported
                              /\ frames'[n].use_tracing = frames[n].use_tracing
    <2>1. \A n \in 1..(L - 2) : n \in 1..(L - 1) /\ n # L - 1 /\ n # 0
      BY <1>2, <1>3
    <2> QED
      BY <1>2, <1>3, <1>7, <2>1
  <1>9. /\ Untouched(fs[L - 1], frames'[L - 1]) /\ frames'[L - 1].reported = c.reported
        /\ \/ frames[L].previous = L - 1 /\ frames'[L - 1].use_tracing = frames[L].use_tracing
           \/ frames'[L - 1].use_tracing = c.use_tracing
    BY <1>2, <1>3, <1>5, <1>7
  <1>10. /\ frames'[L - 1].kind = c.kind /\ frames'[L - 1].traced = c.traced
         /\ frames'[L - 1].previous = c.previous
         /\ frames'[L - 1].cut = c.cut /\ frames'[L - 1].pc = pc
    BY <1>5, <1>9 DEF Untouched
  <1>11. c = frames[L - 1] /\ pc = IF exc' = "none" THEN "body" ELSE "failed"
    BY DEF c, pc
  <1>12. UNCHANGED <<tracefunc, tracing, hookFailed>> /\ (spoilt => spoilt')
    BY <1>4
  <1> HIDE DEF c, pc
  <1> QED
    BY <1>8, <1>9, <1>10, <1>11, <1>12, <1>7, <1>1, LeftErrors

\* The class of an exception has been called; its caller is cut off as it was.
LEMMA NormalisedErrors == ASSUME FrameInv, FrameInv', ErrorInv, Normalised PROVE ErrorInv'
  <1> DEFINE L == Len(frames)
             f == frames[L]
             ps == Popped("none")
             c == frames[L - 1]
             g == [ps[L - 1] EXCEPT !.cut = @ \/ f.cut]
             fs == [ps EXCEPT ![L - 1] = g]
  <1>1. frames[Top].kind = "init" /\ frames[Top].kind # "base"
    BY DEF Normalised
  <1>2. /\ Top = L /\ L \in Nat /\ f \in Frame
        /\ f.previous = L - 1 \/ f.previous = 0
    BY <1>1, Lengths, Previous
  <1>3. /\ L > 1 /\ L - 1 \in 1..(L - 1) /\ ps \in Seq(Frame) /\ Len(ps) = L - 1
        /\ \A n \in 1..(L - 2) : ps[n] = frames[n]
        /\ ps[L - 1] = [c EXCEPT !.pc = "body"] /\ c \in Frame /\ ps[L - 1] \in Frame
    BY <1>1, PoppedEffect
  <1>4. frames' = WithFlag(fs, f.previous, f.use_tracing)
        /\ UNCHANGED <<exc, tracefunc, tracing, hookFailed, spoilt>>
    BY <1>2 DEF Normalised
  <1>5. /\ ps[L - 1].kind = c.kind /\ ps[L - 1].traced = c.traced
        /\ ps[L - 1].previous = c.previous /\ ps[L - 1].reported = c.reported
        /\ ps[L - 1].reported = c.reported /\ ps[L - 1].use_tracing = c.use_tracing
        /\ ps[L - 1].pc = "body" /\ ps[L - 1].cut = c.cut
    BY <1>3 DEF Frame
  <1> HIDE DEF ps, c
  <1>6. g \in Frame /\ (g.cut => c.cut \/ f.cut)
    <2>1. (ps[L - 1].cut \/ f.cut) \in BOOLEAN
      OBVIOUS
    <2>2. \A b \in BOOLEAN : [ps[L - 1] EXCEPT !.cut = b] \in Frame
                            /\ [ps[L - 1] EXCEPT !.cut = b].cut = b
      BY <1>3 DEF Frame
    <2>3. g \in Frame /\ g.cut = (ps[L - 1].cut \/ f.cut)
      BY <2>1, <2>2, Zenon
    <2>4. ps[L - 1].cut = c.cut
      BY <1>5
    <2> QED
      BY <2>3, <2>4, Zenon
  <1>7. /\ g.kind = c.kind /\ g.traced = c.traced /\ g.previous = c.previous
        /\ g.reported = c.reported /\ g.use_tracing = c.use_tracing
        /\ g.pc = "body"
    <2>1. /\ g.kind = ps[L - 1].kind /\ g.traced = ps[L - 1].traced
          /\ g.previous = ps[L - 1].previous /\ g.reported = ps[L - 1].reported
          /\ g.reported = ps[L - 1].reported /\ g.use_tracing = ps[L - 1].use_tracing
          /\ g.pc = ps[L - 1].pc
      <3>1. \A b \in BOOLEAN :
               LET h == [ps[L - 1] EXCEPT !.cut = b]
               IN  /\ h.kind = ps[L - 1].kind /\ h.traced = ps[L - 1].traced
                   /\ h.previous = ps[L - 1].previous /\ h.reported = ps[L - 1].reported
                   /\ h.reported = ps[L - 1].reported /\ h.use_tracing = ps[L - 1].use_tracing
                   /\ h.pc = ps[L - 1].pc
        BY <1>3 DEF Frame
      <3>2. (ps[L - 1].cut \/ f.cut) \in BOOLEAN
        OBVIOUS
      <3> QED
        BY <3>1, <3>2, Zenon
    <2> HIDE DEF g
    <2> QED
      BY <1>5, <2>1
  <1> HIDE DEF g
  <1>8. /\ fs \in Seq(Frame) /\ Len(fs) = L - 1 /\ fs[L - 1] = g
        /\ \A n \in 1..(L - 2) : fs[n] = frames[n]
    <2>1. \A n \in 1..(L - 2) : n \in 1..(L - 1) /\ n # L - 1
      BY <1>2, <1>3
    <2> QED
      BY <1>2, <1>3, <1>6, <2>1
  <1> HIDE DEF fs
  <1>9. f.previous \in 0..Len(fs) /\ f.use_tracing \in BOOLEAN
    BY <1>2, <1>3, <1>8 DEF Frame
  <1>10. /\ Len(frames') = L - 1
         /\ \A m \in 1..(L - 1) :
                /\ Untouched(fs[m], frames'[m]) /\ frames'[m].reported = fs[m].reported
                /\ frames'[m].use_tracing = IF m = f.previous THEN f.use_tracing
                                            ELSE fs[m].use_tracing
    <2>3. PICK p, u : p = f.previous /\ u = f.use_tracing
      OBVIOUS
    <2> DEFINE ws == WithFlag(fs, p, u)
    <2>1. /\ ws \in Seq(Frame) /\ Len(ws) = Len(fs)
          /\ \A m \in 1..Len(fs) :
                 /\ Untouched(fs[m], ws[m]) /\ ws[m].reported = fs[m].reported
                 /\ ws[m].use_tracing = IF m = p THEN u ELSE fs[m].use_tracing
      <3>1. fs \in Seq(Frame) /\ p \in 0..Len(fs) /\ u \in BOOLEAN
        BY <1>8, <1>9, <2>3
      <3> QED
        BY <3>1, FlagEffect
    <2>2. frames' = ws
      BY <1>4, <2>3
    <2> HIDE DEF ws
    <2> QED
      BY <1>8, <2>1, <2>2, <2>3
  <1>11. \A n \in 1..(L - 2) : /\ Untouched(frames[n], frames'[n])
                               /\ frames'[n].reported = frames[n].reported
                               /\ frames'[n].use_tracing = frames[n].use_tracing
    <2>1. \A n \in 1..(L - 2) : n \in 1..(L - 1) /\ n # L - 1 /\ n # 0
      BY <1>2, <1>3
    <2> QED
      BY <1>2, <1>8, <1>10, <2>1
  <1>12. /\ Untouched(g, frames'[L - 1]) /\ frames'[L - 1].reported = c.reported
         /\ \/ f.previous = L - 1 /\ frames'[L - 1].use_tracing = f.use_tracing
            \/ frames'[L - 1].use_tracing = c.use_tracing
    BY <1>2, <1>3, <1>7, <1>8, <1>10
  <1>13. /\ frames'[L - 1].kind = c.kind /\ frames'[L - 1].traced = c.traced
         /\ frames'[L - 1].previous = c.previous
         /\ frames'[L - 1].pc = "body" /\ (frames'[L - 1].cut => c.cut \/ f.cut)
    BY <1>6, <1>7, <1>12 DEF Untouched
  <1>14. ~hookFailed => exc' = "none"
    <2>1. ~FailingAt(frames[Top])
      BY DEF Normalised, Running, FailingAt
    <2> QED
      BY <1>4, <2>1, TopKeeps
  <1>15. c = frames[L - 1] /\ frames[Top].kind \notin {"base", "hook"}
    BY <1>1 DEF c
  <1> HIDE DEF c
  <1>16. UNCHANGED <<tracefunc, tracing, hookFailed>> /\ (spoilt => spoilt')
    BY <1>4
  <1> QED
    BY <1>10, <1>11, <1>12, <1>13, <1>14, <1>15, <1>16, LeftErrors

\* A C++ exception cuts the chain; inside of a trace function it is an exemption.
LEMMA ThrowErrors == ASSUME FrameInv, FrameInv', ErrorInv, Throw PROVE ErrorInv'
  <1> DEFINE L == Len(frames)
             fs == Popped("error")
             c == frames[L - 1]
             g == [fs[L - 1] EXCEPT !.cut = TRUE]
  <1>1. /\ frames[Top].kind = "code" /\ frames[Top].kind # "base"
        /\ exc' = "error" /\ frames' = [fs EXCEPT ![Top - 1].cut = TRUE]
        /\ spoilt' = (spoilt \/ tracing > 0) /\ UNCHANGED <<tracefunc, tracing, hookFailed>>
    BY DEF Throw
  <1>2. Top = L /\ L \in Nat
    BY Lengths
  <1>3. /\ L > 1 /\ L - 1 \in 1..(L - 1) /\ fs \in Seq(Frame) /\ Len(fs) = L - 1
        /\ \A n \in 1..(L - 2) : fs[n] = frames[n]
        /\ fs[L - 1] = [c EXCEPT !.pc = "failed"] /\ c \in Frame /\ fs[L - 1] \in Frame
    BY <1>1, PoppedEffect
  <1>4. /\ fs[L - 1].kind = c.kind /\ fs[L - 1].traced = c.traced
        /\ fs[L - 1].previous = c.previous /\ fs[L - 1].reported = c.reported
        /\ fs[L - 1].reported = c.reported /\ fs[L - 1].use_tracing = c.use_tracing
        /\ fs[L - 1].pc = "failed"
    BY <1>3 DEF Frame
  <1>5. /\ g.kind = c.kind /\ g.traced = c.traced /\ g.previous = c.previous
        /\ g.reported = c.reported
        /\ g.use_tracing = c.use_tracing /\ g.pc = "failed"
    BY <1>3, <1>4 DEF Frame
  <1>6. g.pc = IF exc' = "none" THEN "body" ELSE "failed"
    BY <1>1, <1>5
  <1> HIDE DEF fs, c
  <1>7. frames' = [fs EXCEPT ![L - 1] = g]
    BY <1>1, <1>2, <1>3
  <1> HIDE DEF g
  <1>8. /\ Len(frames') = L - 1 /\ frames'[L - 1] = g
        /\ \A n \in 1..(L - 2) : frames'[n] = frames[n]
    <2>1. \A n \in 1..(L - 2) : n \in 1..(L - 1) /\ n # L - 1
      BY <1>2, <1>3
    <2> QED
      BY <1>2, <1>3, <1>7, <2>1
  <1>9. \A n \in 1..(L - 2) : /\ Untouched(frames[n], frames'[n])
                              /\ frames'[n].reported = frames[n].reported
                              /\ frames'[n].use_tracing = frames[n].use_tracing
    BY <1>8 DEF Untouched
  <1>10. (tracing = 0 \/ spoilt') /\ (spoilt => spoilt')
    <2>1. tracing \in {0, 1}
      BY DEF FrameInv, Hooked
    <2>2. spoilt \/ tracing > 0 => spoilt'
      BY <1>1, Zenon
    <2> QED
      BY <2>1, <2>2
  <1>11. c = frames[L - 1]
    BY DEF c
  <1>12. frames[Top].kind = "code" /\ UNCHANGED <<tracefunc, tracing, hookFailed>>
    BY <1>1
  <1>13. PICK h : h = g
    OBVIOUS
  <1>14. /\ h.kind = c.kind /\ h.traced = c.traced /\ h.previous = c.previous
         /\ h.reported = c.reported
         /\ h.use_tracing = c.use_tracing /\ h = frames'[L - 1]
         /\ h.pc = IF exc' = "none" THEN "body" ELSE "failed"
    BY <1>5, <1>6, <1>8, <1>13
  <1>15. Len(frames') = L - 1
    BY <1>8
  <1> QED
    BY <1>9, <1>10, <1>11, <1>12, <1>14, <1>15, LeftErrors

\* The caller of a trace function that has ended goes on with the exception that
\* was fetched, or with that of the trace function, which is an exemption.
LEMMA HookEndsErrors ==
    ASSUME FrameInv, FrameInv', ErrorInv, NEW fails \in BOOLEAN, HookEnds(fails)
    PROVE  ErrorInv'
  <1> DEFINE L == Len(frames)
             rest == SubSeq(frames, 1, Top - 1)
             e == [frames[L - 1] EXCEPT !.saved = "none"]
             caller == [rest EXCEPT ![L - 1] = e]
             fs == IF fails THEN Unsettled(caller) ELSE caller
             on == tracefunc /\ ~fails
             f == frames[L]
  <1>1. /\ frames' = WithFlag(fs, f.previous, on)
        /\ exc' = IF fails THEN exc ELSE Restored(frames[L - 1])
        /\ tracefunc' = on /\ tracing' = tracing - 1 /\ hookFailed' = (hookFailed \/ fails)
        /\ spoilt' = spoilt /\ f.kind = "hook" /\ frames[Top].kind # "base"
        /\ fails => f.pc = "raised"
    <2>1. Top = L
      BY Lengths
    <2>2. [rest EXCEPT ![Top - 1].saved = "none"] = caller
      <3>1. Len(rest) = L - 1 /\ rest \in Seq(Frame) /\ L - 1 \in 1..(L - 1)
            /\ rest[L - 1] = frames[L - 1]
        <4>1. frames[Top].kind # "base"
          BY DEF HookEnds
        <4> QED
          BY <2>1, <4>1, PoppedAlike, Previous, Lengths DEF Chained
      <3> QED
        BY <2>1, <3>1
    <2> QED
      BY <2>1, <2>2 DEF HookEnds, Running
  <1>2. /\ Top = L /\ L \in Nat /\ L > 1 /\ f \in Frame /\ f.previous \in 0..(L - 1)
        /\ frames \in Seq(Frame)
    BY <1>1, Lengths, Previous
  <1>3. /\ caller \in Seq(Frame) /\ Len(caller) = L - 1
        /\ \A n \in 1..(L - 1) :
               /\ n # L - 1 => caller[n] = frames[n]
               /\ caller[n].kind = frames[n].kind /\ caller[n].traced = frames[n].traced
               /\ caller[n].previous = frames[n].previous /\ caller[n].pc = frames[n].pc
               /\ caller[n].result = frames[n].result /\ caller[n].cut = frames[n].cut
               /\ caller[n].reported = frames[n].reported
               /\ caller[n].use_tracing = frames[n].use_tracing
    <2>1. /\ rest \in Seq(Frame) /\ Len(rest) = L - 1
          /\ \A n \in 1..(L - 1) : rest[n] = frames[n]
      BY <1>1, <1>2, PoppedAlike DEF Chained
    <2>2. L - 1 \in 1..(L - 1) /\ frames[L - 1] \in Frame
      BY <1>2
    <2>3. e \in Frame
      BY <2>2, Updates DEF Exception
    <2>4. /\ e.kind = frames[L - 1].kind /\ e.traced = frames[L - 1].traced
          /\ e.previous = frames[L - 1].previous /\ e.pc = frames[L - 1].pc
          /\ e.result = frames[L - 1].result /\ e.cut = frames[L - 1].cut
          /\ e.reported = frames[L - 1].reported
          /\ e.use_tracing = frames[L - 1].use_tracing
      BY <2>2 DEF Frame
    <2> HIDE DEF rest, e
    <2>5. /\ caller \in Seq(Frame) /\ Len(caller) = L - 1 /\ caller[L - 1] = e
          /\ \A n \in 1..(L - 1) : n # L - 1 => caller[n] = frames[n]
      BY <2>1, <2>2, <2>3
    <2> QED
      BY <2>4, <2>5
  <1>4. on \in BOOLEAN
    BY DEF FrameInv, OthersTypeOK
  <1> HIDE DEF caller, on
  <1>5. /\ fs \in Seq(Frame) /\ Len(fs) = L - 1
        /\ \A n \in 1..(L - 1) : /\ Untouched(caller[n], fs[n])
                                 /\ fs[n].use_tracing = caller[n].use_tracing
                                 /\ fs[n].reported = IF fails THEN FALSE ELSE caller[n].reported
    <2>1. /\ Unsettled(caller) \in Seq(Frame) /\ Len(Unsettled(caller)) = Len(caller)
          /\ \A m \in 1..Len(caller) :
                 /\ Untouched(caller[m], Unsettled(caller)[m])
                 /\ Unsettled(caller)[m].reported = FALSE
                 /\ Unsettled(caller)[m].use_tracing = caller[m].use_tracing
      BY <1>3, UnsettledEffect
    <2>2. CASE fails
      <3>1. fs = Unsettled(caller)
        BY <2>2
      <3> HIDE DEF fs
      <3> QED
        BY <1>3, <2>1, <2>2, <3>1
    <2>3. CASE ~fails
      <3>1. fs = caller
        BY <2>3
      <3> HIDE DEF fs
      <3> QED
        BY <1>3, <2>3, <3>1 DEF Untouched
    <2> QED
      BY <2>2, <2>3
  <1> HIDE DEF fs
  <1>6. /\ Len(frames') = L - 1
        /\ \A n \in 1..(L - 1) :
               /\ n # L - 1 => frames'[n].saved = frames[n].saved
               /\ frames'[n].kind = frames[n].kind /\ frames'[n].traced = frames[n].traced
               /\ frames'[n].previous = frames[n].previous /\ frames'[n].pc = frames[n].pc
               /\ frames'[n].result = frames[n].result
               /\ frames'[n].reported = IF fails THEN FALSE ELSE frames[n].reported
               /\ frames'[n].use_tracing = IF n = f.previous THEN on ELSE frames[n].use_tracing
    <2>1. /\ Len(frames') = L - 1
          /\ \A m \in 1..(L - 1) :
                 /\ Untouched(fs[m], frames'[m]) /\ frames'[m].reported = fs[m].reported
                 /\ frames'[m].use_tracing = IF m = f.previous THEN on ELSE fs[m].use_tracing
      <3>1. f.previous \in 0..Len(fs) /\ fs \in Seq(Frame) /\ Len(fs) = L - 1
        BY <1>2, <1>5
      <3>2. frames' = WithFlag(fs, f.previous, on)
        BY <1>1
      <3>3. f.previous \in 0..Len(fs) /\ on \in BOOLEAN
        BY <1>4, <3>1
      <3> HIDE DEF f
      <3>4. Flagged(fs, frames', f.previous, on)
        BY <3>1, <3>2, <3>3, FlaggedByFlag, Zenon
      <3> QED
        BY <3>1, <3>4 DEF Flagged
    <2>2. \A m \in 1..(L - 1) : Untouched(caller[m], frames'[m])
      BY <1>5, <2>1, UntouchedTrans
    <2>3. \A n \in 1..(L - 1) :
              /\ frames'[n].saved = caller[n].saved
              /\ frames'[n].kind = frames[n].kind /\ frames'[n].traced = frames[n].traced
              /\ frames'[n].previous = frames[n].previous /\ frames'[n].pc = frames[n].pc
              /\ frames'[n].result = frames[n].result
      BY <1>3, <2>2 DEF Untouched
    <2>4. \A n \in 1..(L - 1) : n # L - 1 => caller[n].saved = frames[n].saved
      BY <1>3
    <2>5. \A n \in 1..(L - 1) :
              frames'[n].reported = IF fails THEN FALSE ELSE caller[n].reported
      BY <1>5, <2>1, Zenon
    <2>6. \A n \in 1..(L - 1) :
              /\ frames'[n].reported = IF fails THEN FALSE ELSE frames[n].reported
              /\ frames'[n].use_tracing = IF n = f.previous THEN on ELSE frames[n].use_tracing
      <3> SUFFICES ASSUME NEW n \in 1..(L - 1)
                   PROVE  /\ frames'[n].reported = IF fails THEN FALSE ELSE frames[n].reported
                          /\ frames'[n].use_tracing = IF n = f.previous THEN on
                                                      ELSE frames[n].use_tracing
        OBVIOUS
      <3>1. frames'[n].reported = IF fails THEN FALSE ELSE caller[n].reported
        BY <2>5
      <3>2. /\ caller[n].reported = frames[n].reported
            /\ caller[n].use_tracing = frames[n].use_tracing
        BY <1>3
      <3>3. /\ frames'[n].use_tracing = IF n = f.previous THEN on ELSE fs[n].use_tracing
            /\ fs[n].use_tracing = caller[n].use_tracing
        BY <1>5, <2>1
      <3> QED
        BY <3>1, <3>2, <3>3, Zenon
    <2>7. Len(frames') = L - 1
      BY <2>1
    <2> QED
      BY <2>3, <2>4, <2>6, <2>7
  <1>7. QuietInv'
    <2>1. tracing' = 0
      <3>1. tracing = 1
        BY <1>1, <1>2 DEF FrameInv, Hooked
      <3> QED
        BY <1>1, <3>1
    <2> QED
      BY <2>1, QuietOutside
  <1>8. PendingInv'
    <2>1. L - 1 \in 1..(L - 1) /\ L - 1 \in Nat /\ L - 1 > 0 /\ L - 1 <= L
          /\ \A n \in 1..(L - 1 - 1) : n \in 1..(L - 1)
      BY <1>2
    <2>2. /\ ~spoilt' /\ FailingAt(frames[L - 1]) => exc' # "none"
          /\ ~hookFailed' /\ ~FailingAt(frames[L - 1]) => exc' = "none"
      <3>1. CASE fails
        <4>1. ~spoilt => exc # "none"
          BY <1>1, <1>2, <3>1, TopKeeps DEF FailingAt
        <4> QED
          BY <1>1, <3>1, <4>1
      <3>2. CASE ~fails
        <4>1. KeepsError(frames[L - 1], frames[L - 1].saved)
          <5>1. PendingInv /\ (L - 1) + 1 = L
            BY <1>2 DEF ErrorInv
          <5> QED
            BY <1>1, <2>1, <5>1 DEF PendingInv
        <4>2. exc' = frames[L - 1].saved
          BY <1>1, <1>3, <2>1, <3>2 DEF Restored
        <4>3. hookFailed => hookFailed'
          BY <1>1, Zenon
        <4> QED
          BY <1>1, <4>1, <4>2, <4>3 DEF KeepsError
      <3> QED
        BY <3>1, <3>2
    <2>3. KeepsError(frames[Len(frames)], exc)'
      <3>1. FailingAt(frames'[L - 1]) <=> FailingAt(frames[L - 1])
        BY <1>6, <2>1 DEF FailingAt
      <3> QED
        BY <1>6, <2>2, <3>1 DEF KeepsError
    <2>4. PendingInv /\ (spoilt => spoilt') /\ (hookFailed => hookFailed')
      BY <1>1, Zenon DEF ErrorInv
    <2>5. Len(frames') = L - 1
      BY <1>6
    <2>6. \A n \in 1..(L - 1) : /\ frames'[n].kind = frames[n].kind
                                /\ frames'[n].pc = frames[n].pc
                                /\ frames'[n].result = frames[n].result
      BY <1>6
    <2>7. \A n \in 1..(L - 1 - 1) : frames'[n].saved = frames[n].saved
      <3>1. \A n \in 1..(L - 1 - 1) : n \in 1..(L - 1) /\ n # L - 1
        BY <1>2
      <3> QED
        BY <1>6, <3>1
    <2> QED
      BY <2>1, <2>3, <2>4, <2>5, <2>6, <2>7, PendingStays
  <1>9. EventInv'
    <2>1. EventInv /\ Evented(frames)
      BY DEF ErrorInv, EventInv
    <2>2. CASE fails
      <3>1. \A n \in 1..Len(frames') : ~frames'[n].reported
        BY <1>6, <2>2
      <3> QED
        BY <3>1, EventUnsettled
    <2>3. CASE ~fails
      <3>1. \A n \in 1..(L - 2) : n \in 1..(L - 1) /\ n # L - 1
        BY <1>2
      <3>2. on = tracefunc /\ tracefunc' = tracefunc
        <4>1. tracefunc \in BOOLEAN
          BY DEF FrameInv, OthersTypeOK
        <4> QED
          BY <1>1, <2>3, <4>1 DEF on
      <3>3. \A n \in 1..(L - 1) : /\ frames'[n].kind = frames[n].kind
                                  /\ frames'[n].previous = frames[n].previous
                                  /\ frames'[n].traced = frames[n].traced
                                  /\ frames'[n].reported = frames[n].reported
                                  /\ frames'[n].pc = frames[n].pc
        BY <1>6, <2>3
      <3>4. \A n \in 1..(L - 2) : n # f.previous
        BY <1>1, <1>2, Previous
      <3>5. \A n \in 1..(L - 2) : frames'[n].use_tracing = frames[n].use_tracing
        BY <1>6, <3>1, <3>4
      <3>6. frames'[L - 1].use_tracing = IF f.previous = L - 1 THEN tracefunc
                                         ELSE frames[L - 1].use_tracing
        <4>1. L - 1 \in 1..(L - 1)
          BY <1>2
        <4>2. frames'[L - 1].use_tracing = IF L - 1 = f.previous THEN on
                                           ELSE frames[L - 1].use_tracing
          BY <1>6, <4>1
        <4> QED
          BY <3>2, <4>2, Zenon
      <3>7. L > 1 /\ Len(frames') = L - 1 /\ f.kind = "hook"
        BY <1>1, <1>2, <1>6
      <3>8. EventInv
        BY <2>1
      <3> HIDE DEF f
      <3>9. f = frames[L]
        BY DEF f
      <3> QED
        BY <3>2, <3>3, <3>5, <3>6, <3>7, <3>8, <3>9, EventPopped
    <2> QED
      BY <2>2, <2>3
  <1> QED
    BY <1>7, <1>8, <1>9 DEF ErrorInv

LEMMA Appended ==
    ASSUME NEW S, NEW s \in Seq(S), NEW e
    PROVE  /\ Len(Append(s, e)) = Len(s) + 1 /\ Append(s, e)[Len(s) + 1] = e
           /\ \A n \in 1..Len(s) : Append(s, e)[n] = s[n]
  OBVIOUS

\* The frames when the trace function has been called.
Hooking(fs) ==
    Append(WithFlag([fs EXCEPT ![Top].saved = exc], cframe, FALSE),
           [Base EXCEPT !.kind = "hook", !.previous = cframe])

LEMMA HookEffect ==
    ASSUME FrameInv, NEW fs \in Seq(Frame), Len(fs) = Len(frames), NEW hs, hs = Hooking(fs)
    PROVE  /\ Len(hs) = Len(frames) + 1
           /\ \A n \in 1..Len(frames) :
                  /\ hs[n].kind = fs[n].kind /\ hs[n].traced = fs[n].traced
                  /\ hs[n].previous = fs[n].previous /\ hs[n].pc = fs[n].pc
                  /\ hs[n].result = fs[n].result /\ hs[n].cut = fs[n].cut
                  /\ hs[n].reported = fs[n].reported
           /\ \A n \in 1..Len(frames) :
                  /\ n = Len(frames) => hs[n].saved = exc
                  /\ n # Len(frames) => hs[n].saved = fs[n].saved
           /\ \A n \in 1..Len(frames) :
                  /\ hs[n].use_tracing => fs[n].use_tracing
                  /\ n # cframe => hs[n].use_tracing = fs[n].use_tracing
           /\ hs[Len(frames) + 1] = [Base EXCEPT !.kind = "hook", !.previous = cframe]
  <1> DEFINE L == Len(frames)
             g == [fs[L] EXCEPT !.saved = exc]
             gs == [fs EXCEPT ![Top].saved = exc]
             ks == WithFlag(gs, cframe, FALSE)
             f == [Base EXCEPT !.kind = "hook", !.previous = cframe]
  <1>1. /\ L \in Nat /\ L \in 1..L /\ Top = L /\ cframe \in 0..L /\ exc \in Exception
        /\ fs[L] \in Frame
    BY Lengths
  <1>2. g \in Frame
    BY <1>1, Updates
  <1>3. /\ g.kind = fs[L].kind /\ g.traced = fs[L].traced /\ g.previous = fs[L].previous
        /\ g.pc = fs[L].pc /\ g.result = fs[L].result /\ g.cut = fs[L].cut
        /\ g.reported = fs[L].reported /\ g.saved = exc
        /\ g.use_tracing = fs[L].use_tracing
    BY <1>1 DEF Frame
  <1>4. gs = [fs EXCEPT ![L] = g]
    BY <1>1
  <1> HIDE DEF gs, g
  <1>5. gs \in Seq(Frame) /\ Len(gs) = L /\ gs[L] = g /\ \A n \in 1..L : n # L => gs[n] = fs[n]
    BY <1>1, <1>2, <1>4
  <1>6. PICK no \in BOOLEAN : no = FALSE
    OBVIOUS
  <1>7. /\ WithFlag(gs, cframe, no) \in Seq(Frame) /\ Len(WithFlag(gs, cframe, no)) = L
        /\ \A m \in 1..L : /\ Untouched(gs[m], WithFlag(gs, cframe, no)[m])
                           /\ WithFlag(gs, cframe, no)[m].reported = gs[m].reported
                           /\ WithFlag(gs, cframe, no)[m].use_tracing
                                  = IF m = cframe THEN no ELSE gs[m].use_tracing
    BY <1>1, <1>5, FlagEffect
  <1>8. ks = WithFlag(gs, cframe, no)
    BY <1>6
  <1> HIDE DEF ks, f
  <1>9. hs = Append(ks, f)
    BY DEF Hooking, ks, gs, f
  <1>10. Len(hs) = L + 1 /\ hs[L + 1] = f /\ \A n \in 1..L : hs[n] = ks[n]
    <2>1. ks \in Seq(Frame) /\ Len(ks) = L
      BY <1>7, <1>8
    <2>2. /\ Len(hs) = Len(ks) + 1 /\ hs[Len(ks) + 1] = f
          /\ \A n \in 1..Len(ks) : hs[n] = ks[n]
      BY <1>9, <2>1, Appended
    <2> QED
      BY <2>1, <2>2
  <1>11. ASSUME NEW n \in 1..L
         PROVE  /\ hs[n].kind = fs[n].kind /\ hs[n].traced = fs[n].traced
                /\ hs[n].previous = fs[n].previous /\ hs[n].pc = fs[n].pc
                /\ hs[n].result = fs[n].result /\ hs[n].cut = fs[n].cut
                /\ hs[n].reported = fs[n].reported
                /\ n = L => hs[n].saved = exc
                /\ n # L => hs[n].saved = fs[n].saved
                /\ hs[n].use_tracing => fs[n].use_tracing
                /\ n # cframe => hs[n].use_tracing = fs[n].use_tracing
    <2>1. /\ gs[n].kind = fs[n].kind /\ gs[n].traced = fs[n].traced
          /\ gs[n].previous = fs[n].previous /\ gs[n].pc = fs[n].pc
          /\ gs[n].result = fs[n].result /\ gs[n].cut = fs[n].cut
          /\ gs[n].reported = fs[n].reported
          /\ gs[n].use_tracing = fs[n].use_tracing
          /\ n = L => gs[n].saved = exc
          /\ n # L => gs[n].saved = fs[n].saved
      BY <1>3, <1>5
    <2>2. /\ Untouched(gs[n], hs[n]) /\ hs[n].reported = gs[n].reported
          /\ hs[n].use_tracing = IF n = cframe THEN no ELSE gs[n].use_tracing
      BY <1>7, <1>8, <1>10
    <2>3. /\ hs[n].kind = gs[n].kind /\ hs[n].traced = gs[n].traced
          /\ hs[n].previous = gs[n].previous /\ hs[n].pc = gs[n].pc
          /\ hs[n].result = gs[n].result /\ hs[n].saved = gs[n].saved
          /\ hs[n].cut = gs[n].cut
      BY <2>2 DEF Untouched
    <2>4. /\ hs[n].use_tracing => fs[n].use_tracing
          /\ n # cframe => hs[n].use_tracing = fs[n].use_tracing
      BY <1>6, <2>1, <2>2, Zenon
    <2> QED
      BY <2>1, <2>2, <2>3, <2>4
  <1> QED
    BY <1>10, <1>11 DEF f

\* What is pending is fetched, the innermost frame going on at fs.
LEMMA TracedErrors ==
    ASSUME FrameInv, FrameInv', ErrorInv, NEW fs \in Seq(Frame), Len(fs) = Len(frames),
           protected_trace(fs), Evented(fs),
           \A n \in 1..(Len(frames) - 1) : fs[n] = frames[n],
           NEW f, f = frames[Len(frames)], NEW g, g = fs[Len(frames)],
           g.kind = f.kind, g.use_tracing = f.use_tracing, g.cut = f.cut,
           FailingAt(g) <=> FailingAt(f),
           Silent => spoilt \/ ~FailingAt(f)
    PROVE  ErrorInv'
  <1> DEFINE L == Len(frames)
  <1>1. /\ L \in Nat /\ L \in 1..L /\ Top = L /\ cframe \in 0..L /\ exc \in Exception
        /\ frames \in Seq(Frame)
        /\ \A n \in 1..L : n # L => n \in 1..(L - 1)
    BY Lengths
  <1>2. PendingInv /\ QuietInv /\ spoilt' = spoilt
    BY DEF ErrorInv, protected_trace
  <1>3. \A n \in 1..L : /\ fs[n].kind = frames[n].kind /\ fs[n].cut = frames[n].cut
                        /\ fs[n].use_tracing = frames[n].use_tracing
    BY <1>1
  <1>4. CASE Silent
    <2>1. exc' = "none" /\ frames' = fs /\ UNCHANGED <<tracefunc, hookFailed>>
      BY <1>4 DEF protected_trace
    <2>2. PendingInv'
      <3>1. KeepsError(frames[Len(frames)], exc)'
        BY <1>1, <1>2, <1>4, <2>1 DEF KeepsError
      <3> QED
        BY <1>1, <1>2, <1>3, <2>1, <3>1, PendingStays
    <2>3. QuietInv'
      BY <1>2, <1>3, <2>1, QuietSame
    <2>4. EventInv'
      BY <2>1 DEF EventInv, Evented
    <2> QED
      BY <2>2, <2>3, <2>4 DEF ErrorInv
  <1>7. CASE ~Silent /\ depth + 1 > Room(limit) /\ Normalising
    <2>1. UNCHANGED <<frames, exc, tracefunc, spoilt, hookFailed>>
      BY <1>2, <1>7 DEF protected_trace, Dies
    <2> QED
      BY <2>1, SameErrors
  <1>5. CASE ~Silent /\ depth + 1 > Room(limit) /\ ~Normalising
    <2>1. /\ tracefunc' = FALSE /\ hookFailed' = TRUE /\ exc' = "error"
          /\ frames' = Unsettled(WithFlag(fs, cframe, FALSE)) /\ tracing' = tracing
      BY <1>5 DEF protected_trace, HookFails
    <2> DEFINE gs == WithFlag(fs, cframe, FALSE)
    <2>2. /\ gs \in Seq(Frame) /\ Len(gs) = L
          /\ \A m \in 1..L : Untouched(fs[m], gs[m])
      BY <1>1, FlagEffect
    <2> HIDE DEF gs
    <2>3. /\ Len(frames') = L
          /\ \A m \in 1..L : Untouched(gs[m], frames'[m]) /\ frames'[m].reported = FALSE
      <3>1. frames' = Unsettled(gs)
        BY <2>1 DEF gs
      <3> QED
        BY <2>2, <3>1, UnsettledEffect
    <2>4. \A m \in 1..L : Untouched(fs[m], frames'[m])
      BY <2>2, <2>3, UntouchedTrans
    <2>5. PendingInv'
      <3>1. KeepsError(frames[Len(frames)], exc)'
        BY <2>1 DEF KeepsError
      <3>2. \A n \in 1..L : frames'[n].kind = frames[n].kind
        BY <1>3, <2>4 DEF Untouched
      <3>3. \A n \in 1..(L - 1) : /\ frames'[n].pc = frames[n].pc
                                  /\ frames'[n].result = frames[n].result
                                  /\ frames'[n].saved = frames[n].saved
        <4>1. \A n \in 1..(L - 1) : n \in 1..L /\ fs[n] = frames[n]
          BY <1>1
        <4> QED
          BY <2>4, <4>1 DEF Untouched
      <3>4. (spoilt => spoilt') /\ (hookFailed => hookFailed')
        BY <1>2, <2>1, Zenon
      <3> QED
        BY <1>1, <1>2, <2>3, <3>1, <3>2, <3>3, <3>4, PendingStays
    <2>6. QuietInv'
      <3>1. tracing' = 0
        BY <1>5, <2>1 DEF Silent, FrameInv, Hooked
      <3> QED
        BY <3>1, QuietOutside
    <2>7. EventInv'
      <3>1. \A n \in 1..Len(frames') : ~frames'[n].reported
        BY <2>3
      <3> QED
        BY <3>1, EventUnsettled
    <2> QED
      BY <2>5, <2>6, <2>7 DEF ErrorInv
  <1>6. CASE ~Silent /\ ~(depth + 1 > Room(limit))
    <2>1. /\ exc' = "none" /\ UNCHANGED <<tracefunc, hookFailed>>
          /\ frames' = Hooking(fs)
      BY <1>6 DEF protected_trace, Hooking
    <2>2. PICK h : h = frames'[L + 1]
      OBVIOUS
    <2>3. PICK c : c = frames'[L]
      OBVIOUS
    <2>4. /\ Len(frames') = L + 1
          /\ \A n \in 1..L :
                 /\ frames'[n].kind = fs[n].kind /\ frames'[n].traced = fs[n].traced
                 /\ frames'[n].previous = fs[n].previous /\ frames'[n].pc = fs[n].pc
                 /\ frames'[n].result = fs[n].result /\ frames'[n].cut = fs[n].cut
                 /\ frames'[n].reported = fs[n].reported
          /\ \A n \in 1..L : /\ n = L => frames'[n].saved = exc
                             /\ n # L => frames'[n].saved = fs[n].saved
          /\ \A n \in 1..L : /\ frames'[n].use_tracing => fs[n].use_tracing
                             /\ n # cframe => frames'[n].use_tracing = fs[n].use_tracing
          /\ h = [Base EXCEPT !.kind = "hook", !.previous = cframe]
      <3>1. PICK hs : hs = frames'
        OBVIOUS
      <3>2. hs = Hooking(fs)
        BY <2>1, <3>1
      <3>3. /\ Len(hs) = L + 1
            /\ \A n \in 1..L :
                   /\ hs[n].kind = fs[n].kind /\ hs[n].traced = fs[n].traced
                   /\ hs[n].previous = fs[n].previous /\ hs[n].pc = fs[n].pc
                   /\ hs[n].result = fs[n].result /\ hs[n].cut = fs[n].cut
                   /\ hs[n].reported = fs[n].reported
            /\ \A n \in 1..L : /\ n = L => hs[n].saved = exc
                               /\ n # L => hs[n].saved = fs[n].saved
            /\ \A n \in 1..L : /\ hs[n].use_tracing => fs[n].use_tracing
                               /\ n # cframe => hs[n].use_tracing = fs[n].use_tracing
            /\ hs[L + 1] = [Base EXCEPT !.kind = "hook", !.previous = cframe]
        BY <3>2, HookEffect
      <3> QED
        BY <2>2, <3>1, <3>3
    <2>5. /\ h.kind = "hook" /\ h.previous = cframe /\ h.pc = "body" /\ ~h.cut
          /\ ~h.reported /\ ~h.use_tracing
      BY <2>4 DEF Base
    <2>6. tracing = 0 /\ (cframe = L \/ cframe = 0)
      BY <1>6 DEF Silent, FrameInv, Hooked
    <2>7. Len(frames') = L + 1 /\ \A n \in 1..L : frames'[n].kind = frames[n].kind
      BY <1>3, <2>4
    <2>8. \A n \in 1..(L - 1) : n \in 1..L /\ n # L /\ n # cframe /\ fs[n] = frames[n]
      BY <1>1, <2>6
    <2>9. PendingInv'
      <3>1. KeepsError(h, exc)'
        BY <2>1, <2>5 DEF KeepsError, FailingAt
      <3>2. KeepsError(c, c.saved)'
        <4>1. FailingAt(c) <=> FailingAt(f)
          BY <1>1, <2>3, <2>4 DEF FailingAt
        <4>2. c.saved = exc
          BY <1>1, <2>3, <2>4
        <4>3. /\ ~spoilt /\ FailingAt(f) => exc # "none"
              /\ ~hookFailed /\ ~FailingAt(f) => exc = "none"
          BY <1>1, TopKeeps
        <4> QED
          BY <1>2, <2>1, <4>1, <4>2, <4>3 DEF KeepsError, FailingAt
      <3>3. \A n \in 1..(L - 1) : /\ frames'[n].pc = frames[n].pc
                                  /\ frames'[n].result = frames[n].result
                                  /\ frames'[n].saved = frames[n].saved
        BY <2>4, <2>8
      <3>4. spoilt' = spoilt /\ hookFailed' = hookFailed /\ PendingInv
        BY <1>2, <2>1
      <3> QED
        BY <2>2, <2>3, <2>7, <3>1, <3>2, <3>3, <3>4, PendingPushed
    <2>10. QuietInv'
      <3>1. \A n \in 1..L : /\ frames'[n].kind = frames[n].kind
                            /\ frames'[n].use_tracing => frames[n].use_tracing
                            /\ frames'[n].cut => frames[n].cut
        BY <1>3, <2>4
      <3> QED
        BY <1>2, <2>2, <2>5, <2>6, <2>7, <3>1, QuietPushed
    <2>11. EventInv'
      <3>1. \A n \in 1..(L - 1) : frames'[n].use_tracing = fs[n].use_tracing
        BY <2>4, <2>8
      <3>2. h.previous = L \/ c.use_tracing = fs[L].use_tracing
        BY <1>1, <2>3, <2>4, <2>5, <2>6
      <3>3. tracefunc' = tracefunc
        BY <2>1
      <3>4. \A n \in 1..L :
                /\ frames'[n].kind = fs[n].kind /\ frames'[n].previous = fs[n].previous
                /\ frames'[n].traced = fs[n].traced /\ frames'[n].pc = fs[n].pc
                /\ frames'[n].reported = fs[n].reported
        BY <2>4
      <3>5. \A n \in 1..L : fs[n].kind = frames[n].kind
        BY <1>3
      <3> QED
        BY <2>2, <2>3, <2>5, <2>6, <2>7, <3>1, <3>2, <3>3, <3>4, <3>5, EventPushed
    <2> QED
      BY <2>9, <2>10, <2>11 DEF ErrorInv
  <1> QED
    BY <1>4, <1>5, <1>6, <1>7

\* A hook does nothing, and the innermost frame goes on at fs.
LEMMA PassedErrors ==
    ASSUME FrameInv, ErrorInv, NEW fs \in Seq(Frame), Len(fs) = Len(frames),
           Passed(fs), Evented(fs),
           \A n \in 1..(Len(frames) - 1) : fs[n] = frames[n],
           NEW f, f = frames[Len(frames)], NEW g, g = fs[Len(frames)],
           g.kind = f.kind, g.use_tracing = f.use_tracing, g.cut = f.cut,
           FailingAt(g) <=> FailingAt(f)
    PROVE  ErrorInv'
  <1> DEFINE L == Len(frames)
  <1>1. /\ L \in Nat /\ L \in 1..L /\ Top = L
        /\ \A n \in 1..L : n # L => n \in 1..(L - 1)
    BY Lengths
  <1>2. /\ PendingInv /\ QuietInv
        /\ frames' = fs /\ UNCHANGED <<tracefunc, exc, hookFailed, spoilt>>
    BY DEF ErrorInv, Passed
  <1>3. \A n \in 1..L : /\ fs[n].kind = frames[n].kind /\ fs[n].cut = frames[n].cut
                        /\ fs[n].use_tracing = frames[n].use_tracing
    BY <1>1
  <1>4. PendingInv'
    <2>1. KeepsError(frames[Len(frames)], exc)'
      <3>1. /\ ~spoilt /\ FailingAt(f) => exc # "none"
            /\ ~hookFailed /\ ~FailingAt(f) => exc = "none"
        BY <1>1, TopKeeps
      <3> QED
        BY <1>1, <1>2, <3>1 DEF KeepsError
    <2>2. Len(frames') = L
      BY <1>2
    <2>3. \A n \in 1..(L - 1) : frames'[n] = frames[n]
      BY <1>2
    <2>4. (spoilt => spoilt') /\ (hookFailed => hookFailed')
      BY <1>2, Zenon
    <2> QED
      BY <1>1, <1>2, <1>3, <2>1, <2>2, <2>3, <2>4, PendingStays
  <1>5. QuietInv'
    BY <1>2, <1>3, QuietSame
  <1>6. EventInv'
    BY <1>2 DEF EventInv, Evented
  <1> QED
    BY <1>4, <1>5, <1>6 DEF ErrorInv

\* A call that was reported, and not switched from, is reported to end.
LEMMA LiveReports ==
    ASSUME FrameInv, EventInv, frames[Top].reported
    PROVE  Reports /\ tracing = 0 /\ frames[Top].pc # "left"
  <1> DEFINE L == Len(frames)
  <1>1. L \in Nat /\ L \in 1..L /\ Top = L
    BY Lengths
  <1>2. tracefunc /\ frames[L].traced /\ frames[L].pc # "left"
    BY <1>1 DEF EventInv, Evented
  <1>3. frames[L].use_tracing
    <2>1. Nested(frames, L, L)
      BY <1>1 DEF Nested
    <2>2. On(frames, L)
      BY <1>1, <2>1 DEF EventInv, Evented
    <2> QED
      BY <1>1, <2>2 DEF On
  <1>4. tracing = 0
    <2> SUFFICES ASSUME tracing # 0 PROVE FALSE
      OBVIOUS
    <2>1. PICK h \in 1..L : frames[h].kind = "hook"
      BY DEF FrameInv, Hooked
    <2>2. ~frames[L].reported
      BY <1>1, <2>1 DEF EventInv, Evented
    <2> QED
      BY <1>1, <2>2
  <1> QED
    BY <1>1, <1>2, <1>3, <1>4 DEF Reports

\* Inside of a trace function the hooks at an error have nothing to lose.
LEMMA ReportsNotSilent ==
    ASSUME FrameInv, QuietInv, Reports, Silent PROVE spoilt
  <1> DEFINE L == Len(frames)
  <1>1. L \in Nat /\ L \in 1..L /\ Top = L
    BY Lengths
  <1>2. PICK h \in 1..L : frames[h].kind = "hook"
    BY DEF Reports, Silent, FrameInv, Hooked
  <1>3. h <= L /\ frames[L].use_tracing
    BY <1>1 DEF Reports
  <1> QED
    BY <1>1, <1>2, <1>3 DEF QuietInv

\* The innermost frame, told of its call or of its end, at its new place.
ToldAt(call, pc) == [Told(call) EXCEPT ![Top].pc = pc]

LEMMA ToldEffect ==
    ASSUME FrameInv, NEW call \in BOOLEAN, NEW pc \in {"body", "left"},
           NEW fs, fs = ToldAt(call, pc)
    PROVE  /\ fs \in Seq(Frame) /\ Len(fs) = Len(frames)
           /\ \A n \in 1..(Len(frames) - 1) : fs[n] = frames[n]
           /\ LET f == frames[Len(frames)]
                  g == fs[Len(frames)]
              IN  /\ g.kind = f.kind /\ g.traced = f.traced /\ g.use_tracing = f.use_tracing
                  /\ g.previous = f.previous /\ g.result = f.result /\ g.cut = f.cut /\ g.pc = pc
                  /\ g.reported = (IF Reports /\ tracing = 0 THEN call ELSE f.reported)
  <1> DEFINE L == Len(frames)
             f == frames[L]
             r == IF Reports /\ tracing = 0 THEN call ELSE f.reported
             e == [f EXCEPT !.reported = r]
             g == [e EXCEPT !.pc = pc]
  <1>1. /\ frames \in Seq(Frame) /\ L \in Nat /\ L \in 1..L /\ Top = L /\ f \in Frame
        /\ \A n \in 1..(L - 1) : n \in 1..L /\ n # L
    BY Lengths
  <1>2. r \in BOOLEAN /\ pc \in Plain \cup {"exit", "left"}
    BY <1>1 DEF Frame, Plain
  <1> HIDE DEF r
  <1>3. e \in Frame
    BY <1>1, <1>2, Updates
  <1>4. /\ e.kind = f.kind /\ e.traced = f.traced /\ e.use_tracing = f.use_tracing
        /\ e.previous = f.previous /\ e.result = f.result /\ e.cut = f.cut
        /\ e.reported = r
    BY <1>1 DEF Frame
  <1>5. Told(call) = [frames EXCEPT ![L] = e]
    BY <1>1 DEF Told, r
  <1> HIDE DEF e
  <1>6. g \in Frame
    BY <1>2, <1>3, Updates
  <1>7. /\ g.kind = e.kind /\ g.traced = e.traced /\ g.use_tracing = e.use_tracing
        /\ g.previous = e.previous /\ g.result = e.result /\ g.cut = e.cut
        /\ g.reported = e.reported /\ g.pc = pc
    BY <1>3 DEF Frame
  <1>8. ToldAt(call, pc) = [frames EXCEPT ![L] = g]
    BY <1>1, <1>3, <1>5 DEF ToldAt
  <1> HIDE DEF g
  <1>9. fs \in Seq(Frame) /\ Len(fs) = L /\ fs[L] = g /\ \A n \in 1..(L - 1) : fs[n] = frames[n]
    BY <1>1, <1>6, <1>8
  <1> QED
    BY <1>4, <1>7, <1>9 DEF r

LEMMA EntryErrors == ASSUME FrameInv, FrameInv', ErrorInv, TraceFrameEntry PROVE ErrorInv'
  <1> DEFINE L == Len(frames)
             f == frames[L]
             fs == ToldAt(TRUE, "body")
             g == fs[L]
  <1>1. /\ frames[L].pc = "entry" /\ L \in 1..L /\ Top = L
        /\ IF Reports THEN protected_trace(fs) ELSE Passed(fs)
    BY Lengths DEF TraceFrameEntry, Running, ToldAt
  <1>2. /\ fs \in Seq(Frame) /\ Len(fs) = L /\ \A n \in 1..(L - 1) : fs[n] = frames[n]
        /\ g.kind = f.kind /\ g.traced = f.traced /\ g.use_tracing = f.use_tracing
        /\ g.previous = f.previous /\ g.cut = f.cut /\ g.pc = "body"
        /\ g.reported = (IF Reports /\ tracing = 0 THEN TRUE ELSE f.reported)
    BY ToldEffect
  <1> HIDE DEF fs
  <1>3. ~FailingAt(g) /\ ~FailingAt(f)
    BY <1>1, <1>2 DEF FailingAt
  <1>4. Evented(fs)
    <2>1. EventInv /\ ~f.reported
      BY <1>1 DEF ErrorInv, EventInv, Evented
    <2>2. g.reported => tracefunc /\ g.traced /\ g.use_tracing /\ g.pc # "left"
      BY <1>1, <1>2, <2>1 DEF Reports
    <2>3. /\ g.pc = "entry" => ~g.reported
          /\ g.reported = f.reported \/ tracing = 0
      BY <1>2
    <2> QED
      BY <1>2, <2>1, <2>2, <2>3, EventTop
  <1>5. CASE Reports
    BY <1>1, <1>2, <1>3, <1>4, <1>5, TracedErrors
  <1>6. CASE ~Reports
    BY <1>1, <1>2, <1>3, <1>4, <1>6, PassedErrors
  <1> QED
    BY <1>5, <1>6

LEMMA ExitHookErrors == ASSUME FrameInv, FrameInv', ErrorInv, TraceFrameExit PROVE ErrorInv'
  <1> DEFINE L == Len(frames)
             f == frames[L]
             fs == ToldAt(FALSE, "left")
             g == fs[L]
  <1>1. /\ frames[L].pc = "exit" /\ L \in 1..L /\ Top = L
        /\ IF Reports THEN protected_trace(fs) ELSE Passed(fs)
    BY Lengths DEF TraceFrameExit, Running, ToldAt
  <1>2. /\ fs \in Seq(Frame) /\ Len(fs) = L /\ \A n \in 1..(L - 1) : fs[n] = frames[n]
        /\ g.kind = f.kind /\ g.traced = f.traced /\ g.use_tracing = f.use_tracing
        /\ g.previous = f.previous /\ g.cut = f.cut /\ g.pc = "left" /\ g.result = f.result
        /\ g.reported = (IF Reports /\ tracing = 0 THEN FALSE ELSE f.reported)
    BY ToldEffect
  <1> HIDE DEF fs
  <1>3. EventInv /\ QuietInv
    BY DEF ErrorInv
  <1>4. FailingAt(g) <=> FailingAt(f)
    BY <1>1, <1>2 DEF FailingAt
  <1>5. Evented(fs)
    <2>1. ~g.reported
      <3> SUFFICES ASSUME g.reported PROVE FALSE
        OBVIOUS
      <3>1. ~(Reports /\ tracing = 0) /\ frames[Top].reported
        BY <1>1, <1>2
      <3> QED
        BY <1>3, <3>1, LiveReports
    <2>2. /\ g.pc # "entry"
          /\ g.reported = f.reported \/ tracing = 0
      BY <1>2
    <2> QED
      BY <1>2, <1>3, <2>1, <2>2, EventTop
  <1>6. CASE Reports
    <2>1. Silent => spoilt \/ ~FailingAt(f)
      BY <1>3, <1>6, ReportsNotSilent
    <2> QED
      BY <1>1, <1>2, <1>4, <1>5, <1>6, <2>1, TracedErrors
  <1>7. CASE ~Reports
    BY <1>1, <1>2, <1>4, <1>5, <1>7, PassedErrors
  <1> QED
    BY <1>6, <1>7

LEMMA ExceptionErrors ==
    ASSUME FrameInv, FrameInv', ErrorInv, TraceFrameException PROVE ErrorInv'
  <1> DEFINE L == Len(frames)
             f == frames[L]
             fs == [frames EXCEPT ![Top].pc = "raised"]
             g == fs[L]
  <1>1. /\ frames[L].pc = "failed" /\ L \in 1..L /\ Top = L
        /\ frames \in Seq(Frame) /\ f \in Frame
        /\ IF Reports
           THEN \/ protected_trace(fs)
                \/ Overflows /\ UNCHANGED <<hooks, limit, tracefunc, tracing, hookFailed, spoilt>>
           ELSE Passed(fs)
    BY Lengths DEF TraceFrameException, Running
  <1>2. /\ fs \in Seq(Frame) /\ Len(fs) = L /\ g = [f EXCEPT !.pc = "raised"]
        /\ \A n \in 1..(L - 1) : fs[n] = frames[n]
    <2>1. "raised" \in Plain \cup {"exit", "left"}
      BY DEF Plain
    <2>2. \A n \in 1..(L - 1) : n \in 1..L /\ n # L
      BY <1>1
    <2> QED
      BY <1>1, <2>1, <2>2, PlaceEffect
  <1>3. /\ g.kind = f.kind /\ g.traced = f.traced /\ g.use_tracing = f.use_tracing
        /\ g.previous = f.previous /\ g.cut = f.cut /\ g.pc = "raised"
        /\ g.reported = f.reported
    BY <1>1, <1>2 DEF Frame
  <1> HIDE DEF fs
  <1>4. FailingAt(g) <=> FailingAt(f)
    BY <1>1, <1>3 DEF FailingAt
  <1>5. EventInv /\ QuietInv
    BY DEF ErrorInv
  <1>6. Evented(fs)
    <2>1. g.reported => tracefunc /\ g.traced /\ g.use_tracing /\ g.pc # "left"
      <3>1. g.reported => frames[Top].reported
        BY <1>1, <1>3
      <3> QED
        BY <1>1, <1>3, <1>5, <3>1, LiveReports DEF Reports
    <2>2. /\ g.pc # "entry"
          /\ g.reported = f.reported \/ tracing = 0
      BY <1>3
    <2> QED
      BY <1>2, <1>3, <1>5, <2>1, <2>2, EventTop
  <1>7. CASE Reports /\ protected_trace(fs)
    <2>1. Silent => spoilt \/ ~FailingAt(f)
      BY <1>5, <1>7, ReportsNotSilent
    <2> QED
      BY <1>1, <1>2, <1>3, <1>4, <1>6, <1>7, <2>1, TracedErrors
  <1>8. CASE Overflows /\ UNCHANGED <<hooks, limit, tracefunc, tracing, hookFailed, spoilt>>
    BY <1>8, SameErrors DEF Overflows, Dies
  <1>9. CASE ~Reports
    BY <1>1, <1>2, <1>3, <1>4, <1>6, <1>9, PassedErrors
  <1> QED
    BY <1>1, <1>7, <1>8, <1>9

LEMMA LineErrors == ASSUME FrameInv, FrameInv', ErrorInv, TraceLine PROVE ErrorInv'
  <1>1. /\ frames \in Seq(Frame) /\ Top = Len(frames) /\ frames[Len(frames)].pc = "body"
        /\ protected_trace(frames)
    BY Lengths DEF TraceLine, Running
  <1>2. ~FailingAt(frames[Len(frames)]) /\ Evented(frames)
    BY <1>1 DEF FailingAt, ErrorInv, EventInv
  <1> QED
    BY <1>1, <1>2, TracedErrors

\* Tracing is switched: inside of a trace function that is an exemption.
LEMMA SetTraceErrors ==
    ASSUME FrameInv, FrameInv', ErrorInv, NEW on \in BOOLEAN, SetTrace(on) PROVE ErrorInv'
  <1> DEFINE L == Len(frames)
             gs == WithFlag(frames, cframe, on)
  <1>1. /\ frames \in Seq(Frame) /\ L \in Nat /\ L \in 1..L /\ Top = L /\ cframe \in 0..L
        /\ \A n \in 1..(L - 1) : n \in 1..L
    BY Lengths
  <1>2. /\ frames' = Unsettled(gs) /\ spoilt' = (spoilt \/ tracing > 0)
        /\ frames[L].pc = "body" /\ UNCHANGED <<tracing, exc, hookFailed>>
    BY <1>1 DEF SetTrace, Running
  <1>3. gs \in Seq(Frame) /\ Len(gs) = L /\ \A m \in 1..L : Untouched(frames[m], gs[m])
    BY <1>1, FlagEffect
  <1> HIDE DEF gs
  <1>4. /\ Len(frames') = L
        /\ \A m \in 1..L : Untouched(frames[m], frames'[m]) /\ ~frames'[m].reported
    <2>1. /\ Len(frames') = L
          /\ \A m \in 1..L : Untouched(gs[m], frames'[m]) /\ frames'[m].reported = FALSE
      BY <1>2, <1>3, UnsettledEffect
    <2> QED
      BY <1>3, <2>1, UntouchedTrans
  <1>5. PendingInv /\ EventInv /\ (spoilt => spoilt') /\ (hookFailed => hookFailed')
    BY <1>2, Zenon DEF ErrorInv
  <1>6. PendingInv'
    <2>1. KeepsError(frames[Len(frames)], exc)'
      <3>1. ~hookFailed => exc = "none"
        <4>1. ~FailingAt(frames[Top])
          BY <1>1, <1>2 DEF FailingAt
        <4> QED
          BY <4>1, TopKeeps
      <3>2. frames'[L].pc = "body"
        BY <1>1, <1>2, <1>4 DEF Untouched
      <3> QED
        BY <1>2, <1>4, <3>1, <3>2 DEF KeepsError, FailingAt
    <2>2. \A n \in 1..L : /\ frames'[n].kind = frames[n].kind
                          /\ frames'[n].pc = frames[n].pc
                          /\ frames'[n].result = frames[n].result
                          /\ frames'[n].saved = frames[n].saved
      BY <1>4 DEF Untouched
    <2> QED
      BY <1>1, <1>4, <1>5, <2>1, <2>2, PendingStays
  <1>7. QuietInv'
    <2>1. tracing \in {0, 1}
      BY DEF FrameInv, Hooked
    <2>2. CASE tracing = 0
      BY <1>2, <2>2, QuietOutside
    <2>3. CASE tracing = 1
      <3>1. tracing > 0
        BY <2>3
      <3>2. spoilt'
        BY <1>2, <3>1, Zenon
      <3> QED
        BY <3>2 DEF QuietInv
    <2> QED
      BY <2>1, <2>2, <2>3
  <1>8. EventInv'
    <2>1. \A n \in 1..Len(frames') : ~frames'[n].reported
      BY <1>4
    <2> QED
      BY <2>1, EventUnsettled
  <1> QED
    BY <1>6, <1>7, <1>8 DEF ErrorInv

LEMMA ErrorInit == ASSUME Init PROVE ErrorInv
  <1>1. /\ frames = <<Base>> /\ exc = "none" /\ Base.kind = "base" /\ Base.pc = "body"
        /\ ~Base.reported
    BY DEF Init, Base
  <1>2. Len(frames) = 1 /\ frames[1] = Base
    BY <1>1
  <1>3. PendingInv
    BY <1>1, <1>2 DEF PendingInv, KeepsError, FailingAt
  <1>4. QuietInv
    BY <1>1, <1>2 DEF QuietInv
  <1>5. EventInv
    BY <1>1, <1>2 DEF EventInv, Evented
  <1> QED
    BY <1>3, <1>4, <1>5 DEF ErrorInv

LEMMA ErrorStep == ASSUME FrameInv, FrameInv', ErrorInv, [Next]_vars PROVE ErrorInv'
  <1>1. ASSUME NEW c \in Code, Call(c) PROVE ErrorInv'
    BY <1>1, CallErrors
  <1>2. ASSUME NEW c \in Uncompiled, CallInterpreted(c) PROVE ErrorInv'
    BY <1>2, CallInterpretedErrors
  <1>3. CASE Raise
    BY <1>3, FailsErrors DEF Raise
  <1>4. ASSUME NEW n \in Limits, SetLimit(n) PROVE ErrorInv'
    BY <1>4, SameErrors DEF SetLimit
  <1>5. CASE UNCHANGED vars
    BY <1>5, SameErrors DEF vars
  <1>6. CASE \/ CallC \/ Catch \/ Renormalise \/ Normalised \/ Exit \/ Leave \/ Throw
             \/ TraceFrameEntry \/ TraceFrameExit \/ TraceFrameException \/ TraceLine
    BY <1>6, CallCErrors, CatchErrors, RenormaliseErrors, NormalisedErrors, ExitErrors, LeaveErrors,
       ThrowErrors, EntryErrors, ExitHookErrors, ExceptionErrors, LineErrors
  <1>7. CASE \E fails \in BOOLEAN : HookEnds(fails)
    BY <1>7, HookEndsErrors
  <1>8. CASE \E on \in BOOLEAN : SetTrace(on)
    BY <1>8, SetTraceErrors
  <1> QED
    BY <1>1, <1>2, <1>3, <1>4, <1>5, <1>6, <1>7, <1>8 DEF Next

-----------------------------------------------------------------------------
(* The invariants *)

LEMMA InitInv == ASSUME Init PROVE FrameInv
  <1>1. Base \in Frame
    BY DEF Base, Frame, Exception
  <1>2. frames = <<Base>> /\ tracing = 0 /\ cframe = 1 /\ depth = 1
    BY DEF Init
  <1>3. Chained(frames)
    BY <1>1, <1>2 DEF Chained, Linked, Base, Plain
  <1>4. Hooked(frames, tracing)
    BY <1>2 DEF Hooked, Base
  <1>5. OthersTypeOK
    BY LimitAssumption DEF Init, OthersTypeOK, Exception
  <1> QED
    BY <1>2, <1>3, <1>4, <1>5 DEF FrameInv

LEMMA StepInv == ASSUME FrameInv, [Next]_vars PROVE FrameInv' /\ Nests
  <1>1. ASSUME NEW c \in Code, Call(c) PROVE FrameInv' /\ Nests
    BY <1>1, CallInv
  <1>2. ASSUME NEW c \in Uncompiled, CallInterpreted(c) PROVE FrameInv' /\ Nests
    BY <1>2, CallInterpretedInv
  <1>3. CASE Raise
    <2>1. Alike(frames, frames') /\ exc' \in Exception
      BY <1>3, FailsAlike DEF Raise
    <2>2. OthersTypeOK'
      BY <1>3, <2>1 DEF Raise, FrameInv, OthersTypeOK
    <2> QED
      BY <1>3, <2>1, <2>2, AlikeInv DEF Raise
  <1>4. ASSUME NEW n \in Limits, SetLimit(n) PROVE FrameInv' /\ Nests
    <2>1. Alike(frames, frames')
      BY <1>4, AlikeSelf DEF SetLimit, FrameInv
    <2>2. OthersTypeOK'
      BY <1>4, LimitAssumption DEF SetLimit, FrameInv, OthersTypeOK
    <2> QED
      BY <1>4, <2>1, <2>2, AlikeInv DEF SetLimit
  <1>5. CASE UNCHANGED vars
    <2>1. Alike(frames, frames')
      BY <1>5, AlikeSelf DEF vars, FrameInv
    <2>2. OthersTypeOK'
      BY <1>5 DEF vars, FrameInv, OthersTypeOK
    <2> QED
      BY <1>5, <2>1, <2>2, AlikeInv DEF vars
  <1>6. CASE \/ CallC \/ Catch \/ Renormalise \/ Normalised \/ Exit \/ Leave \/ Throw
             \/ TraceFrameEntry \/ TraceFrameExit \/ TraceFrameException \/ TraceLine
    BY <1>6, CallCInv, CatchInv, RenormaliseInv, NormalisedInv, ExitInv, LeaveInv, ThrowInv,
       EntryInv, ExitHookInv, ExceptionInv, LineInv
  <1>7. CASE \E fails \in BOOLEAN : HookEnds(fails)
    BY <1>7, HookEndsInv
  <1>8. CASE \E on \in BOOLEAN : SetTrace(on)
    BY <1>8, SetTraceInv
  <1> QED
    BY <1>1, <1>2, <1>3, <1>4, <1>5, <1>6, <1>7, <1>8 DEF Next

\* What ends the process is a call that exceeds a limit by more than the headroom.
LEMMA FatalStep ==
    ASSUME FrameInv, [Next]_vars
    PROVE  \/ fatal' = fatal
           \/ fatal' > limit + Headroom
           \/ fatal' > JitLimit + Headroom
  <1>1. ASSUME NEW max, CheckRecursiveCall(max)
        PROVE  fatal' = fatal \/ fatal' > limit + Headroom \/ fatal' > max + Headroom
    <2>1. CASE Normalising
      <3>1. depth + 1 > max + Headroom /\ fatal' = depth + 1
        BY <1>1, <2>1, Zenon DEF CheckRecursiveCall, Room, Dies
      <3> QED
        BY <3>1
    <2>2. CASE ~Normalising
      <3>1. fatal' = fatal \/ (depth + 2 > limit + Headroom /\ fatal' = depth + 2)
        BY <1>1, <2>2, Zenon DEF CheckRecursiveCall, Refuse, Formatted
      <3> QED
        BY <3>1
    <2> QED
      BY <2>1, <2>2
  <1>2. ASSUME NEW max, NEW f, EnterRecursiveCall(max, f)
        PROVE  fatal' = fatal \/ fatal' > limit + Headroom \/ fatal' > max + Headroom
    <2>1. fatal' = fatal \/ CheckRecursiveCall(max)
      BY <1>2, Zenon DEF EnterRecursiveCall, Push
    <2> QED
      BY <1>1, <2>1
  <1>3. ASSUME NEW c \in Code, Call(c)
        PROVE  fatal' = fatal \/ fatal' > limit + Headroom \/ fatal' > JitLimit + Headroom
    BY <1>2, <1>3, CallEnters
  <1>4. ASSUME NEW c \in Uncompiled, CallInterpreted(c)
        PROVE  fatal' = fatal \/ fatal' > limit + Headroom
    BY <1>2, <1>4, CallInterpretedEnters
  <1>5. CASE CallC
    BY <1>1, <1>5 DEF CallC
  <1>6. ASSUME Overflows PROVE fatal' > limit + Headroom
    <2>1. depth + 1 > limit + Headroom /\ fatal' = depth + 1
      BY <1>6, Zenon DEF Overflows, Dies
    <2> QED
      BY <2>1
  <1>7. CASE Catch
    <2>1. Overflows \/ fatal' = fatal
      BY <1>7, Zenon DEF Catch, Creates
    <2> QED
      BY <1>6, <2>1
  <1>8. ASSUME NEW fs, protected_trace(fs)
        PROVE  fatal' = fatal \/ fatal' > limit + Headroom
    <2>1. \/ fatal' = fatal
          \/ depth + 1 > limit + Headroom /\ fatal' = depth + 1
          \/ depth + 2 > limit + Headroom /\ fatal' = depth + 2
      BY <1>8, Zenon DEF protected_trace, Room, Dies, Formatted
    <2> QED
      BY <2>1
  <1>9. CASE TraceFrameEntry \/ TraceFrameExit \/ TraceFrameException \/ TraceLine
    <2>1. fatal' = fatal \/ Overflows \/ \E fs : protected_trace(fs)
      BY <1>9, Zenon DEF TraceFrameEntry, TraceFrameExit, TraceFrameException, TraceLine, Passed
    <2> QED
      BY <1>6, <1>8, <2>1
  <1>10. CASE \/ Raise \/ Renormalise \/ Normalised \/ Exit \/ Leave \/ Throw
              \/ (\E fails \in BOOLEAN : HookEnds(fails))
              \/ (\E on \in BOOLEAN : SetTrace(on)) \/ (\E n \in Limits : SetLimit(n))
              \/ UNCHANGED vars
    BY <1>10, Zenon DEF Raise, Renormalise, Normalised, Exit, Leave, Throw, HookEnds, SetTrace,
       SetLimit, vars
  <1> QED
    BY <1>3, <1>4, <1>5, <1>7, <1>9, <1>10 DEF Next

\* Only sys.setrecursionlimit changes the limit, to one above all calls.
LEMMA LimitStep ==
    ASSUME FrameInv, [Next]_vars
    PROVE  \/ limit' = limit
           \/ /\ limit' \in Nat /\ Len(frames) < limit'
              /\ fatal = 0 /\ UNCHANGED <<frames, fatal>>
  <1>1. ASSUME NEW n \in Limits, SetLimit(n)
        PROVE  /\ limit' \in Nat /\ Len(frames) < limit'
               /\ fatal = 0 /\ UNCHANGED <<frames, fatal>>
    BY <1>1, LimitAssumption DEF SetLimit, Running, FrameInv
  <1>2. ASSUME NEW fs, protected_trace(fs) PROVE limit' = limit
    BY <1>2 DEF protected_trace
  <1>3. CASE TraceFrameEntry \/ TraceFrameExit \/ TraceFrameException \/ TraceLine
    BY <1>2, <1>3, Zenon DEF TraceFrameEntry, TraceFrameExit, TraceFrameException, TraceLine, Passed
  <1>4. CASE \/ (\E c \in Code : Call(c)) \/ (\E c \in Uncompiled : CallInterpreted(c))
             \/ CallC \/ Raise \/ Catch \/ Renormalise \/ Normalised \/ Exit \/ Leave \/ Throw
             \/ (\E fails \in BOOLEAN : HookEnds(fails)) \/ (\E on \in BOOLEAN : SetTrace(on))
             \/ UNCHANGED vars
    BY <1>4, Zenon DEF Call, CallInterpreted, CallC, Raise, Catch, Renormalise, Normalised, Exit,
       Leave, Throw, HookEnds, SetTrace, vars
  <1> QED
    BY <1>1, <1>3, <1>4 DEF Next

\* Outside of a normalisation calls have no headroom, and no limit is set below
\* the depth reached.
LEMMA DepthStep == ASSUME FrameInv, DepthInv, [Next]_vars PROVE DepthInv'
  <1>1. /\ frames \in Seq(Frame) /\ Len(frames) \in Nat /\ DOMAIN frames = 1..Len(frames)
        /\ limit \in Nat /\ fatal \in Nat
        /\ JitLimit \in Nat /\ Headroom \in Nat \ {0}
    BY LimitAssumption DEF FrameInv, OthersTypeOK, Chained
  <1>2. FrameInv' /\ \A n \in 1..Len(frames') : n <= Len(frames) => frames'[n].kind = frames[n].kind
    BY StepInv DEF Nests
  <1>3. \/ Len(frames') <= Len(frames)
        \/ /\ Len(frames') = Len(frames) + 1
           /\ \/ frames'[Len(frames')].kind = "init"
              \/ \E max \in {limit, JitLimit} : Len(frames') <= Room(max)
    BY StepInv DEF Nests
  <1>4. /\ frames' \in Seq(Frame) /\ Len(frames') \in Nat /\ DOMAIN frames' = 1..Len(frames')
    BY <1>2 DEF FrameInv, Chained
  <1>5. CASE ~(limit' = limit)
    <2>1. limit' \in Nat /\ Len(frames) < limit' /\ fatal = 0 /\ UNCHANGED <<frames, fatal>>
      BY <1>5, LimitStep
    <2> QED
      BY <1>1, <2>1 DEF DepthInv
  <1>6. CASE limit' = limit
    <2>1. ASSUME NEW n \in 1..Len(frames'), Ordinary(n)' PROVE n <= limit \/ n <= JitLimit
      <3>1. \A m \in 1..n : m <= Len(frames) => frames[m].kind # "init"
        <4>1. \A m \in 1..n : frames'[m].kind # "init" /\ m \in 1..Len(frames')
          BY <1>4, <2>1 DEF Ordinary
        <4> QED
          BY <1>2, <4>1
      <3>2. CASE n <= Len(frames)
        BY <1>1, <1>4, <3>1, <3>2 DEF DepthInv, Ordinary
      <3>3. CASE n > Len(frames)
        <4>1. Len(frames') = Len(frames) + 1 /\ n = Len(frames')
          <5>1. Len(frames') <= Len(frames) \/ Len(frames') = Len(frames) + 1
            BY <1>3, Zenon
          <5>2. Len(frames) \in Nat /\ Len(frames') \in Nat /\ n \in Nat /\ n <= Len(frames')
            BY <1>1, <1>4
          <5> QED
            BY <3>3, <5>1, <5>2
        <4>2. ~Normalising
          BY <1>1, <3>1, <3>3 DEF Normalising
        <4>3. frames'[Len(frames')].kind # "init"
          BY <1>4, <2>1, <4>1 DEF Ordinary
        <4> QED
          BY <1>1, <1>3, <1>4, <4>1, <4>2, <4>3 DEF Room
      <3> QED
        BY <1>1, <1>4, <3>2, <3>3
    <2>2. fatal' > 0 => fatal' > limit + Headroom \/ fatal' > JitLimit + Headroom
      BY FatalStep DEF DepthInv
    <2> QED
      BY <1>6, <2>1, <2>2 DEF DepthInv
  <1> QED
    BY <1>5, <1>6

-----------------------------------------------------------------------------
(* Theorems *)

\* The invariant of which the three below are parts: frames are chained, or cut
\* where a C++ exception went through, and at most one is the trace function's.
THEOREM FramesAreChained == Spec => []FrameInv
  BY InitInv, StepInv, PTL DEF Spec

\* Every variable has its type, however calls nest (pyjit.cpp:174-203).
THEOREM TypeCorrect == Spec => []TypeOK
  <1>1. FrameInv => TypeOK
    BY DEF FrameInv, OthersTypeOK, Chained, Hooked, TypeOK, Top
  <1> QED
    BY <1>1, FramesAreChained, PTL

\* For any number of functions and any limits: the counter is the number of
\* evaluations under way, and the chain of C frames ends at the innermost one
\* unless a C++ exception has cut it (pyjit.cpp:190-203).
THEOREM ChainIsRestored == Spec => []ThreadIsRestored
  <1>1. FrameInv => ThreadIsRestored
    BY DEF FrameInv, ThreadIsRestored, Top
  <1> QED
    BY <1>1, FramesAreChained, PTL

\* However calls nest, the trace function is not called for what happens while
\* it runs (intrins.cpp:2490).
THEOREM HooksAreNotReentered == Spec => []TraceIsNotReentered
  <1>1. FrameInv => TraceIsNotReentered
    <2> SUFFICES ASSUME FrameInv PROVE TraceIsNotReentered
      OBVIOUS
    <2>1. frames \in Seq(Frame) /\ DOMAIN frames = 1..Len(frames) /\ Hooked(frames, tracing)
      BY DEF FrameInv, Chained
    <2> QED
      BY <2>1 DEF Hooked, TraceIsNotReentered
  <1> QED
    BY <1>1, FramesAreChained, PTL

\* However calls, hooks and C++ exceptions are mixed: code neither loses the
\* exception of an operation that has failed nor goes on with one pending
\* (intrins.cpp:2540-2551).
THEOREM ErrorsAreKept == Spec => []PendingWhileFailing
  <1>1. Init => FrameInv /\ ErrorInv
    BY InitInv, ErrorInit
  <1>2. FrameInv /\ ErrorInv /\ [Next]_vars => (FrameInv /\ ErrorInv)'
    BY StepInv, ErrorStep
  <1>3. FrameInv /\ ErrorInv => PendingWhileFailing
    BY TopKeeps DEF PendingWhileFailing, Failing, FailingAt
  <1> QED
    BY <1>1, <1>2, <1>3, PTL DEF Spec

\* A call the trace function was told of is reported to end, whatever it called
\* (absint.cpp:2618).
THEOREM CallsAreReportedToEnd == Spec => []EventsAreBalanced
  <1>1. Init => FrameInv /\ ErrorInv
    BY InitInv, ErrorInit
  <1>2. FrameInv /\ ErrorInv /\ [Next]_vars => (FrameInv /\ ErrorInv)'
    BY StepInv, ErrorStep
  <1>3. FrameInv /\ ErrorInv => EventsAreBalanced
    BY LiveReports DEF EventsAreBalanced, ErrorInv
  <1> QED
    BY <1>1, <1>2, <1>3, PTL DEF Spec

\* For any functions, classes, limits and headroom: what ends the process is a call
\* nested in the normalisation of an exception, further than the headroom less the
\* distance of the two limits (pyjit.cpp:125).
THEOREM ErrorsAreHandled == Spec => []RecursionRecovers
  <1>1. Init => FrameInv /\ DepthInv
    <2> SUFFICES ASSUME Init PROVE FrameInv /\ DepthInv
      OBVIOUS
    <2>1. Len(frames) = 1 /\ fatal = 0 /\ limit = JitLimit
      BY DEF Init
    <2> QED
      BY <2>1, InitInv, LimitAssumption DEF DepthInv
  <1>2. FrameInv /\ DepthInv /\ [Next]_vars => (FrameInv /\ DepthInv)'
    BY StepInv, DepthStep
  <1>3. FrameInv /\ DepthInv => RecursionRecovers
    <2> SUFFICES ASSUME FrameInv, DepthInv, fatal > 0,
                        NEW n \in DOMAIN frames, Ordinary(n)
                 PROVE  fatal - n > Headroom - Apart
      BY DEF RecursionRecovers
    <2>1. /\ n \in 1..Len(frames) /\ Len(frames) \in Nat /\ limit \in Nat /\ fatal \in Nat
          /\ JitLimit \in Nat /\ Headroom \in Nat
      BY LimitAssumption DEF FrameInv, OthersTypeOK, Chained
    <2>2. n <= limit \/ n <= JitLimit
      BY <2>1 DEF DepthInv
    <2>3. fatal > limit + Headroom \/ fatal > JitLimit + Headroom
      BY DEF DepthInv
    <2> QED
      BY <2>1, <2>2, <2>3 DEF Apart
  <1> QED
    BY <1>1, <1>2, <1>3, PTL DEF Spec
=============================================================================
