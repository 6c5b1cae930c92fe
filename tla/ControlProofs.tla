----------------------------- MODULE ControlProofs -----------------------------
(***************************************************************************)
(* Proofs about Control: the frame stack matches the forms that are        *)
(* running, cleanup forms run once, and a handler that returns leaves      *)
(* everything as it was, when handlers are kept out of the landing of a    *)
(* jump.  That bindings are undone takes more: that they are kept out of   *)
(* the middle of bds_bind as well.                                         *)
(***************************************************************************)
EXTENDS Control, StackTheorems

-------------------------------------------------------------------------------
(* The inductive invariant.                                                *)

USE ControlAssumption

\* How far an activation of each kind may be, and what it keeps.
Shape(a) ==
  /\ a.kind = "top" => a.at = "body"
  /\ a.kind = "handler" => a.at = "body" /\ a.saved \in SavedGlobals /\ ~a.saved.nlj.active
  /\ a.kind \in {"catch", "tagbody", "errset"} => a.at \in {"pushed", "body"}
  /\ a.kind = "protect" => a.at \in {"pushed", "body", "cleanup", "recleanup"}
  /\ a.kind = "let" => a.at \in {"top", "slot", "body", "restored"} /\ a.key \in Symbols

Shapes == \A k \in 1 .. Len(code) : Shape(code[k]) /\ (code[k].kind = "top" <=> k = 1)

Stands(jump) ==
  /\ jump.fr \in 1 .. Len(frs)
  /\ \/ frs[jump.fr].class = "FRS_CATCH" /\ frs[jump.fr].tag = jump.tag
     \/ frs[jump.fr].class = "FRS_CATCHALL"

\* During a jump, the form that was jumped to is about to notice it.
Landing == nlj.active => Last(code).at = "pushed"

FrameInv == Shapes /\ FramesMatch /\ TargetStands /\ Landing

-------------------------------------------------------------------------------
(* What steps do to the activations and to the frames.                     *)

Pushes(a) ==
  /\ Len(code') = Len(code) + 1
  /\ code'[Len(code) + 1] = a
  /\ \A k \in 1 .. Len(code) : code'[k] = code[k]

Steps(a) ==
  /\ Len(code') = Len(code)
  /\ code'[Len(code)] = a
  /\ \A k \in 1 .. Len(code) - 1 : code'[k] = code[k]

Pops ==
  /\ Len(code') = Len(code) - 1
  /\ \A k \in 1 .. Len(code) - 1 : code'[k] = code[k]

PopsFrame ==
  /\ Len(frs') = Len(frs) - 1
  /\ \A i \in 1 .. Len(frs) - 1 : frs'[i] = frs[i]

PushesFrame(f) ==
  /\ Len(frs') = Len(frs) + 1
  /\ frs'[Len(frs) + 1] = f
  /\ \A i \in 1 .. Len(frs) : frs'[i] = frs[i]

LEMMA Typed ==
  ASSUME TypeOK
  PROVE  /\ code \in Seq(Activations) /\ Len(code) \in Nat \ {0}
         /\ DOMAIN code = 1 .. Len(code)
         /\ \A k \in 1 .. Len(code) : code[k] \in Activations
         /\ frs \in Seq(Frames) /\ Len(frs) \in Nat
         /\ DOMAIN frs = 1 .. Len(frs)
         /\ \A i \in 1 .. Len(frs) : frs[i] \in Frames
         /\ top = code[Len(code)] /\ top \in Activations
<1>1. code \in Seq(Activations) /\ Len(code) \in Nat \ {0} /\ frs \in Seq(Frames)
  BY DEF TypeOK
<1>2. Last(code) = code[Len(code)]
  BY DEF Last
<1> QED
  BY <1>1, <1>2, LenProperties, ElementOfSeq DEF top

LEMMA CallsPushes ==
  ASSUME TypeOK, NEW a \in Activations, Calls(a)
  PROVE  Pushes(a) /\ code' \in Seq(Activations) /\ Len(code') \in 1 .. MaxCode
<1>1. code' = Append(code, a) /\ Len(code) < MaxCode
  BY DEF Calls
<1>2. Pushes(a) /\ code' \in Seq(Activations)
  BY <1>1, Typed, PushedOn DEF Pushes
<1> QED
  BY <1>1, <1>2, Typed DEF Pushes

LEMMA GoesSteps ==
  ASSUME TypeOK, NEW a \in Activations, Goes(a)
  PROVE  Steps(a) /\ code' \in Seq(Activations) /\ Len(code') \in 1 .. MaxCode
<1>1. code' = Front(code) \o <<a>>
  BY DEF Goes
<1>2. Steps(a) /\ code' \in Seq(Activations)
  <2>1. code \in Seq(Activations) /\ Len(code) # 0
    BY Typed
  <2> DEFINE v == <<a>>
  <2>2. v \in Seq(Activations) /\ Len(v) = 1 /\ v[1] = a
    OBVIOUS
  <2>3. code' = Front(code) \o v
    BY <1>1
  <2> HIDE DEF v
  <2>4. /\ Front(code) \o v \in Seq(Activations)
        /\ Len(Front(code) \o v) = Len(code)
        /\ (Front(code) \o v)[Len(code)] = v[1]
        /\ \A i \in 1 .. Len(code) - 1 : (Front(code) \o v)[i] = code[i]
    BY <2>1, <2>2, Replaced
  <2> QED
    BY <2>2, <2>3, <2>4 DEF Steps
<1> QED
  BY <1>2, Typed DEF Steps, TypeOK

LEMMA FrontPops ==
  ASSUME TypeOK, Shapes, top.kind # "top", code' = Front(code)
  PROVE  Pops /\ code' \in Seq(Activations) /\ Len(code') \in 1 .. MaxCode
<1>1. Len(code) # 1
  BY Typed DEF Shapes
<1>2. Pops /\ code' \in Seq(Activations)
  BY Typed, FrontAndLast DEF Pops
<1> QED
  BY <1>1, <1>2, Typed DEF Pops, TypeOK

LEMMA FramesIs ==
  ASSUME TypeOK
  PROVE  FramesMatch <=>
           /\ \A i \in 1 .. Len(frs) :
                /\ frs[i].jmpbuf \in 1 .. Len(code)
                /\ Framed(code[frs[i].jmpbuf])
                /\ frs[i].class = Class(code[frs[i].jmpbuf].kind)
                /\ frs[i].tag = code[frs[i].jmpbuf].key
                /\ \A j \in 1 .. i - 1 : frs[j].jmpbuf < frs[i].jmpbuf
           /\ \A k \in 1 .. Len(code) :
                Framed(code[k]) => \E i \in 1 .. Len(frs) : frs[i].jmpbuf = k
<1>1. DOMAIN code = 1 .. Len(code) /\ DOMAIN frs = 1 .. Len(frs)
  BY Typed
<1> QED
  BY <1>1 DEF FramesMatch

LEMMA TopFrame ==
  ASSUME TypeOK, FramesMatch, Framed(top)
  PROVE  /\ Len(frs) # 0 /\ frs[Len(frs)].jmpbuf = Len(code)
         /\ frs[Len(frs)].class = Class(top.kind)
         /\ \A i \in 1 .. Len(frs) - 1 : frs[i].jmpbuf < Len(code)
<1>1. PICK i \in 1 .. Len(frs) : frs[i].jmpbuf = Len(code)
  BY Typed, FramesIs
<1>2. Len(frs) \in 1 .. Len(frs) /\ Len(code) \in Nat
  BY <1>1, Typed
<1>3. frs[Len(frs)].jmpbuf \in 1 .. Len(code)
  BY <1>2, FramesIs
<1>4. i < Len(frs) => frs[i].jmpbuf < frs[Len(frs)].jmpbuf
  BY <1>2, FramesIs
<1>5. i = Len(frs)
  BY <1>1, <1>2, <1>3, <1>4
<1>6. frs[Len(frs)].class = Class(top.kind)
  BY <1>1, <1>2, <1>5, FramesIs, Typed
<1>7. \A j \in 1 .. Len(frs) - 1 : frs[j].jmpbuf < Len(code)
  BY <1>1, <1>2, <1>5, FramesIs
<1> QED
  BY <1>1, <1>2, <1>5, <1>6, <1>7

LEMMA FrontPopsFrame ==
  ASSUME TypeOK, FramesMatch, Framed(top), frs' = Front(frs)
  PROVE  PopsFrame /\ frs' \in Seq(Frames)
BY Typed, TopFrame, FrontAndLast DEF PopsFrame

LEMMA NoTopFrame ==
  ASSUME TypeOK, FramesMatch, ~Framed(top)
  PROVE  \A i \in 1 .. Len(frs) : frs[i].jmpbuf \in 1 .. Len(code) - 1
<1> SUFFICES ASSUME NEW i \in 1 .. Len(frs)
             PROVE  frs[i].jmpbuf \in 1 .. Len(code) - 1
  OBVIOUS
<1>1. frs[i].jmpbuf \in 1 .. Len(code) /\ Framed(code[frs[i].jmpbuf])
  BY FramesIs
<1>2. frs[i].jmpbuf # Len(code)
  BY <1>1, Typed
<1> QED
  BY <1>1, <1>2, Typed

LEMMA StandsIs ==
  ASSUME TypeOK
  PROVE  TargetStands <=>
           /\ nlj.active => Stands(nlj)
           /\ \A k \in 1 .. Len(code) :
                code[k].at = "recleanup" =>
                  Stands(code[k].jump) /\ frs[code[k].jump.fr].jmpbuf < k
BY Typed DEF TargetStands, Stands

\* The same of the next state.
LEMMA TypedNext ==
  (TypeOK =>
     /\ code \in Seq(Activations) /\ Len(code) \in Nat \ {0}
     /\ \A k \in 1 .. Len(code) : code[k] \in Activations
     /\ Len(frs) \in Nat
     /\ \A i \in 1 .. Len(frs) : frs[i] \in Frames
     /\ Last(code) = code[Len(code)])'
<1>1. TypeOK =>
        /\ code \in Seq(Activations) /\ Len(code) \in Nat \ {0}
        /\ \A k \in 1 .. Len(code) : code[k] \in Activations
        /\ Len(frs) \in Nat
        /\ \A i \in 1 .. Len(frs) : frs[i] \in Frames
        /\ Last(code) = code[Len(code)]
  BY Typed DEF top
<1> QED
  BY <1>1, PTL

LEMMA FramesIsNext ==
  (TypeOK =>
     (FramesMatch <=>
        /\ \A i \in 1 .. Len(frs) :
             /\ frs[i].jmpbuf \in 1 .. Len(code)
             /\ Framed(code[frs[i].jmpbuf])
             /\ frs[i].class = Class(code[frs[i].jmpbuf].kind)
             /\ frs[i].tag = code[frs[i].jmpbuf].key
             /\ \A j \in 1 .. i - 1 : frs[j].jmpbuf < frs[i].jmpbuf
        /\ \A k \in 1 .. Len(code) :
             Framed(code[k]) => \E i \in 1 .. Len(frs) : frs[i].jmpbuf = k))'
<1>1. TypeOK =>
        (FramesMatch <=>
           /\ \A i \in 1 .. Len(frs) :
                /\ frs[i].jmpbuf \in 1 .. Len(code)
                /\ Framed(code[frs[i].jmpbuf])
                /\ frs[i].class = Class(code[frs[i].jmpbuf].kind)
                /\ frs[i].tag = code[frs[i].jmpbuf].key
                /\ \A j \in 1 .. i - 1 : frs[j].jmpbuf < frs[i].jmpbuf
           /\ \A k \in 1 .. Len(code) :
                Framed(code[k]) => \E i \in 1 .. Len(frs) : frs[i].jmpbuf = k)
  BY FramesIs
<1> QED
  BY <1>1, PTL

LEMMA StandsIsNext ==
  (TypeOK =>
     (TargetStands <=>
        /\ nlj.active => Stands(nlj)
        /\ \A k \in 1 .. Len(code) :
             code[k].at = "recleanup" =>
               Stands(code[k].jump) /\ frs[code[k].jump.fr].jmpbuf < k))'
<1>1. TypeOK =>
        (TargetStands <=>
           /\ nlj.active => Stands(nlj)
           /\ \A k \in 1 .. Len(code) :
                code[k].at = "recleanup" =>
                  Stands(code[k].jump) /\ frs[code[k].jump.fr].jmpbuf < k)
  BY StandsIs
<1> QED
  BY <1>1, PTL

-------------------------------------------------------------------------------
(* The frame stack goes on matching the activations.                       *)

\* The first activations stay, with their frames; those above have none.
LEMMA PrefixMatches ==
  ASSUME TypeOK, TypeOK', FramesMatch,
         NEW m \in 0 .. Len(code), m <= Len(code'),
         \A k \in 1 .. m : code'[k] = code[k],
         Len(frs') <= Len(frs),
         \A i \in 1 .. Len(frs') : frs'[i] = frs[i] /\ frs[i].jmpbuf <= m,
         \A i \in Len(frs') + 1 .. Len(frs) : frs[i].jmpbuf > m,
         \A k \in m + 1 .. Len(code') : ~Framed(code'[k])
  PROVE  FramesMatch'
<1>1. Len(code) \in Nat /\ Len(code') \in Nat /\ Len(frs) \in Nat /\ Len(frs') \in Nat
  BY Typed, TypedNext
<1>2. ASSUME NEW i \in 1 .. Len(frs')
      PROVE  /\ frs'[i].jmpbuf \in 1 .. Len(code')
             /\ Framed(code'[frs'[i].jmpbuf])
             /\ frs'[i].class = Class(code'[frs'[i].jmpbuf].kind)
             /\ frs'[i].tag = code'[frs'[i].jmpbuf].key
             /\ \A j \in 1 .. i - 1 : frs'[j].jmpbuf < frs'[i].jmpbuf
  <2>1. i \in 1 .. Len(frs) /\ frs'[i] = frs[i] /\ frs[i].jmpbuf <= m
    BY <1>1, <1>2
  <2>2. frs[i].jmpbuf \in 1 .. m
    BY <2>1, <1>1, FramesIs
  <2>3. code'[frs'[i].jmpbuf] = code[frs[i].jmpbuf]
    BY <2>1, <2>2
  <2>4. \A j \in 1 .. i - 1 : frs'[j] = frs[j]
    BY <1>1, <1>2
  <2>5. /\ Framed(code[frs[i].jmpbuf])
        /\ frs[i].class = Class(code[frs[i].jmpbuf].kind)
        /\ frs[i].tag = code[frs[i].jmpbuf].key
        /\ \A j \in 1 .. i - 1 : frs[j].jmpbuf < frs[i].jmpbuf
    BY <2>1, FramesIs
  <2>6. frs'[i].jmpbuf \in 1 .. Len(code')
    BY <1>1, <2>1, <2>2
  <2>7. Framed(code'[frs'[i].jmpbuf])
    BY <2>3, <2>5
  <2>8. /\ frs'[i].class = Class(code'[frs'[i].jmpbuf].kind)
        /\ frs'[i].tag = code'[frs'[i].jmpbuf].key
    BY <2>1, <2>3, <2>5
  <2> QED
    BY <2>1, <2>4, <2>5, <2>6, <2>7, <2>8
<1>3. ASSUME NEW k \in 1 .. Len(code'), Framed(code'[k])
      PROVE  \E i \in 1 .. Len(frs') : frs'[i].jmpbuf = k
  <2>1. k \in 1 .. m /\ k \in 1 .. Len(code) /\ code'[k] = code[k]
    <3>1. k \notin m + 1 .. Len(code')
      BY <1>3
    <3>2. k \in 1 .. m /\ k \in 1 .. Len(code)
      BY <1>1, <3>1
    <3> QED
      BY <3>2
  <2>2. PICK i \in 1 .. Len(frs) : frs[i].jmpbuf = k
    BY <2>1, <1>3, FramesIs
  <2>3. i \in 1 .. Len(frs')
    BY <1>1, <2>1, <2>2
  <2> QED
    BY <2>2, <2>3
<1> QED
  BY <1>2, <1>3, FramesIsNext

\* The first activations stay, and the one above them goes on with its frame.
LEMMA TopMatches ==
  ASSUME TypeOK, TypeOK', FramesMatch,
         NEW m \in 1 .. Len(code), m = Len(code'),
         \A k \in 1 .. m - 1 : code'[k] = code[k],
         Len(frs') \in 1 .. Len(frs),
         \A i \in 1 .. Len(frs') : frs'[i] = frs[i],
         frs[Len(frs')].jmpbuf = m,
         Framed(code'[m]),
         code'[m].kind = code[m].kind, code'[m].key = code[m].key
  PROVE  FramesMatch'
<1>1. Len(code) \in Nat /\ Len(code') \in Nat /\ Len(frs) \in Nat /\ Len(frs') \in Nat
  BY Typed, TypedNext
<1>2. ASSUME NEW i \in 1 .. Len(frs')
      PROVE  /\ frs'[i].jmpbuf \in 1 .. Len(code')
             /\ Framed(code'[frs'[i].jmpbuf])
             /\ frs'[i].class = Class(code'[frs'[i].jmpbuf].kind)
             /\ frs'[i].tag = code'[frs'[i].jmpbuf].key
             /\ \A j \in 1 .. i - 1 : frs'[j].jmpbuf < frs'[i].jmpbuf
  <2>1. i \in 1 .. Len(frs) /\ frs'[i] = frs[i]
    BY <1>1, <1>2
  <2>2. \A j \in 1 .. i - 1 : frs'[j] = frs[j] /\ frs'[j].jmpbuf < frs'[i].jmpbuf
    BY <1>1, <1>2, <2>1, FramesIs
  <2>3. CASE i = Len(frs')
    BY <1>1, <2>1, <2>2, <2>3, FramesIs
  <2>4. CASE i < Len(frs')
    <3>1. frs[i].jmpbuf < m /\ frs[i].jmpbuf \in 1 .. m - 1
      BY <1>1, <2>1, <2>4, FramesIs
    <3>2. code'[frs'[i].jmpbuf] = code[frs[i].jmpbuf]
      BY <2>1, <3>1
    <3> QED
      BY <1>1, <2>1, <2>2, <3>1, <3>2, FramesIs
  <2> QED
    BY <1>1, <2>3, <2>4
<1>3. ASSUME NEW k \in 1 .. Len(code'), Framed(code'[k])
      PROVE  \E i \in 1 .. Len(frs') : frs'[i].jmpbuf = k
  <2>1. CASE k = m
    BY <1>1, <2>1
  <2>2. CASE k # m
    <3>1. k \in 1 .. m - 1 /\ k \in 1 .. Len(code) /\ code'[k] = code[k]
      BY <1>1, <2>2
    <3>2. PICK i \in 1 .. Len(frs) : frs[i].jmpbuf = k
      BY <3>1, <1>3, FramesIs
    <3>3. Len(frs') < i => m < frs[i].jmpbuf
      BY <1>1, FramesIs
    <3>4. i \in 1 .. Len(frs')
      BY <1>1, <3>1, <3>2, <3>3
    <3> QED
      BY <3>2, <3>4
  <2> QED
    BY <2>1, <2>2
<1> QED
  BY <1>2, <1>3, FramesIsNext

\* Quiet steps keep the frames of the jumps that wait for a cleanup to end.
LEMMA JumpsStand ==
  ASSUME TypeOK, TypeOK', TargetStands, ~nlj'.active,
         NEW m \in 0 .. Len(code), m <= Len(code'),
         \A k \in 1 .. m : code'[k] = code[k],
         \A i \in 1 .. Len(frs) :
           frs[i].jmpbuf <= m => i \in 1 .. Len(frs') /\ frs'[i] = frs[i],
         \A k \in m + 1 .. Len(code') : code'[k].at # "recleanup"
  PROVE  TargetStands'
<1>1. Len(code) \in Nat /\ Len(code') \in Nat /\ Len(frs) \in Nat /\ Len(frs') \in Nat
  BY Typed, TypedNext
<1>2. ASSUME NEW k \in 1 .. Len(code'), code'[k].at = "recleanup"
      PROVE  Stands(code[k].jump)' /\ frs'[code'[k].jump.fr].jmpbuf < k
  <2>1. k \in 1 .. m /\ k \in 1 .. Len(code) /\ code'[k] = code[k]
    <3>1. k \notin m + 1 .. Len(code')
      BY <1>2
    <3>2. k \in 1 .. m /\ k \in 1 .. Len(code)
      BY <1>1, <3>1
    <3> QED
      BY <3>2
  <2>2. Stands(code[k].jump) /\ frs[code[k].jump.fr].jmpbuf < k
    BY <1>2, <2>1, StandsIs
  <2>3. code[k].jump.fr \in 1 .. Len(frs) /\ frs[code[k].jump.fr] \in Frames
    BY <2>2, Typed DEF Stands
  <2>4. frs[code[k].jump.fr].jmpbuf \in Nat
    BY <2>3 DEF Frames
  <2>5. /\ code[k].jump.fr \in 1 .. Len(frs')
        /\ frs'[code[k].jump.fr] = frs[code[k].jump.fr]
    <3>1. frs[code[k].jump.fr].jmpbuf <= m
      BY <1>1, <2>1, <2>2, <2>4
    <3> QED
      BY <2>3, <3>1
  <2>6. \/ frs'[code[k].jump.fr].class = "FRS_CATCH" /\ frs'[code[k].jump.fr].tag = code[k].jump.tag
        \/ frs'[code[k].jump.fr].class = "FRS_CATCHALL"
    BY <2>2, <2>5 DEF Stands
  <2> QED
    BY <2>1, <2>2, <2>5, <2>6 DEF Stands
<1> QED
  BY <1>2, StandsIsNext

LEMMA PushInv ==
  ASSUME TypeOK, TypeOK', FrameInv, NEW a, Pushes(a),
         ~Framed(a), Shape(a), a.kind # "top", a.at # "recleanup",
         frs' = frs, ~nlj'.active
  PROVE  FrameInv'
<1>1. Len(code) \in Nat \ {0} /\ Len(frs) \in Nat
  BY Typed
<1>2. /\ Len(code') = Len(code) + 1
      /\ \A k \in Len(code) + 1 .. Len(code') : code'[k] = a
      /\ \A k \in 1 .. Len(code) : code'[k] = code[k]
  BY <1>1 DEF Pushes
<1>3. \A i \in 1 .. Len(frs) : frs[i].jmpbuf \in 1 .. Len(code)
  BY FramesIs DEF FrameInv
<1>4. Shapes'
  BY <1>1, <1>2 DEF FrameInv, Shapes
<1>5. FramesMatch'
  <2>1. Len(code) \in 0 .. Len(code) /\ Len(code) <= Len(code')
    BY <1>1, <1>2
  <2>2. \A i \in 1 .. Len(frs) : frs[i].jmpbuf <= Len(code)
    BY <1>3
  <2>3. \A i \in Len(frs) + 1 .. Len(frs) : FALSE
    BY <1>1
  <2> QED
    BY <1>1, <1>2, <2>1, <2>2, <2>3, PrefixMatches DEF FrameInv
<1>6. TargetStands'
  <2>1. Len(code) \in 0 .. Len(code) /\ Len(code) <= Len(code')
    BY <1>1, <1>2
  <2> QED
    BY <1>2, <2>1, JumpsStand DEF FrameInv
<1>7. Landing'
  BY DEF Landing
<1> QED
  BY <1>4, <1>5, <1>6, <1>7 DEF FrameInv

LEMMA StepInv ==
  ASSUME TypeOK, TypeOK', FrameInv, ~Framed(top), NEW a, Steps(a),
         ~Framed(a), Shape(a), a.kind = top.kind, a.at # "recleanup",
         frs' = frs, ~nlj'.active
  PROVE  FrameInv'
<1>1. Len(code) \in Nat \ {0} /\ Len(frs) \in Nat /\ top = code[Len(code)]
  BY Typed
<1>2. /\ Len(code') = Len(code)
      /\ \A k \in Len(code) - 1 + 1 .. Len(code') : code'[k] = a
      /\ \A k \in 1 .. Len(code) - 1 : code'[k] = code[k]
  BY <1>1 DEF Steps
<1>3. \A i \in 1 .. Len(frs) : frs[i].jmpbuf \in 1 .. Len(code) - 1
  BY NoTopFrame DEF FrameInv
<1>0. Len(code) - 1 \in 0 .. Len(code) /\ Len(code) - 1 <= Len(code')
  BY <1>1, <1>2
<1>4. Shapes'
  BY <1>1, <1>2 DEF FrameInv, Shapes
<1>5. FramesMatch'
  <2>1. PICK m \in 0 .. Len(code) : m = Len(code) - 1
    BY <1>0
  <2>2. m <= Len(code') /\ \A k \in 1 .. m : code'[k] = code[k]
    BY <1>0, <1>2, <2>1
  <2>3. \A i \in 1 .. Len(frs') : frs'[i] = frs[i] /\ frs[i].jmpbuf <= m
    BY <1>1, <1>3, <2>1
  <2>4. Len(frs') <= Len(frs) /\ \A i \in Len(frs') + 1 .. Len(frs) : frs[i].jmpbuf > m
    BY <1>1
  <2>5. \A k \in m + 1 .. Len(code') : ~Framed(code'[k])
    BY <1>2, <2>1
  <2> QED
    BY <2>2, <2>3, <2>4, <2>5, PrefixMatches DEF FrameInv
<1>6. TargetStands'
  BY <1>0, <1>2, JumpsStand DEF FrameInv
<1>7. Landing'
  BY DEF Landing
<1> QED
  BY <1>4, <1>5, <1>6, <1>7 DEF FrameInv

LEMMA PopInv ==
  ASSUME TypeOK, TypeOK', FrameInv, ~Framed(top), Pops, frs' = frs, ~nlj'.active
  PROVE  FrameInv'
<1>1. Len(code) \in Nat \ {0} /\ Len(frs) \in Nat
  BY Typed
<1>2. /\ Len(code') = Len(code) - 1
      /\ \A k \in Len(code) - 1 + 1 .. Len(code') : FALSE
      /\ \A k \in 1 .. Len(code) - 1 : code'[k] = code[k]
  BY <1>1 DEF Pops
<1>3. \A i \in 1 .. Len(frs) : frs[i].jmpbuf \in 1 .. Len(code) - 1
  BY NoTopFrame DEF FrameInv
<1>0. Len(code) - 1 \in 0 .. Len(code) /\ Len(code) - 1 <= Len(code')
  BY <1>1, <1>2
<1>4. Shapes'
  BY <1>1, <1>2 DEF FrameInv, Shapes
<1>5. FramesMatch'
  <2>1. PICK m \in 0 .. Len(code) : m = Len(code) - 1
    BY <1>0
  <2>2. m <= Len(code') /\ \A k \in 1 .. m : code'[k] = code[k]
    BY <1>0, <1>2, <2>1
  <2>3. \A i \in 1 .. Len(frs') : frs'[i] = frs[i] /\ frs[i].jmpbuf <= m
    BY <1>1, <1>3, <2>1
  <2>4. Len(frs') <= Len(frs) /\ \A i \in Len(frs') + 1 .. Len(frs) : frs[i].jmpbuf > m
    BY <1>1
  <2>5. \A k \in m + 1 .. Len(code') : ~Framed(code'[k])
    BY <1>2, <2>1
  <2> QED
    BY <2>2, <2>3, <2>4, <2>5, PrefixMatches DEF FrameInv
<1>6. TargetStands'
  BY <1>0, <1>2, JumpsStand DEF FrameInv
<1>7. Landing'
  BY DEF Landing
<1> QED
  BY <1>4, <1>5, <1>6, <1>7 DEF FrameInv

LEMMA PopWithFrameInv ==
  ASSUME TypeOK, TypeOK', FrameInv, Framed(top), Pops, PopsFrame, ~nlj'.active
  PROVE  FrameInv'
<1>1. Len(code) \in Nat \ {0} /\ Len(frs) \in Nat
  BY Typed
<1>2. PICK m \in 0 .. Len(code) : m = Len(code) - 1
  <2>1. Len(code) - 1 \in 0 .. Len(code)
    BY <1>1
  <2> QED
    BY <2>1
<1>3. /\ Len(code') = m
      /\ \A k \in m + 1 .. Len(code') : FALSE
      /\ \A k \in 1 .. m : code'[k] = code[k]
  BY <1>1, <1>2 DEF Pops
<1>4. /\ Len(frs) # 0 /\ frs[Len(frs)].jmpbuf = m + 1
      /\ \A i \in 1 .. Len(frs) - 1 : frs[i].jmpbuf < m + 1
  BY <1>1, <1>2, TopFrame DEF FrameInv
<1>5. Len(frs') = Len(frs) - 1 /\ \A i \in 1 .. Len(frs) - 1 : frs'[i] = frs[i]
  BY DEF PopsFrame
<1>6. \A i \in 1 .. Len(frs) : frs[i].jmpbuf \in Nat
  BY FramesIs DEF FrameInv
<1>7. Shapes'
  BY <1>1, <1>2, <1>3 DEF FrameInv, Shapes
<1>8. FramesMatch'
  <2>1. m <= Len(code')
    BY <1>2, <1>3
  <2>2. \A i \in 1 .. Len(frs') : frs'[i] = frs[i] /\ frs[i].jmpbuf <= m
    BY <1>1, <1>2, <1>4, <1>5, <1>6
  <2>3. Len(frs') <= Len(frs) /\ \A i \in Len(frs') + 1 .. Len(frs) : frs[i].jmpbuf > m
    BY <1>1, <1>2, <1>4, <1>5
  <2> QED
    BY <1>3, <2>1, <2>2, <2>3, PrefixMatches DEF FrameInv
<1>9. TargetStands'
  <2>1. m <= Len(code')
    BY <1>2, <1>3
  <2>2. \A i \in 1 .. Len(frs) :
          frs[i].jmpbuf <= m => i \in 1 .. Len(frs') /\ frs'[i] = frs[i]
    BY <1>1, <1>2, <1>4, <1>5
  <2> QED
    BY <1>3, <2>1, <2>2, JumpsStand DEF FrameInv
<1>10. Landing'
  BY DEF Landing
<1> QED
  BY <1>7, <1>8, <1>9, <1>10 DEF FrameInv

\* The body of an unwind-protect ends: its frame goes, the form stays, with the jump that
\* ended it if one did.
LEMMA CleanupInv ==
  ASSUME TypeOK, TypeOK', FrameInv, Framed(top), top.kind = "protect",
         NEW a, Steps(a), ~Framed(a), Shape(a), a.kind = "protect",
         a.at = "recleanup" => nlj.active /\ a.jump = nlj,
         PopsFrame, ~nlj'.active
  PROVE  FrameInv'
<1>1. Len(code) \in Nat \ {0} /\ Len(frs) \in Nat /\ top = code[Len(code)]
  BY Typed
<1>2. PICK m \in 0 .. Len(code) : m = Len(code) - 1
  <2>1. Len(code) - 1 \in 0 .. Len(code)
    BY <1>1
  <2> QED
    BY <2>1
<1>3. /\ Len(code') = m + 1
      /\ \A k \in m + 1 .. Len(code') : code'[k] = a
      /\ \A k \in 1 .. m : code'[k] = code[k]
  BY <1>1, <1>2 DEF Steps
<1>4. /\ Len(frs) # 0 /\ frs[Len(frs)].jmpbuf = m + 1
      /\ frs[Len(frs)].class = "FRS_PROTECT"
      /\ \A i \in 1 .. Len(frs) - 1 : frs[i].jmpbuf < m + 1
  BY <1>1, <1>2, TopFrame DEF FrameInv, Class
<1>5. Len(frs') = Len(frs) - 1 /\ \A i \in 1 .. Len(frs) - 1 : frs'[i] = frs[i]
  BY DEF PopsFrame
<1>6. \A i \in 1 .. Len(frs) : frs[i].jmpbuf \in Nat
  BY FramesIs DEF FrameInv
<1>7. Shapes'
  BY <1>1, <1>2, <1>3 DEF FrameInv, Shapes
<1>8. FramesMatch'
  <2>1. m <= Len(code')
    BY <1>2, <1>3
  <2>2. \A i \in 1 .. Len(frs') : frs'[i] = frs[i] /\ frs[i].jmpbuf <= m
    BY <1>1, <1>2, <1>4, <1>5, <1>6
  <2>3. Len(frs') <= Len(frs) /\ \A i \in Len(frs') + 1 .. Len(frs) : frs[i].jmpbuf > m
    BY <1>1, <1>2, <1>4, <1>5
  <2>4. \A k \in m + 1 .. Len(code') : ~Framed(code'[k])
    BY <1>3
  <2> QED
    BY <1>3, <2>1, <2>2, <2>3, <2>4, PrefixMatches DEF FrameInv
<1>9. TargetStands'
  <2> SUFFICES ASSUME NEW k \in 1 .. Len(code'), code'[k].at = "recleanup"
               PROVE  Stands(code[k].jump)' /\ frs'[code'[k].jump.fr].jmpbuf < k
    BY StandsIsNext
  <2>1. CASE k = m + 1
    <3>1. nlj.active /\ code'[k].jump = nlj
      BY <1>1, <1>2, <1>3, <2>1
    <3>2. Stands(nlj)
      BY <3>1, StandsIs DEF FrameInv
    <3>3. nlj.fr \in 1 .. Len(frs') /\ nlj.fr \in 1 .. Len(frs) - 1
      BY <1>1, <1>4, <1>5, <3>2 DEF Stands
    <3>4. frs'[nlj.fr] = frs[nlj.fr] /\ frs[nlj.fr].jmpbuf < k
      BY <1>4, <1>5, <2>1, <3>3
    <3> QED
      BY <3>1, <3>2, <3>3, <3>4 DEF Stands
  <2>2. CASE k # m + 1
    <3>1. k \in 1 .. m /\ k \in 1 .. Len(code) /\ code'[k] = code[k]
      BY <1>1, <1>2, <1>3, <2>2
    <3>2. Stands(code[k].jump) /\ frs[code[k].jump.fr].jmpbuf < k
      BY <3>1, StandsIs DEF FrameInv
    <3>3. code[k].jump.fr \in 1 .. Len(frs)
      BY <3>2 DEF Stands
    <3>4. code[k].jump.fr # Len(frs)
      BY <1>4, <3>1, <3>2, <1>2, <1>1
    <3>5. /\ code[k].jump.fr \in 1 .. Len(frs')
          /\ frs'[code[k].jump.fr] = frs[code[k].jump.fr]
      <4>1. \A i \in 1 .. Len(frs) : i # Len(frs) => i \in 1 .. Len(frs') /\ frs'[i] = frs[i]
        BY <1>1, <1>5
      <4> QED
        BY <3>3, <3>4, <4>1
    <3> QED
      BY <3>1, <3>2, <3>5 DEF Stands
  <2> QED
    BY <2>1, <2>2
<1>10. Landing'
  BY DEF Landing
<1> QED
  BY <1>7, <1>8, <1>9, <1>10 DEF FrameInv

LEMMA BeginInv ==
  ASSUME TypeOK, TypeOK', FrameInv, Framed(top), NEW a, Steps(a),
         Framed(a), Shape(a), a.kind = top.kind, a.key = top.key,
         frs' = frs, ~nlj'.active
  PROVE  FrameInv'
<1>1. Len(code) \in Nat \ {0} /\ Len(frs) \in Nat /\ top = code[Len(code)]
  BY Typed
<1>2. /\ Len(code') = Len(code)
      /\ code'[Len(code)] = a
      /\ \A k \in 1 .. Len(code) - 1 : code'[k] = code[k]
  BY DEF Steps
<1>3. Len(frs) # 0 /\ frs[Len(frs)].jmpbuf = Len(code)
  BY TopFrame DEF FrameInv
<1>4. Shapes'
  BY <1>1, <1>2 DEF FrameInv, Shapes
<1>5. FramesMatch'
  <2>1. Len(code) \in 1 .. Len(code) /\ Len(frs') \in 1 .. Len(frs)
    BY <1>1, <1>3
  <2> QED
    BY <1>1, <1>2, <1>3, <2>1, TopMatches DEF FrameInv
<1>6. TargetStands'
  <2> SUFFICES ASSUME NEW k \in 1 .. Len(code'), code'[k].at = "recleanup"
               PROVE  Stands(code[k].jump)' /\ frs'[code'[k].jump.fr].jmpbuf < k
    BY StandsIsNext
  <2>1. a.at # "recleanup"
    BY DEF Framed
  <2>2. k \in 1 .. Len(code) /\ code'[k] = code[k]
    BY <1>1, <1>2, <2>1
  <2>3. Stands(code[k].jump) /\ frs[code[k].jump.fr].jmpbuf < k
    BY <2>2, StandsIs DEF FrameInv
  <2> QED
    BY <2>2, <2>3 DEF Stands
<1>7. Landing'
  BY DEF Landing
<1> QED
  BY <1>4, <1>5, <1>6, <1>7 DEF FrameInv

LEMMA EnterInv ==
  ASSUME TypeOK, TypeOK', FrameInv, NEW a, Pushes(a), NEW f, PushesFrame(f),
         Framed(a), Shape(a), a.kind # "top",
         f.jmpbuf = Len(code) + 1, f.class = Class(a.kind), f.tag = a.key,
         ~nlj'.active
  PROVE  FrameInv'
<1>1. Len(code) \in Nat \ {0} /\ Len(frs) \in Nat
  BY Typed
<1>2. /\ Len(code') = Len(code) + 1
      /\ code'[Len(code) + 1] = a
      /\ \A k \in 1 .. Len(code) : code'[k] = code[k]
  BY DEF Pushes
<1>3. /\ Len(frs') = Len(frs) + 1
      /\ frs'[Len(frs) + 1] = f
      /\ \A i \in 1 .. Len(frs) : frs'[i] = frs[i]
  BY DEF PushesFrame
<1>4. Shapes'
  BY <1>1, <1>2 DEF FrameInv, Shapes
<1>5. ASSUME NEW i \in 1 .. Len(frs')
      PROVE  /\ frs'[i].jmpbuf \in 1 .. Len(code')
             /\ Framed(code'[frs'[i].jmpbuf])
             /\ frs'[i].class = Class(code'[frs'[i].jmpbuf].kind)
             /\ frs'[i].tag = code'[frs'[i].jmpbuf].key
             /\ \A j \in 1 .. i - 1 : frs'[j].jmpbuf < frs'[i].jmpbuf
  <2>1. CASE i = Len(frs) + 1
    <3>1. \A j \in 1 .. i - 1 : frs'[j] = frs[j] /\ frs[j].jmpbuf \in 1 .. Len(code)
      <4>1. \A j \in 1 .. Len(frs) : frs[j].jmpbuf \in 1 .. Len(code)
        BY FramesIs DEF FrameInv
      <4>2. \A j \in 1 .. i - 1 : j \in 1 .. Len(frs)
        BY <1>1, <2>1
      <4> QED
        BY <1>3, <4>1, <4>2
    <3>2. \A j \in 1 .. i - 1 : frs'[j].jmpbuf < frs'[i].jmpbuf
      BY <1>1, <1>3, <2>1, <3>1
    <3> QED
      BY <1>1, <1>2, <1>3, <2>1, <3>2
  <2>2. CASE i # Len(frs) + 1
    <3>1. i \in 1 .. Len(frs) /\ \A j \in 1 .. i : frs'[j] = frs[j]
      BY <1>1, <1>3, <2>2
    <3>2. /\ frs[i].jmpbuf \in 1 .. Len(code)
          /\ Framed(code[frs[i].jmpbuf])
          /\ frs[i].class = Class(code[frs[i].jmpbuf].kind)
          /\ frs[i].tag = code[frs[i].jmpbuf].key
          /\ \A j \in 1 .. i - 1 : frs[j].jmpbuf < frs[i].jmpbuf
      BY <3>1, FramesIs DEF FrameInv
    <3>3. frs'[i] = frs[i] /\ \A j \in 1 .. i - 1 : frs'[j] = frs[j]
      BY <3>1
    <3>4. code'[frs'[i].jmpbuf] = code[frs[i].jmpbuf]
      BY <1>2, <3>2, <3>3
    <3>5. frs'[i].jmpbuf \in 1 .. Len(code')
      BY <1>1, <1>2, <3>2, <3>3
    <3>6. Framed(code'[frs'[i].jmpbuf])
      BY <3>2, <3>4
    <3>7. /\ frs'[i].class = Class(code'[frs'[i].jmpbuf].kind)
          /\ frs'[i].tag = code'[frs'[i].jmpbuf].key
      BY <3>2, <3>3, <3>4
    <3> QED
      BY <3>2, <3>3, <3>5, <3>6, <3>7
  <2> QED
    BY <2>1, <2>2
<1>6. ASSUME NEW k \in 1 .. Len(code'), Framed(code'[k])
      PROVE  \E i \in 1 .. Len(frs') : frs'[i].jmpbuf = k
  <2>1. CASE k = Len(code) + 1
    <3>1. Len(frs) + 1 \in 1 .. Len(frs')
      BY <1>1, <1>3
    <3> QED
      BY <1>3, <2>1, <3>1
  <2>2. CASE k # Len(code) + 1
    <3>1. k \in 1 .. Len(code) /\ code'[k] = code[k]
      BY <1>1, <1>2, <2>2
    <3>2. PICK i \in 1 .. Len(frs) : frs[i].jmpbuf = k
      BY <3>1, <1>6, FramesIs DEF FrameInv
    <3> QED
      BY <1>1, <1>3, <3>2
  <2> QED
    BY <2>1, <2>2
<1>7. FramesMatch'
  BY <1>5, <1>6, FramesIsNext
<1>8. TargetStands'
  <2> SUFFICES ASSUME NEW k \in 1 .. Len(code'), code'[k].at = "recleanup"
               PROVE  Stands(code[k].jump)' /\ frs'[code'[k].jump.fr].jmpbuf < k
    BY StandsIsNext
  <2>1. a.at # "recleanup"
    BY DEF Framed
  <2>2. k \in 1 .. Len(code) /\ code'[k] = code[k]
    BY <1>1, <1>2, <2>1
  <2>3. Stands(code[k].jump) /\ frs[code[k].jump.fr].jmpbuf < k
    BY <2>2, StandsIs DEF FrameInv
  <2>4. /\ code[k].jump.fr \in 1 .. Len(frs')
        /\ frs'[code[k].jump.fr] = frs[code[k].jump.fr]
    BY <1>1, <1>3, <2>3 DEF Stands
  <2> QED
    BY <2>2, <2>3, <2>4 DEF Stands
<1>9. Landing'
  BY DEF Landing
<1> QED
  BY <1>4, <1>7, <1>8, <1>9 DEF FrameInv

-------------------------------------------------------------------------------
(* Jumps.                                                                  *)

LEMMA StopIs ==
  ASSUME TypeOK, NEW fr \in 1 .. Len(frs)
  PROVE  /\ Stop(fr) \in 1 .. Len(frs) /\ fr <= Stop(fr)
         /\ \A i \in 1 .. Len(frs) : frs[i].class # "FRS_CATCH" => i <= Stop(fr)
<1> DEFINE T == {i \in DOMAIN frs : i = fr \/ frs[i].class # "FRS_CATCH"}
<1>1. DOMAIN frs = 1 .. Len(frs) /\ Len(frs) \in Nat
  BY Typed
<1>2. T \in SUBSET (1 .. Len(frs)) /\ T # {}
  BY <1>1
<1>3. Max(T) \in T /\ \A i \in T : i <= Max(T)
  BY <1>1, <1>2, MaxIs
<1>4. Stop(fr) = Max(T)
  BY DEF Stop
<1>5. fr \in T /\ \A i \in 1 .. Len(frs) : frs[i].class # "FRS_CATCH" => i \in T
  BY <1>1
<1> QED
  BY <1>1, <1>3, <1>4, <1>5

\* The activations and frames that a jump leaves.
UnwindsTo(f) ==
  /\ f \in 1 .. Len(frs) /\ frs[f].jmpbuf \in 1 .. Len(code)
  /\ Len(frs') = f /\ \A i \in 1 .. f : frs'[i] = frs[i]
  /\ Len(code') = frs[f].jmpbuf
  /\ code'[frs[f].jmpbuf] = [code[frs[f].jmpbuf] EXCEPT !.at = "pushed"]
  /\ \A k \in 1 .. frs[f].jmpbuf - 1 : code'[k] = code[k]

LEMMA UnwindEffect ==
  ASSUME TypeOK, FramesMatch, NEW fr \in 1 .. Len(frs), NEW tag, Unwind(fr, tag)
  PROVE  /\ UnwindsTo(Stop(fr))
         /\ code' \in Seq(Activations) /\ Len(code') \in 1 .. MaxCode
         /\ frs' \in Seq(Frames)
<1> DEFINE f == Stop(fr)
           m == frs[f].jmpbuf
           a == [code[m] EXCEPT !.at = "pushed"]
<1>1. f \in 1 .. Len(frs) /\ Len(frs) \in Nat /\ Len(code) \in 1 .. MaxCode
  BY StopIs, Typed DEF TypeOK
<1>2. m \in 1 .. Len(code)
  BY <1>1, FramesIs
<1>3. /\ frs' = SubSeq(frs, 1, f)
      /\ code' = Append(SubSeq(code, 1, m - 1), a)
  BY DEF Unwind
<1>4. code[m] \in Activations
  BY <1>2, Typed
<1>5. a \in Activations
  BY <1>4 DEF Activations
<1> HIDE DEF a, m, f
<1>6. frs' \in Seq(Frames) /\ Len(frs') = f /\ \A i \in 1 .. f : frs'[i] = frs[i]
  <2>1. f \in 0 .. Len(frs) /\ frs \in Seq(Frames)
    BY <1>1, Typed
  <2> QED
    BY <2>1, <1>3, CutAt
<1>7. PICK l \in 0 .. Len(code) : l = m - 1
  <2>1. m - 1 \in 0 .. Len(code)
    BY <1>1, <1>2
  <2> QED
    BY <2>1
<1>8. PICK s : s = SubSeq(code, 1, l)
  OBVIOUS
<1>9. s \in Seq(Activations) /\ Len(s) = l /\ \A k \in 1 .. l : s[k] = code[k]
  BY <1>7, <1>8, CutAt, Typed
<1>10. code' = Append(s, a)
  BY <1>3, <1>7, <1>8
<1>11. /\ code' \in Seq(Activations)
       /\ Len(code') = l + 1
       /\ code'[l + 1] = a
       /\ \A k \in 1 .. l : code'[k] = s[k]
  BY <1>5, <1>9, <1>10, AppendProperties
<1>12. l + 1 = m /\ m \in 1 .. MaxCode
  BY <1>1, <1>2, <1>7
<1>13. /\ Len(code') = m /\ code'[m] = a
       /\ \A k \in 1 .. m - 1 : code'[k] = code[k]
  BY <1>7, <1>9, <1>11, <1>12
<1>14. UnwindsTo(f)
  BY <1>1, <1>2, <1>6, <1>13 DEF UnwindsTo, m, a
<1> QED
  BY <1>6, <1>11, <1>12, <1>14 DEF f

LEMMA UnwindInv ==
  ASSUME TypeOK, TypeOK', FrameInv, NEW fr, NEW tag,
         Stands([active |-> TRUE, fr |-> fr, tag |-> tag]), Unwind(fr, tag)
  PROVE  FrameInv'
<1> DEFINE f == Stop(fr)
           m == frs[f].jmpbuf
<1>1. fr \in 1 .. Len(frs)
  BY DEF Stands
<1>2. /\ f \in 1 .. Len(frs) /\ fr <= f
      /\ Len(frs) \in Nat /\ Len(code) \in Nat /\ Len(code') \in Nat /\ Len(frs') \in Nat
  BY <1>1, StopIs, Typed, TypedNext
<1>3. UnwindsTo(f)
  BY <1>1, UnwindEffect DEF FrameInv
<1>4. /\ m \in 1 .. Len(code) /\ Len(code') = m
      /\ code'[m] = [code[m] EXCEPT !.at = "pushed"]
      /\ \A k \in 1 .. m - 1 : code'[k] = code[k]
      /\ Len(frs') = f /\ \A i \in 1 .. f : frs'[i] = frs[i]
  BY <1>3 DEF UnwindsTo
<1>5. nlj' = [active |-> TRUE, fr |-> fr, tag |-> tag]
  BY DEF Unwind
<1>6. code[m] \in Activations
  BY <1>4, Typed
<1>7. Framed(code[m])
  BY <1>2, FramesIs DEF FrameInv
<1>8. /\ code'[m].kind = code[m].kind /\ code'[m].key = code[m].key
      /\ code'[m].at = "pushed" /\ code'[m].saved = code[m].saved
  BY <1>4, <1>6 DEF Activations
<1> HIDE DEF f, m
<1>9. Shapes'
  <2> SUFFICES ASSUME NEW k \in 1 .. Len(code')
               PROVE  Shape(code'[k]) /\ (code'[k].kind = "top" <=> k = 1)
    BY DEF Shapes
  <2>1. k \in 1 .. Len(code) /\ Shape(code[k]) /\ (code[k].kind = "top" <=> k = 1)
    BY <1>2, <1>4 DEF FrameInv, Shapes
  <2>2. CASE k = m
    BY <2>1, <2>2, <1>7, <1>8 DEF Shape, Framed, Kinds
  <2>3. CASE k # m
    BY <2>1, <2>3, <1>2, <1>4
  <2> QED
    BY <2>2, <2>3
<1>10. FramesMatch'
  <2>1. \A k \in 1 .. m - 1 : code'[k] = code[k]
    BY <1>4
  <2>2. Framed(code'[m])
    BY <1>7, <1>8 DEF Framed
  <2>3. Len(frs') \in 1 .. Len(frs) /\ \A i \in 1 .. Len(frs') : frs'[i] = frs[i]
    BY <1>2, <1>4
  <2>4. frs[Len(frs')].jmpbuf = m
    BY <1>4 DEF m
  <2> QED
    BY <1>4, <1>8, <2>1, <2>2, <2>3, <2>4, TopMatches DEF FrameInv
<1>11. Stands(nlj)'
  <2>1. fr \in 1 .. Len(frs') /\ frs'[fr] = frs[fr]
    BY <1>1, <1>2, <1>4
  <2> QED
    BY <1>5, <2>1 DEF Stands
<1>12. TargetStands'
  <2> SUFFICES ASSUME NEW k \in 1 .. Len(code'), code'[k].at = "recleanup"
               PROVE  Stands(code[k].jump)' /\ frs'[code'[k].jump.fr].jmpbuf < k
    BY <1>11, StandsIsNext
  <2>0. k # m
    BY <1>8
  <2>1. k \in 1 .. m - 1 /\ k \in 1 .. Len(code) /\ code'[k] = code[k]
    <3>1. m \in Nat /\ m <= Len(code) /\ k \in 1 .. m
      BY <1>2, <1>4
    <3>2. k \in 1 .. m - 1 /\ k \in 1 .. Len(code)
      BY <1>2, <2>0, <3>1
    <3> QED
      BY <1>4, <3>2
  <2>2. Stands(code[k].jump) /\ frs[code[k].jump.fr].jmpbuf < k
    BY <2>1, StandsIs DEF FrameInv
  <2>3. PICK i : i = code[k].jump.fr
    OBVIOUS
  <2>4. i \in 1 .. Len(frs) /\ frs[i].jmpbuf < m /\ frs[i].jmpbuf \in Nat
    <3>1. i \in 1 .. Len(frs) /\ frs[i].jmpbuf < k
      BY <2>2, <2>3 DEF Stands
    <3>2. frs[i].jmpbuf \in 1 .. Len(code)
      BY <3>1, FramesIs DEF FrameInv
    <3> QED
      BY <3>1, <3>2, <2>1, <1>2, <1>4
  <2>5. f < i => m < frs[i].jmpbuf
    BY <1>2, <2>4, FramesIs DEF FrameInv, m
  <2>6. i \in 1 .. f
    BY <1>2, <1>4, <2>4, <2>5
  <2>7. i \in 1 .. Len(frs') /\ frs'[i] = frs[i]
    BY <1>4, <2>6
  <2> QED
    BY <2>1, <2>2, <2>3, <2>7 DEF Stands
<1>13. Landing'
  BY <1>4, <1>8, TypedNext DEF Landing
<1> QED
  BY <1>9, <1>10, <1>12, <1>13 DEF FrameInv

-------------------------------------------------------------------------------
(* The bind stack.                                                         *)

Let(k) == code[k].kind = "let"

\* depth[k] is the size of the bind stack at the k-th activation.
Depths(depth) ==
  /\ depth \in [1 .. Len(code) -> Nat] /\ depth[1] = 0
  /\ \A k \in 2 .. Len(code) : depth[k] = IF Let(k) THEN depth[k - 1] + 1 ELSE depth[k - 1]
  /\ \A j, k \in 1 .. Len(code) :
       j < k => depth[j] <= depth[k] /\ (Let(k) => depth[j] < depth[k])
  /\ \A i \in 1 .. depth[Len(code)] : \E k \in 1 .. Len(code) : Let(k) /\ depth[k] = i

\* Each slot belongs to the let at its depth, and each frame and each handler has noted
\* its depth.
Filled(depth) ==
  /\ bds_top = depth[Len(code)]
  /\ \A k \in 1 .. Len(code) :
       /\ Let(k) => depth[k] \in 1 .. MaxBinds
       /\ Let(k) /\ code[k].at # "top" =>
            bds[depth[k]] = [sym |-> code[k].key, val |-> code[k].was] /\ code[k].was \in Values
       /\ code[k].at = "top" => k = Len(code) \/ "binding" \in Windows
       /\ code[k].kind = "handler" =>
            /\ code[k].saved.bds_top = depth[k]
            /\ depth[k] # 0 => code[k].saved.slot = bds[depth[k]]
  /\ \A i \in 1 .. Len(frs) : frs[i].bds_top = depth[frs[i].jmpbuf]

BindInv == \E depth : Depths(depth) /\ Filled(depth)

IInv == TypeOK /\ FrameInv /\ BindInv

\* The slot of the innermost let.
LEMMA TopSlot ==
  ASSUME TypeOK, FrameInv, BindInv, top.kind = "let", top.at # "top"
  PROVE  /\ bds_top \in 1 .. MaxBinds /\ bds_top - 1 \in 0 .. MaxBinds
         /\ bds[bds_top] = [sym |-> top.key, val |-> top.was]
         /\ top.was \in Values /\ top.key \in Symbols
<1>1. PICK depth : Depths(depth) /\ Filled(depth)
  BY DEF BindInv
<1>2. Len(code) \in 1 .. Len(code) /\ top = code[Len(code)] /\ Let(Len(code))
  BY Typed DEF Let
<1>3. bds_top = depth[Len(code)] /\ depth[Len(code)] \in 1 .. MaxBinds
  BY <1>1, <1>2 DEF Filled
<1>4. bds[bds_top] = [sym |-> top.key, val |-> top.was] /\ top.was \in Values
  BY <1>1, <1>2, <1>3 DEF Filled
<1>5. top.key \in Symbols
  BY <1>2 DEF FrameInv, Shapes, Shape
<1> QED
  BY <1>3, <1>4, <1>5

\* What the bind stack is once the activations above the m-th are gone.
LEMMA PrefixBinds ==
  ASSUME TypeOK, TypeOK', FrameInv,
         NEW depth, Depths(depth), Filled(depth),
         NEW m \in 1 .. Len(code), Len(code') = m,
         \A k \in 1 .. m - 1 : code'[k] = code[k],
         code'[m].kind = code[m].kind, code'[m].key = code[m].key,
         code'[m].was = code[m].was, code'[m].saved = code[m].saved,
         code[m].at = "top" => code'[m].at = "top",
         \A i \in 1 .. depth[m] : bds'[i] = bds[i],
         bds_top' = depth[m],
         \A i \in 1 .. Len(frs') :
           i \in 1 .. Len(frs) /\ frs'[i] = frs[i] /\ frs[i].jmpbuf \in 1 .. m
  PROVE  BindInv'
<1> DEFINE new == [k \in 1 .. m |-> depth[k]]
<1>1. Len(code) \in Nat
  BY Typed
<1>2. /\ depth \in [1 .. Len(code) -> Nat]
      /\ \A k \in 1 .. m : k \in 1 .. Len(code) /\ new[k] = depth[k]
  BY <1>1 DEF Depths
<1>3. \A k \in 1 .. m : /\ code'[k].kind = code[k].kind /\ code'[k].key = code[k].key
                        /\ code'[k].was = code[k].was /\ code'[k].saved = code[k].saved
  <2> TAKE k \in 1 .. m
  <2>1. k = m \/ k \in 1 .. m - 1
    BY <1>1
  <2> QED
    BY <2>1
<1>4. \A k \in 1 .. m : Let(k)' <=> Let(k)
  BY <1>3 DEF Let
<1>5. \A j, k \in 1 .. m : j < k => depth[j] <= depth[k] /\ (Let(k) => depth[j] < depth[k])
  BY <1>2 DEF Depths
<1>6. new \in [1 .. m -> Nat] /\ new[1] = 0
  BY <1>1, <1>2 DEF Depths
<1>7. \A k \in 2 .. m : new[k] = IF Let(k)' THEN new[k - 1] + 1 ELSE new[k - 1]
  <2> TAKE k \in 2 .. m
  <2>1. k \in 1 .. m /\ k - 1 \in 1 .. m /\ k \in 2 .. Len(code)
    BY <1>1
  <2>2. depth[k] = IF Let(k) THEN depth[k - 1] + 1 ELSE depth[k - 1]
    BY <2>1 DEF Depths
  <2> QED
    BY <1>2, <1>4, <2>1, <2>2
<1>8. ASSUME NEW i \in 1 .. new[m]
      PROVE  \E k \in 1 .. m : Let(k)' /\ new[k] = i
  <2>1. m \in 1 .. m /\ new[m] = depth[m] /\ depth[m] \in Nat /\ Len(code) \in 1 .. Len(code)
    BY <1>1, <1>2
  <2>2. depth[m] <= depth[Len(code)] /\ depth[Len(code)] \in Nat
    BY <1>1, <1>2, <2>1 DEF Depths
  <2>3. i \in 1 .. depth[Len(code)]
    BY <1>8, <2>1, <2>2
  <2>4. PICK k \in 1 .. Len(code) : Let(k) /\ depth[k] = i
    BY <2>3 DEF Depths
  <2>5. m < k => depth[m] < depth[k]
    BY <2>4 DEF Depths
  <2>6. k \in 1 .. m
    BY <1>1, <1>2, <1>8, <2>1, <2>4, <2>5
  <2> QED
    BY <1>2, <1>4, <2>4, <2>6
<1> HIDE DEF new
<1>9. Depths(new)'
  <2>1. \A j, k \in 1 .. m : j < k => new[j] <= new[k] /\ (Let(k)' => new[j] < new[k])
    BY <1>2, <1>4, <1>5
  <2> QED
    BY <1>6, <1>7, <1>8, <2>1 DEF Depths, Let
<1>10. ASSUME NEW k \in 1 .. m
       PROVE  /\ Let(k)' => new[k] \in 1 .. MaxBinds
              /\ Let(k)' /\ code'[k].at # "top" =>
                   /\ bds'[new[k]] = [sym |-> code'[k].key, val |-> code'[k].was]
                   /\ code'[k].was \in Values
              /\ code'[k].at = "top" => k = m \/ "binding" \in Windows
              /\ code'[k].kind = "handler" =>
                   /\ code'[k].saved.bds_top = new[k]
                   /\ new[k] # 0 => code'[k].saved.slot = bds'[new[k]]
  <2>1. k \in 1 .. Len(code) /\ new[k] = depth[k] /\ depth[k] \in Nat /\ m \in 1 .. Len(code)
    BY <1>2
  <2>2. depth[k] <= depth[m] /\ depth[m] \in Nat
    <3>1. k = m \/ k < m
      BY <1>1
    <3> QED
      BY <1>2, <2>1, <3>1 DEF Depths
  <2>3. depth[k] # 0 => bds'[depth[k]] = bds[depth[k]]
    <3>1. depth[k] # 0 => depth[k] \in 1 .. depth[m]
      BY <2>1, <2>2
    <3> QED
      BY <3>1
  <2>4. Let(k)' => new[k] \in 1 .. MaxBinds /\ new[k] # 0
    <3>1. Let(k) => depth[k] \in 1 .. MaxBinds
      BY <2>1 DEF Filled
    <3> QED
      BY <1>4, <2>1, <3>1
  <2>5. code'[k].at = "top" => k = m \/ "binding" \in Windows
    <3>1. k # m => k \in 1 .. m - 1
      BY <1>1
    <3>2. code[k].at = "top" => k = Len(code) \/ "binding" \in Windows
      BY <2>1 DEF Filled
    <3> QED
      BY <1>1, <3>1, <3>2
  <2>6. code'[k].at # "top" => code[k].at # "top"
    <3>1. k = m \/ k \in 1 .. m - 1
      BY <1>1
    <3> QED
      BY <3>1
  <2>7. Let(k) /\ code[k].at # "top" =>
          /\ bds[depth[k]] = [sym |-> code[k].key, val |-> code[k].was]
          /\ code[k].was \in Values
    BY <2>1 DEF Filled
  <2>8. code[k].kind = "handler" =>
          /\ code[k].saved.bds_top = depth[k]
          /\ depth[k] # 0 => code[k].saved.slot = bds[depth[k]]
    BY <2>1 DEF Filled
  <2> QED
    BY <1>3, <1>4, <2>1, <2>3, <2>4, <2>5, <2>6, <2>7, <2>8
<1>11. \A i \in 1 .. Len(frs') : frs'[i].bds_top = new[frs'[i].jmpbuf]
  BY <1>2 DEF Filled
<1>12. bds_top' = new[m]
  BY <1>1, <1>2
<1>13. Filled(new)'
  BY <1>10, <1>11, <1>12 DEF Filled, Let
<1> QED
  BY <1>9, <1>13 DEF BindInv

\* The depths once an activation is begun.
LEMMA PushBinds ==
  ASSUME TypeOK, TypeOK', FrameInv,
         NEW depth, Depths(depth), Filled(depth),
         NEW a, Pushes(a), top.at # "top" \/ "binding" \in Windows,
         a.at = "top" <=> a.kind = "let",
         NEW d \in Nat, d = IF a.kind = "let" THEN bds_top + 1 ELSE bds_top,
         d <= MaxBinds, bds_top' = d, bds' = bds,
         a.kind = "handler" =>
           a.saved.bds_top = bds_top /\ (bds_top # 0 => a.saved.slot = bds[bds_top]),
         \A i \in 1 .. Len(frs') :
           \/ i \in 1 .. Len(frs) /\ frs'[i] = frs[i]
           \/ frs'[i].jmpbuf = Len(code) + 1 /\ frs'[i].bds_top = d
  PROVE  BindInv'
<1>0. PICK n \in Nat \ {0} : n = Len(code)
  BY Typed
<1> DEFINE new == [k \in 1 .. n + 1 |-> IF k = n + 1 THEN d ELSE depth[k]]
<1>1. n \in Nat \ {0} /\ n \in 1 .. n /\ top = code[n] /\ bds_top \in Nat
  BY <1>0, Typed DEF TypeOK
<1>2. /\ Len(code') = n + 1 /\ code'[n + 1] = a
      /\ \A k \in 1 .. n : code'[k] = code[k]
  BY <1>0 DEF Pushes
<1>3. /\ depth \in [1 .. n -> Nat] /\ depth[1] = 0 /\ depth[n] = bds_top
      /\ \A k \in 1 .. n : new[k] = depth[k]
      /\ new[n + 1] = d
  BY <1>0, <1>1 DEF Depths, Filled
<1>4. (\A k \in 1 .. n : Let(k)' <=> Let(k)) /\ (Let(n + 1)' <=> a.kind = "let")
  BY <1>2 DEF Let
<1>5. \A k \in 1 .. n : depth[k] <= bds_top
  <2> TAKE k \in 1 .. n
  <2>1. k < n => depth[k] <= depth[n]
    BY <1>0, <1>1 DEF Depths
  <2> QED
    BY <1>1, <1>3, <2>1
<1>6. new \in [1 .. n + 1 -> Nat] /\ new[1] = 0
  BY <1>1, <1>3
<1> HIDE DEF new
<1>7. \A k \in 2 .. n + 1 : new[k] = IF Let(k)' THEN new[k - 1] + 1 ELSE new[k - 1]
  <2> TAKE k \in 2 .. n + 1
  <2>1. CASE k = n + 1
    <3>1. k - 1 = n
      BY <1>1, <2>1
    <3> QED
      BY <1>1, <1>3, <1>4, <2>1, <3>1
  <2>2. CASE k # n + 1
    <3>1. k \in 1 .. n /\ k - 1 \in 1 .. n /\ k \in 2 .. n
      BY <1>1, <2>2
    <3>2. depth[k] = IF Let(k) THEN depth[k - 1] + 1 ELSE depth[k - 1]
      BY <1>0, <3>1 DEF Depths
    <3> QED
      BY <1>3, <1>4, <3>1, <3>2
  <2> QED
    BY <2>1, <2>2
<1>8. ASSUME NEW j \in 1 .. n + 1, NEW k \in 1 .. n + 1, j < k
      PROVE  new[j] <= new[k] /\ (Let(k)' => new[j] < new[k])
  <2>1. j \in 1 .. n
    BY <1>1, <1>8
  <2>2. CASE k = n + 1
    <3>1. new[j] = depth[j] /\ depth[j] <= bds_top /\ depth[j] \in Nat
      BY <1>3, <1>5, <2>1
    <3> QED
      BY <1>1, <1>3, <1>4, <2>2, <3>1
  <2>3. CASE k # n + 1
    <3>1. k \in 1 .. n
      BY <1>1, <2>3
    <3>2. depth[j] <= depth[k] /\ (Let(k) => depth[j] < depth[k])
      BY <1>0, <1>8, <2>1, <3>1 DEF Depths
    <3> QED
      BY <1>3, <1>4, <2>1, <3>1, <3>2
  <2> QED
    BY <2>2, <2>3
<1>9. ASSUME NEW i \in 1 .. new[n + 1]
      PROVE  \E k \in 1 .. n + 1 : Let(k)' /\ new[k] = i
  <2>1. CASE i \in 1 .. bds_top
    <3>1. PICK k \in 1 .. n : Let(k) /\ depth[k] = i
      BY <1>0, <1>3, <2>1 DEF Depths
    <3>2. k \in 1 .. n + 1
      BY <1>1
    <3> QED
      BY <1>3, <1>4, <3>1, <3>2
  <2>2. CASE i \notin 1 .. bds_top
    <3>1. a.kind = "let" /\ i = d
      BY <1>1, <1>3, <1>9, <2>2
    <3>2. n + 1 \in 1 .. n + 1
      BY <1>1
    <3> QED
      BY <1>3, <1>4, <3>1, <3>2
  <2> QED
    BY <2>1, <2>2
<1>10. Depths(new)'
  <2>1. \A j, k \in 1 .. n + 1 : j < k => new[j] <= new[k] /\ (Let(k)' => new[j] < new[k])
    BY <1>8
  <2>2. \A i \in 1 .. new[n + 1] : \E k \in 1 .. n + 1 : Let(k)' /\ new[k] = i
    BY <1>9
  <2>3. \A k : Let(k)' <=> code'[k].kind = "let"
    BY DEF Let
  <2>4. /\ new \in [1 .. Len(code') -> Nat] /\ new[1] = 0
        /\ \A k \in 2 .. Len(code') : new[k] = IF code'[k].kind = "let" THEN new[k - 1] + 1 ELSE new[k - 1]
    BY <1>2, <1>6, <1>7, <2>3
  <2>5. \A j, k \in 1 .. Len(code') :
          j < k => new[j] <= new[k] /\ (code'[k].kind = "let" => new[j] < new[k])
    BY <1>2, <2>1, <2>3
  <2>6. \A i \in 1 .. new[Len(code')] : \E k \in 1 .. Len(code') : code'[k].kind = "let" /\ new[k] = i
    BY <1>2, <2>2, <2>3
  <2> QED
    BY <2>4, <2>5, <2>6, Zenon DEF Depths, Let
<1>11. ASSUME NEW k \in 1 .. n + 1
       PROVE  /\ Let(k)' => new[k] \in 1 .. MaxBinds
              /\ Let(k)' /\ code'[k].at # "top" =>
                   /\ bds'[new[k]] = [sym |-> code'[k].key, val |-> code'[k].was]
                   /\ code'[k].was \in Values
              /\ code'[k].at = "top" => k = n + 1 \/ "binding" \in Windows
              /\ code'[k].kind = "handler" =>
                   /\ code'[k].saved.bds_top = new[k]
                   /\ new[k] # 0 => code'[k].saved.slot = bds'[new[k]]
  <2>1. CASE k = n + 1
    <3>1. a.kind = "let" => d \in 1 .. MaxBinds
      BY <1>1
    <3>2. code'[k] = a /\ new[k] = d /\ (Let(k)' <=> a.kind = "let")
      BY <1>2, <1>3, <1>4, <2>1
    <3>3. a.kind = "handler" => d = bds_top
      OBVIOUS
    <3> QED
      BY <2>1, <3>1, <3>2, <3>3
  <2>2. CASE k # n + 1
    <3>1. k \in 1 .. n
      BY <1>1, <2>2
    <3>2. code'[k] = code[k] /\ new[k] = depth[k] /\ (Let(k)' <=> Let(k))
      BY <1>2, <1>3, <1>4, <3>1
    <3>3. code[k].at # "top" \/ "binding" \in Windows
      <4>1. code[k].at = "top" => k = n \/ "binding" \in Windows
        BY <1>0, <3>1 DEF Filled
      <4> QED
        BY <1>1, <4>1
    <3>4. Let(k) => depth[k] \in 1 .. MaxBinds
      BY <1>0, <3>1 DEF Filled
    <3>5. Let(k) /\ code[k].at # "top" =>
            /\ bds[depth[k]] = [sym |-> code[k].key, val |-> code[k].was]
            /\ code[k].was \in Values
      BY <1>0, <3>1 DEF Filled
    <3>6. code[k].kind = "handler" =>
            /\ code[k].saved.bds_top = depth[k]
            /\ depth[k] # 0 => code[k].saved.slot = bds[depth[k]]
      BY <1>0, <3>1 DEF Filled
    <3> QED
      BY <3>2, <3>3, <3>4, <3>5, <3>6
  <2> QED
    BY <2>1, <2>2
<1>12. ASSUME NEW i \in 1 .. Len(frs')
       PROVE  frs'[i].bds_top = new[frs'[i].jmpbuf]
  <2>1. CASE i \in 1 .. Len(frs) /\ frs'[i] = frs[i]
    <3>1. frs[i].jmpbuf \in 1 .. n /\ frs[i].bds_top = depth[frs[i].jmpbuf]
      BY <1>0, <2>1, FramesIs DEF FrameInv, Filled
    <3> QED
      BY <1>3, <2>1, <3>1
  <2>2. CASE frs'[i].jmpbuf = n + 1 /\ frs'[i].bds_top = d
    BY <1>3, <2>2
  <2> QED
    BY <1>0, <2>1, <2>2
<1>13. Filled(new)'
  BY <1>2, <1>3, <1>11, <1>12 DEF Filled, Let
<1> QED
  BY <1>10, <1>13 DEF BindInv

\* The slot that a let fills is nobody else's.
LEMMA SlotBinds ==
  ASSUME TypeOK, TypeOK', FrameInv, BindInv, top.kind = "let", top.at = "top",
         NEW v \in Values,
         NEW a, Steps(a), a.kind = "let", a.key = top.key, a.was = v, a.at # "top",
         bds' = [bds EXCEPT ![bds_top] = [sym |-> top.key, val |-> v]],
         bds_top' = bds_top, frs' = frs
  PROVE  BindInv'
<1>1. PICK depth : Depths(depth) /\ Filled(depth)
  BY DEF BindInv
<1>2. PICK n \in Nat \ {0} : n = Len(code)
  BY Typed
<1>3. /\ Len(code') = n /\ code'[n] = a /\ top = code[n] /\ n \in 1 .. n
      /\ \A k \in 1 .. n : k # n => code'[k] = code[k]
  <2>1. \A k \in 1 .. n : k # n => k \in 1 .. n - 1
    OBVIOUS
  <2> QED
    BY <1>2, <2>1, Typed DEF Steps
<1>4. \A k \in 1 .. n : Let(k)' <=> Let(k)
  BY <1>3 DEF Let
<1>5. depth[n] = bds_top /\ depth[n] \in 1 .. MaxBinds
  BY <1>1, <1>2, <1>3 DEF Filled, Let
<1>6. \A k \in 1 .. n : depth[k] \in Nat /\ (k # n => depth[k] < bds_top)
  <2>1. \A k \in 1 .. n : k # n => k < n
    OBVIOUS
  <2> QED
    BY <1>1, <1>2, <1>3, <1>5, <2>1 DEF Depths, Let
<1>7. /\ bds'[bds_top] = [sym |-> top.key, val |-> v]
      /\ \A i \in 1 .. MaxBinds : i # bds_top => bds'[i] = bds[i]
  BY <1>5 DEF TypeOK
<1>8. Depths(depth)'
  <2>1. depth \in [1 .. n -> Nat] /\ depth[1] = 0
    BY <1>1, <1>2 DEF Depths
  <2>2. \A k \in 2 .. n : depth[k] = IF Let(k)' THEN depth[k - 1] + 1 ELSE depth[k - 1]
    <3> TAKE k \in 2 .. n
    <3>1. k \in 1 .. n
      OBVIOUS
    <3>2. depth[k] = IF Let(k) THEN depth[k - 1] + 1 ELSE depth[k - 1]
      BY <1>1, <1>2 DEF Depths
    <3> QED
      BY <1>4, <3>1, <3>2
  <2>3. \A j, k \in 1 .. n :
          j < k => depth[j] <= depth[k] /\ (Let(k)' => depth[j] < depth[k])
    BY <1>1, <1>2, <1>4 DEF Depths
  <2>4. \A i \in 1 .. depth[n] : \E k \in 1 .. n : Let(k)' /\ depth[k] = i
    BY <1>1, <1>2, <1>4 DEF Depths
  <2> QED
    BY <1>3, <2>1, <2>2, <2>3, <2>4 DEF Depths, Let
<1>9. ASSUME NEW k \in 1 .. n
      PROVE  /\ Let(k)' => depth[k] \in 1 .. MaxBinds
             /\ Let(k)' /\ code'[k].at # "top" =>
                  /\ bds'[depth[k]] = [sym |-> code'[k].key, val |-> code'[k].was]
                  /\ code'[k].was \in Values
             /\ code'[k].at = "top" => k = n \/ "binding" \in Windows
             /\ code'[k].kind = "handler" =>
                  /\ code'[k].saved.bds_top = depth[k]
                  /\ depth[k] # 0 => code'[k].saved.slot = bds'[depth[k]]
  <2>1. CASE k = n
    BY <1>3, <1>5, <1>7, <2>1
  <2>2. CASE k # n
    <3>1. code'[k] = code[k] /\ depth[k] \in Nat /\ depth[k] < bds_top
      BY <1>3, <1>6, <2>2
    <3>2. depth[k] # 0 => bds'[depth[k]] = bds[depth[k]]
      BY <1>5, <1>7, <3>1
    <3>3. Let(k) => depth[k] \in 1 .. MaxBinds
      BY <1>1, <1>2 DEF Filled
    <3>4. Let(k) /\ code[k].at # "top" =>
            /\ bds[depth[k]] = [sym |-> code[k].key, val |-> code[k].was]
            /\ code[k].was \in Values
      BY <1>1, <1>2 DEF Filled
    <3>5. code[k].at = "top" => k = n \/ "binding" \in Windows
      BY <1>1, <1>2 DEF Filled
    <3>6. code[k].kind = "handler" =>
            /\ code[k].saved.bds_top = depth[k]
            /\ depth[k] # 0 => code[k].saved.slot = bds[depth[k]]
      BY <1>1, <1>2 DEF Filled
    <3>7. Let(k) => depth[k] # 0
      BY <3>3
    <3> QED
      BY <1>4, <3>1, <3>2, <3>3, <3>4, <3>5, <3>6, <3>7
  <2> QED
    BY <2>1, <2>2
<1>10. \A i \in 1 .. Len(frs') : frs'[i].bds_top = depth[frs'[i].jmpbuf]
  BY <1>1 DEF Filled
<1>11. Filled(depth)'
  BY <1>3, <1>5, <1>9, <1>10 DEF Filled, Let
<1> QED
  BY <1>8, <1>11 DEF BindInv

\* Steps of the innermost activation that leave the bind stack alone.
LEMMA StepBinds ==
  ASSUME TypeOK, TypeOK', FrameInv, BindInv, NEW a, Steps(a),
         a.kind = top.kind, a.key = top.key, a.was = top.was, a.saved = top.saved,
         top.at # "top", bds' = bds, bds_top' = bds_top,
         \A i \in 1 .. Len(frs') : i \in 1 .. Len(frs) /\ frs'[i] = frs[i]
  PROVE  BindInv'
<1>1. PICK depth : Depths(depth) /\ Filled(depth)
  BY DEF BindInv
<1>2. /\ Len(code) \in 1 .. Len(code) /\ Len(code') = Len(code)
      /\ code'[Len(code)] = a /\ top = code[Len(code)]
      /\ \A k \in 1 .. Len(code) - 1 : code'[k] = code[k]
  BY Typed DEF Steps
<1>3. bds_top' = depth[Len(code)]
  BY <1>1 DEF Filled
<1>4. \A i \in 1 .. Len(frs) : frs[i].jmpbuf \in 1 .. Len(code)
  BY FramesIs DEF FrameInv
<1> QED
  BY <1>1, <1>2, <1>3, <1>4, PrefixBinds

LEMMA PopBinds ==
  ASSUME TypeOK, TypeOK', FrameInv, BindInv, Pops, top.kind # "top",
         bds' = bds, bds_top' = IF top.kind = "let" THEN bds_top - 1 ELSE bds_top,
         \A i \in 1 .. Len(frs') :
           i \in 1 .. Len(frs) /\ frs'[i] = frs[i] /\ frs[i].jmpbuf \in 1 .. Len(code) - 1
  PROVE  BindInv'
<1>1. PICK depth : Depths(depth) /\ Filled(depth)
  BY DEF BindInv
<1>2. PICK n \in Nat \ {0} : n = Len(code)
  BY Typed
<1>3. n # 1
  <2>1. top = code[n]
    BY <1>2, Typed
  <2> QED
    BY <1>2, <2>1 DEF FrameInv, Shapes
<1>4. PICK m \in 1 .. n : m = n - 1
  <2>1. n - 1 \in 1 .. n
    BY <1>3
  <2> QED
    BY <2>1
<1>5. Len(code') = m /\ \A k \in 1 .. m : code'[k] = code[k]
  BY <1>2, <1>4 DEF Pops
<1>6. bds_top' = depth[m]
  <2>1. n \in 2 .. n /\ m \in Nat /\ top = code[n] /\ n - 1 = m
    BY <1>2, <1>3, <1>4, Typed
  <2>2. depth[n] = IF Let(n) THEN depth[m] + 1 ELSE depth[m]
    BY <1>1, <1>2, <2>1 DEF Depths
  <2>3. depth[m] \in Nat /\ bds_top = depth[n]
    BY <1>1, <1>2, <1>4 DEF Depths, Filled
  <2> QED
    BY <2>1, <2>2, <2>3 DEF Let
<1>7. m \in 1 .. Len(code) /\ m \in 1 .. m /\ \A k \in 1 .. m - 1 : k \in 1 .. m
  BY <1>2, <1>4
<1>8. code'[m] = code[m] /\ \A k \in 1 .. m - 1 : code'[k] = code[k]
  BY <1>5, <1>7
<1>9. \A i \in 1 .. Len(frs') :
        i \in 1 .. Len(frs) /\ frs'[i] = frs[i] /\ frs[i].jmpbuf \in 1 .. m
  BY <1>2, <1>4
<1> QED
  BY <1>1, <1>5, <1>6, <1>7, <1>8, <1>9, PrefixBinds

LEMMA UnwindBinds ==
  ASSUME TypeOK, TypeOK', FrameInv, BindInv, NEW f, UnwindsTo(f),
         bds' = bds, bds_top' = frs[f].bds_top
  PROVE  BindInv'
<1>1. PICK depth : Depths(depth) /\ Filled(depth)
  BY DEF BindInv
<1>2. PICK m : m = frs[f].jmpbuf
  OBVIOUS
<1>3. /\ f \in 1 .. Len(frs) /\ m \in 1 .. Len(code) /\ Len(code') = m
      /\ Len(frs') = f /\ \A i \in 1 .. f : frs'[i] = frs[i]
      /\ code'[m] = [code[m] EXCEPT !.at = "pushed"]
      /\ \A k \in 1 .. m - 1 : code'[k] = code[k]
  BY <1>2 DEF UnwindsTo
<1>4. bds_top' = depth[m]
  BY <1>1, <1>2, <1>3 DEF Filled
<1>5. code[m] \in Activations
  BY <1>3, Typed
<1>6. /\ code'[m].kind = code[m].kind /\ code'[m].key = code[m].key
      /\ code'[m].was = code[m].was /\ code'[m].saved = code[m].saved
  BY <1>3, <1>5 DEF Activations
<1>7. code[m].at # "top"
  <2>1. Framed(code[m])
    BY <1>2, <1>3, FramesIs DEF FrameInv
  <2> QED
    BY <2>1 DEF Framed
<1>8. ASSUME NEW i \in 1 .. Len(frs')
      PROVE  i \in 1 .. Len(frs) /\ frs'[i] = frs[i] /\ frs[i].jmpbuf \in 1 .. m
  <2>1. Len(frs) \in Nat /\ Len(code) \in Nat
    BY Typed
  <2>2. i \in 1 .. Len(frs) /\ i \in 1 .. f
    BY <1>3, <2>1
  <2>3. frs[i].jmpbuf \in 1 .. Len(code) /\ (i < f => frs[i].jmpbuf < m)
    BY <1>2, <1>3, <2>1, <2>2, FramesIs DEF FrameInv
  <2> QED
    BY <1>2, <1>3, <2>1, <2>2, <2>3
<1>9. \A i \in 1 .. depth[m] : bds'[i] = bds[i]
  OBVIOUS
<1>10. code[m].at = "top" => code'[m].at = "top"
  BY <1>7
<1>11. m \in 1 .. Len(code) /\ Len(code') = m /\ \A k \in 1 .. m - 1 : code'[k] = code[k]
  BY <1>3
<1> QED
  BY <1>1, <1>4, <1>6, <1>8, <1>9, <1>10, <1>11, PrefixBinds

-------------------------------------------------------------------------------
(* The actions.                                                            *)

LEMMA RunningIsQuiet == TypeOK /\ FrameInv /\ Running => ~nlj.active
BY DEF FrameInv, Landing, Running, top

LEMMA EnterStep ==
  ASSUME IInv, NEW kind \in Kinds, NEW tag \in Tags \cup {Nothing}, Enter(kind, tag)
  PROVE  IInv'
<1> DEFINE a == Activation(kind, "pushed", tag, Nothing, Nothing)
           f == Pushed(kind, tag)
<1>1. /\ Running /\ Calls(a) /\ frs' = Append(frs, f)
      /\ bds' = bds /\ bds_top' = bds_top /\ dbind' = dbind /\ nlj' = nlj
      /\ in_signal_handler' = in_signal_handler
  BY DEF Enter, binding
<1>2. TypeOK /\ FrameInv /\ BindInv /\ ~nlj'.active /\ top.at # "top" /\ bds_top \in 0 .. MaxBinds
  BY <1>1, RunningIsQuiet DEF IInv, Running, TypeOK
<1>3. NoJump \in Jumps
  BY DEF NoJump, Jumps
<1>4. a \in Activations
  BY <1>3 DEF Activation, Activations
<1>5. Len(code) \in Nat /\ frs \in Seq(Frames) /\ Len(frs) \in Nat
  BY <1>2, Typed
<1>6. f \in Frames
  BY <1>2, <1>5 DEF Pushed, Frames, Class, TypeOK
<1>7. Pushes(a) /\ code' \in Seq(Activations) /\ Len(code') \in 1 .. MaxCode
  BY <1>1, <1>2, <1>4, CallsPushes
<1>8. PushesFrame(f) /\ frs' \in Seq(Frames)
  BY <1>1, <1>5, <1>6, PushedOn DEF PushesFrame
<1>9. /\ a.kind = kind /\ a.at = "pushed" /\ a.key = tag
      /\ f.jmpbuf = Len(code) + 1 /\ f.class = Class(kind) /\ f.tag = tag /\ f.bds_top = bds_top
  BY DEF Activation, Pushed
<1>10. Framed(a) /\ Shape(a) /\ a.kind # "top" /\ a.kind # "let" /\ a.kind # "handler"
  BY <1>9 DEF Framed, Shape, Kinds
<1> HIDE DEF a, f
<1>11. TypeOK'
  BY <1>1, <1>2, <1>7, <1>8 DEF TypeOK
<1>12. FrameInv'
  BY <1>2, <1>7, <1>8, <1>9, <1>10, <1>11, EnterInv
<1>13. BindInv'
  <2>1. PICK depth : Depths(depth) /\ Filled(depth)
    BY <1>2 DEF BindInv
  <2>2. PICK d \in Nat : d = bds_top /\ d <= MaxBinds
    BY <1>2
  <2>3. \A i \in 1 .. Len(frs') :
          \/ i \in 1 .. Len(frs) /\ frs'[i] = frs[i]
          \/ frs'[i].jmpbuf = Len(code) + 1 /\ frs'[i].bds_top = d
    BY <1>5, <1>8, <1>9, <2>2 DEF PushesFrame
  <2> QED
    BY <1>1, <1>2, <1>7, <1>9, <1>10, <1>11, <2>1, <2>2, <2>3, PushBinds
<1> QED
  BY <1>11, <1>12, <1>13 DEF IInv

LEMMA BindStep ==
  ASSUME IInv, NEW s \in Symbols, Bind(s)
  PROVE  IInv'
<1> DEFINE a == Activation("let", "top", s, Nothing, Nothing)
<1>1. /\ Running /\ bds_top < MaxBinds /\ Calls(a) /\ bds_top' = bds_top + 1
      /\ UNCHANGED <<frs, bds, dbind, nlj, in_signal_handler>>
  BY DEF Bind
<1>2. TypeOK /\ FrameInv /\ BindInv /\ ~nlj'.active /\ top.at # "top" /\ bds_top \in 0 .. MaxBinds
  BY <1>1, RunningIsQuiet DEF IInv, Running, TypeOK
<1>3. NoJump \in Jumps
  BY DEF NoJump, Jumps
<1>4. a \in Activations
  BY <1>3 DEF Activation, Activations
<1>5. Pushes(a) /\ code' \in Seq(Activations) /\ Len(code') \in 1 .. MaxCode
  BY <1>1, <1>2, <1>4, CallsPushes
<1>6. a.kind = "let" /\ a.at = "top" /\ a.key = s
  BY DEF Activation
<1>7. ~Framed(a) /\ Shape(a)
  BY <1>6 DEF Framed, Shape, Kinds
<1> HIDE DEF a
<1>8. TypeOK'
  BY <1>1, <1>2, <1>5 DEF TypeOK
<1>9. FrameInv'
  BY <1>1, <1>2, <1>5, <1>6, <1>7, <1>8, PushInv
<1>10. BindInv'
  <2>1. PICK depth : Depths(depth) /\ Filled(depth)
    BY <1>2 DEF BindInv
  <2>2. PICK d \in Nat : d = bds_top + 1 /\ d <= MaxBinds
    BY <1>1, <1>2
  <2>3. \A i \in 1 .. Len(frs') : i \in 1 .. Len(frs) /\ frs'[i] = frs[i]
    BY <1>1
  <2> QED
    BY <1>1, <1>2, <1>5, <1>6, <1>8, <2>1, <2>2, <2>3, PushBinds
<1> QED
  BY <1>8, <1>9, <1>10 DEF IInv

LEMMA InterruptStep ==
  ASSUME IInv, "landing" \notin Windows, Interrupt
  PROVE  IInv'
<1> DEFINE saved == [nlj |-> nlj, bds_top |-> bds_top,
                     slot |-> IF bds_top = 0 THEN Nothing ELSE bds[bds_top],
                     handler |-> in_signal_handler]
           a == Activation("handler", "body", Nothing, Nothing, saved)
<1>1. /\ ~(top.at = "pushed" /\ nlj.active) /\ Calls(a)
      /\ top.at # "top" \/ "binding" \in Windows
      /\ in_signal_handler' = TRUE
      /\ bds' = bds /\ bds_top' = bds_top /\ dbind' = dbind /\ nlj' = nlj /\ frs' = frs
  BY DEF Interrupt, binding
<1>2. TypeOK /\ FrameInv /\ BindInv /\ ~nlj.active /\ bds_top \in 0 .. MaxBinds
  BY <1>1 DEF IInv, TypeOK, FrameInv, Landing, top
<1>3. NoJump \in Jumps
  BY DEF NoJump, Jumps
<1>4. saved \in SavedGlobals
  <2>1. bds_top # 0 => bds[bds_top] \in Slots
    BY <1>2 DEF TypeOK
  <2> QED
    BY <1>2, <2>1 DEF SavedGlobals, TypeOK
<1>5. /\ saved.nlj = nlj /\ saved.bds_top = bds_top
      /\ bds_top # 0 => saved.slot = bds[bds_top]
  OBVIOUS
<1> HIDE DEF saved
<1>6. a \in Activations
  BY <1>3, <1>4 DEF Activation, Activations
<1>7. Pushes(a) /\ code' \in Seq(Activations) /\ Len(code') \in 1 .. MaxCode
  BY <1>1, <1>2, <1>6, CallsPushes
<1>8. a.kind = "handler" /\ a.at = "body" /\ a.saved = saved
  BY DEF Activation
<1>9. ~Framed(a) /\ Shape(a)
  BY <1>2, <1>4, <1>5, <1>8 DEF Framed, Shape, Kinds
<1> HIDE DEF a
<1>10. TypeOK'
  BY <1>1, <1>2, <1>7 DEF TypeOK
<1>11. FrameInv'
  BY <1>1, <1>2, <1>7, <1>8, <1>9, <1>10, PushInv
<1>12. BindInv'
  <2>1. PICK depth : Depths(depth) /\ Filled(depth)
    BY <1>2 DEF BindInv
  <2>2. PICK d \in Nat : d = bds_top /\ d <= MaxBinds
    BY <1>2
  <2>3. \A i \in 1 .. Len(frs') : i \in 1 .. Len(frs) /\ frs'[i] = frs[i]
    BY <1>1
  <2> QED
    BY <1>1, <1>2, <1>5, <1>7, <1>8, <1>10, <2>1, <2>2, <2>3, PushBinds
<1> QED
  BY <1>10, <1>11, <1>12 DEF IInv

LEMMA TopShape ==
  ASSUME TypeOK, FrameInv
  PROVE  Shape(top) /\ (top.kind = "top" <=> Len(code) = 1) /\ top \in Activations
BY Typed DEF FrameInv, Shapes

LEMMA FramesBelow ==
  ASSUME TypeOK, FrameInv, Framed(top), PopsFrame
  PROVE  \A i \in 1 .. Len(frs') :
           i \in 1 .. Len(frs) /\ frs'[i] = frs[i] /\ frs[i].jmpbuf \in 1 .. Len(code) - 1
<1>1. Len(code) \in Nat /\ Len(frs) \in Nat
  BY Typed
<1>2. \A i \in 1 .. Len(frs) - 1 : frs[i].jmpbuf < Len(code)
  BY TopFrame DEF FrameInv
<1>3. \A i \in 1 .. Len(frs) : frs[i].jmpbuf \in 1 .. Len(code)
  BY FramesIs DEF FrameInv
<1>4. Len(frs') = Len(frs) - 1 /\ \A i \in 1 .. Len(frs) - 1 : frs'[i] = frs[i]
  BY DEF PopsFrame
<1>5. \A i \in 1 .. Len(frs) - 1 : i \in 1 .. Len(frs)
  BY <1>1
<1> QED
  BY <1>1, <1>2, <1>3, <1>4, <1>5

LEMMA BeginStep ==
  ASSUME IInv, Begin \/ LandTagbody
  PROVE  IInv'
<1> DEFINE a == [top EXCEPT !.at = "body"]
<1>1. /\ top.at = "pushed" /\ Goes(a)
      /\ UNCHANGED <<frs, in_signal_handler>>
      /\ bds' = bds /\ bds_top' = bds_top /\ dbind' = dbind
  BY DEF Begin, LandTagbody, binding
<1>2. TypeOK /\ FrameInv /\ BindInv /\ Shape(top) /\ top \in Activations
  BY TopShape DEF IInv
<1>0. nlj' \in Jumps /\ ~nlj'.active
  BY <1>2 DEF Begin, LandTagbody, TypeOK, Jumps
<1>3. /\ a \in Activations /\ a.at = "body" /\ a.kind = top.kind /\ a.key = top.key
      /\ a.was = top.was /\ a.saved = top.saved
  BY <1>2 DEF Activations
<1>4. top.kind \in Kinds
  BY <1>1, <1>2 DEF Shape, Kinds, Activations
<1>5. Framed(top) /\ Framed(a) /\ Shape(a)
  BY <1>1, <1>2, <1>3, <1>4 DEF Framed, Shape, Kinds
<1> HIDE DEF a
<1>6. Steps(a) /\ code' \in Seq(Activations) /\ Len(code') \in 1 .. MaxCode
  BY <1>1, <1>2, <1>3, GoesSteps
<1>7. TypeOK'
  BY <1>0, <1>1, <1>2, <1>6 DEF TypeOK
<1>8. FrameInv'
  BY <1>0, <1>1, <1>2, <1>3, <1>5, <1>6, <1>7, BeginInv
<1>9. BindInv'
  BY <1>1, <1>2, <1>3, <1>6, <1>7, StepBinds
<1> QED
  BY <1>7, <1>8, <1>9 DEF IInv

\* A form with a frame ends.
LEMMA EndStep ==
  ASSUME IInv, Framed(top), frs' = Front(frs), code' = Front(code),
         nlj' \in Jumps, ~nlj'.active,
         UNCHANGED <<bds, bds_top, dbind, in_signal_handler>>
  PROVE  IInv'
<1>1. TypeOK /\ FrameInv /\ BindInv /\ Shape(top) /\ FramesMatch /\ Shapes
  BY TopShape DEF IInv, FrameInv
<1>2. top.kind # "top" /\ top.kind # "let"
  BY DEF Framed, Kinds
<1>3. PopsFrame /\ frs' \in Seq(Frames)
  BY <1>1, FrontPopsFrame
<1>4. Pops /\ code' \in Seq(Activations) /\ Len(code') \in 1 .. MaxCode
  BY <1>1, <1>2, FrontPops
<1>5. TypeOK'
  BY <1>1, <1>3, <1>4 DEF TypeOK
<1>6. FrameInv'
  BY <1>1, <1>3, <1>4, <1>5, PopWithFrameInv
<1>7. BindInv'
  BY <1>1, <1>2, <1>3, <1>4, <1>5, FramesBelow, PopBinds
<1> QED
  BY <1>5, <1>6, <1>7 DEF IInv

\* The body of an unwind-protect ends.
LEMMA EndProtectedStep ==
  ASSUME IInv, Framed(top), top.kind = "protect", frs' = Front(frs),
         NEW a \in Activations, Goes(a), a.at \in {"cleanup", "recleanup"},
         a.kind = "protect", a.key = top.key, a.was = top.was, a.saved = top.saved,
         a.at = "recleanup" => nlj.active /\ a.jump = nlj,
         nlj' \in Jumps, ~nlj'.active,
         UNCHANGED <<bds, bds_top, dbind, in_signal_handler>>
  PROVE  IInv'
<1>1. TypeOK /\ FrameInv /\ BindInv /\ FramesMatch /\ Shapes
  BY DEF IInv, FrameInv
<1>2. PopsFrame /\ frs' \in Seq(Frames)
  BY <1>1, FrontPopsFrame
<1>3. Steps(a) /\ code' \in Seq(Activations) /\ Len(code') \in 1 .. MaxCode
  BY <1>1, GoesSteps
<1>4. ~Framed(a) /\ Shape(a) /\ top.at # "top"
  BY DEF Framed, Shape
<1>5. TypeOK'
  BY <1>1, <1>2, <1>3 DEF TypeOK
<1>6. FrameInv'
  BY <1>1, <1>2, <1>3, <1>4, <1>5, CleanupInv
<1>7. BindInv'
  BY <1>1, <1>2, <1>3, <1>4, <1>5, FramesBelow, StepBinds
<1> QED
  BY <1>5, <1>6, <1>7 DEF IInv

LEMMA LandStep ==
  ASSUME IInv, Land \/ Leave
  PROVE  IInv'
<1>1. /\ frs' = Front(frs) /\ code' = Front(code)
      /\ UNCHANGED <<bds, bds_top, dbind, in_signal_handler>>
  BY DEF Land, Leave, binding
<1>2. TypeOK /\ FrameInv /\ Shape(top) /\ top \in Activations
  BY TopShape DEF IInv
<1>3. Framed(top)
  BY <1>2 DEF Land, Leave, Shape, Framed, Kinds, Activations
<1>4. nlj' \in Jumps /\ ~nlj'.active
  BY <1>2, RunningIsQuiet DEF Land, Leave, Running, TypeOK, Jumps
<1> QED
  BY <1>1, <1>3, <1>4, EndStep

LEMMA LandProtectStep ==
  ASSUME IInv, LandProtect
  PROVE  IInv'
<1> DEFINE a == [top EXCEPT !.at = "recleanup", !.jump = nlj]
<1>1. /\ top.at = "pushed" /\ nlj.active /\ top.kind = "protect"
      /\ nlj' = [nlj EXCEPT !.active = FALSE]
      /\ frs' = Front(frs) /\ Goes(a)
      /\ UNCHANGED <<bds, bds_top, dbind, in_signal_handler>>
  BY DEF LandProtect, binding
<1>2. TypeOK /\ nlj \in Jumps /\ top \in Activations
  BY Typed DEF IInv, TypeOK
<1>3. /\ a \in Activations /\ a.at = "recleanup" /\ a.jump = nlj /\ a.kind = "protect"
      /\ a.key = top.key /\ a.was = top.was /\ a.saved = top.saved
  BY <1>1, <1>2 DEF Activations
<1>4. nlj' \in Jumps /\ ~nlj'.active
  BY <1>1, <1>2 DEF Jumps
<1>5. Framed(top)
  BY <1>1 DEF Framed, Kinds
<1> HIDE DEF a
<1> QED
  BY <1>1, <1>3, <1>4, <1>5, EndProtectedStep

LEMMA LeaveProtectedStep ==
  ASSUME IInv, LeaveProtected
  PROVE  IInv'
<1> DEFINE a == [top EXCEPT !.at = "cleanup"]
<1>1. /\ top.at = "body" /\ top.kind = "protect" /\ nlj' = nlj
      /\ frs' = Front(frs) /\ Goes(a)
      /\ UNCHANGED <<bds, bds_top, dbind, in_signal_handler>>
  BY DEF LeaveProtected, binding
<1>2. TypeOK /\ nlj \in Jumps /\ top \in Activations /\ ~nlj.active
  BY <1>1, Typed, RunningIsQuiet DEF IInv, TypeOK, Running
<1>3. /\ a \in Activations /\ a.at = "cleanup" /\ a.kind = "protect"
      /\ a.key = top.key /\ a.was = top.was /\ a.saved = top.saved
  BY <1>1, <1>2 DEF Activations
<1>4. Framed(top)
  BY <1>1 DEF Framed, Kinds
<1> HIDE DEF a
<1> QED
  BY <1>1, <1>2, <1>3, <1>4, EndProtectedStep

\* A form without a frame, or a handler, ends.
LEMMA EndUnframedStep ==
  ASSUME IInv, ~Framed(top), top.kind # "top", code' = Front(code),
         nlj' \in Jumps, ~nlj'.active, in_signal_handler' \in BOOLEAN,
         bds_top' = IF top.kind = "let" THEN bds_top - 1 ELSE bds_top,
         top.kind = "let" => top.at # "top",
         UNCHANGED <<bds, dbind, frs>>
  PROVE  IInv'
<1>1. TypeOK /\ FrameInv /\ BindInv /\ FramesMatch /\ Shapes
  BY DEF IInv, FrameInv
<1>2. Pops /\ code' \in Seq(Activations) /\ Len(code') \in 1 .. MaxCode
  BY <1>1, FrontPops
<1>3. bds_top' \in 0 .. MaxBinds
  BY <1>1, TopSlot DEF TypeOK
<1>4. TypeOK'
  BY <1>1, <1>2, <1>3 DEF TypeOK
<1>5. FrameInv'
  BY <1>1, <1>2, <1>4, PopInv
<1>6. \A i \in 1 .. Len(frs') :
        i \in 1 .. Len(frs) /\ frs'[i] = frs[i] /\ frs[i].jmpbuf \in 1 .. Len(code) - 1
  BY <1>1, NoTopFrame
<1>7. BindInv'
  BY <1>1, <1>2, <1>4, <1>6, PopBinds
<1> QED
  BY <1>4, <1>5, <1>7 DEF IInv

LEMMA LeaveCleanupStep ==
  ASSUME IInv, LeaveCleanup \/ UnbindTop
  PROVE  IInv'
<1>1. TypeOK /\ FrameInv /\ Shape(top) /\ top \in Activations
  BY TopShape DEF IInv
<1>2. ~nlj.active
  BY <1>1 DEF FrameInv, Landing, LeaveCleanup, UnbindTop, top
<1>3. CASE LeaveCleanup
  <2>1. /\ top.at = "cleanup" /\ code' = Front(code)
        /\ UNCHANGED <<frs, bds, bds_top, dbind, nlj, in_signal_handler>>
    BY <1>3 DEF LeaveCleanup, binding
  <2>2. top.kind = "protect"
    BY <1>1, <2>1 DEF Shape, Activations, Kinds
  <2>3. ~Framed(top)
    BY <2>1 DEF Framed
  <2>4. nlj' \in Jumps /\ in_signal_handler' \in BOOLEAN
    BY <1>1, <2>1 DEF TypeOK
  <2> QED
    BY <1>2, <2>1, <2>2, <2>3, <2>4, EndUnframedStep
<1>4. CASE UnbindTop
  <2>1. /\ top.at = "restored" /\ code' = Front(code) /\ bds_top' = bds_top - 1
        /\ UNCHANGED <<frs, bds, dbind, nlj, in_signal_handler>>
    BY <1>4 DEF UnbindTop
  <2>2. top.kind = "let"
    BY <1>1, <2>1 DEF Shape, Activations, Kinds
  <2>3. ~Framed(top)
    BY <2>1 DEF Framed
  <2>4. nlj' \in Jumps /\ in_signal_handler' \in BOOLEAN
    BY <1>1, <2>1 DEF TypeOK
  <2> QED
    BY <1>2, <2>1, <2>2, <2>3, <2>4, EndUnframedStep
<1> QED
  BY <1>3, <1>4

LEMMA HandlerReturnStep ==
  ASSUME IInv, HandlerReturn
  PROVE  /\ IInv'
         /\ bds' = bds /\ bds_top' = bds_top
         /\ ~nlj.active /\ ~nlj'.active
         /\ \A i \in DOMAIN frs : frs[i].jmpbuf < Len(code)
<1>1. TypeOK /\ FrameInv /\ BindInv /\ Shape(top) /\ top \in Activations
  BY TopShape DEF IInv
<1>2. /\ top.at = "body" /\ top.kind = "handler" /\ code' = Front(code)
      /\ nlj' = top.saved.nlj /\ bds_top' = top.saved.bds_top
      /\ bds' = IF bds_top' = 0 THEN bds ELSE [bds EXCEPT ![bds_top'] = top.saved.slot]
      /\ in_signal_handler' = top.saved.handler
      /\ UNCHANGED <<frs, dbind>>
  BY DEF HandlerReturn
<1>3. top.saved \in SavedGlobals /\ ~top.saved.nlj.active
  BY <1>1, <1>2 DEF Shape
<1>4. PICK depth : Depths(depth) /\ Filled(depth)
  BY <1>1 DEF BindInv
<1>5. Len(code) \in 1 .. Len(code) /\ top = code[Len(code)]
  BY <1>1, Typed
<1>6. /\ bds_top = depth[Len(code)] /\ top.saved.bds_top = depth[Len(code)]
      /\ depth[Len(code)] # 0 => top.saved.slot = bds[depth[Len(code)]]
  BY <1>2, <1>4, <1>5 DEF Filled
<1>7. bds_top' = bds_top /\ bds' = bds
  <2>1. bds_top' = bds_top
    BY <1>2, <1>6
  <2>2. bds_top # 0 => top.saved.slot = bds[bds_top]
    BY <1>6
  <2>3. bds \in [1 .. MaxBinds -> Slots]
    BY <1>1 DEF TypeOK
  <2>4. bds = [i \in 1 .. MaxBinds |-> bds[i]]
    BY <2>3
  <2>5. bds_top # 0 => [bds EXCEPT ![bds_top] = bds[bds_top]] = bds
    BY <2>3
  <2> QED
    BY <1>2, <2>1, <2>2, <2>5
<1>8. nlj' \in Jumps /\ ~nlj'.active /\ in_signal_handler' \in BOOLEAN
  BY <1>2, <1>3 DEF SavedGlobals
<1>9. ~Framed(top)
  BY <1>2 DEF Framed, Kinds
<1>10. IInv'
  BY <1>2, <1>7, <1>8, <1>9, EndUnframedStep
<1>11. ~nlj.active
  BY <1>1, <1>2, RunningIsQuiet DEF Running
<1>12. \A i \in DOMAIN frs : frs[i].jmpbuf < Len(code)
  <2>1. \A i \in 1 .. Len(frs) : frs[i].jmpbuf \in 1 .. Len(code) - 1
    BY <1>1, <1>9, NoTopFrame DEF FrameInv
  <2> QED
    BY <1>1, <2>1, Typed
<1> QED
  BY <1>7, <1>8, <1>10, <1>11, <1>12

\* Steps of a let.
LEMMA LetStep ==
  ASSUME IInv, BindSlot \/ (\E v \in Values : BindValue(v)) \/ Unbind
  PROVE  IInv'
<1>1. TypeOK /\ FrameInv /\ BindInv /\ Shape(top) /\ top \in Activations
  BY TopShape DEF IInv
<1>2. top.at \in {"top", "slot", "body"} /\ top.kind = "let" /\ top.key \in Symbols
  BY <1>1 DEF BindSlot, BindValue, Unbind, Shape, Activations, Kinds
<1>3. ~Framed(top) /\ ~nlj.active
  BY <1>1, <1>2 DEF Framed, Kinds, FrameInv, Landing, top
<1>4. ASSUME NEW a \in Activations, Goes(a), a.kind = "let", a.at \in {"slot", "body", "restored"},
             a.key = top.key, UNCHANGED <<frs, nlj, in_signal_handler, bds_top>>,
             dbind' \in [Symbols -> Values], bds' \in [1 .. MaxBinds -> Slots]
      PROVE  TypeOK' /\ FrameInv' /\ Steps(a)
  <2>1. Steps(a) /\ code' \in Seq(Activations) /\ Len(code') \in 1 .. MaxCode
    BY <1>1, <1>4, GoesSteps
  <2>2. TypeOK'
    BY <1>1, <1>4, <2>1 DEF TypeOK
  <2>3. ~Framed(a) /\ Shape(a)
    BY <1>2, <1>4 DEF Framed, Kinds, Shape
  <2> QED
    BY <1>1, <1>2, <1>3, <1>4, <2>1, <2>2, <2>3, StepInv
<1>5. CASE BindSlot
  <2> DEFINE v == dbind[top.key]
             a == [top EXCEPT !.at = "slot", !.was = v]
             slot == [sym |-> top.key, val |-> v]
  <2>1. /\ top.at = "top" /\ bds' = [bds EXCEPT ![bds_top] = slot] /\ Goes(a)
        /\ UNCHANGED <<frs, nlj, in_signal_handler, bds_top, dbind>>
    BY <1>5 DEF BindSlot
  <2>2. v \in Values
    BY <1>1, <1>2 DEF TypeOK
  <2>3. /\ a \in Activations /\ a.kind = "let" /\ a.at = "slot" /\ a.key = top.key
        /\ a.was = v
    BY <1>1, <1>2, <2>2 DEF Activations
  <2>4. slot \in Slots
    BY <1>2, <2>2 DEF Slots
  <2>5. bds' \in [1 .. MaxBinds -> Slots] /\ dbind' \in [Symbols -> Values]
    BY <1>1, <2>1, <2>4 DEF TypeOK
  <2> HIDE DEF a, v
  <2>6. TypeOK' /\ FrameInv' /\ Steps(a)
    BY <1>4, <2>1, <2>3, <2>5
  <2>7. BindInv'
    BY <1>1, <1>2, <2>1, <2>2, <2>3, <2>6, SlotBinds
  <2> QED
    BY <2>6, <2>7 DEF IInv
<1>6. ASSUME NEW v \in Values, BindValue(v)
      PROVE  IInv'
  <2> DEFINE a == [top EXCEPT !.at = "body"]
  <2>1. /\ top.at = "slot" /\ dbind' = [dbind EXCEPT ![top.key] = v] /\ Goes(a)
        /\ UNCHANGED <<frs, nlj, in_signal_handler, bds_top, bds>>
    BY <1>6 DEF BindValue
  <2>2. /\ a \in Activations /\ a.kind = "let" /\ a.at = "body" /\ a.key = top.key
        /\ a.was = top.was /\ a.saved = top.saved
    BY <1>1, <1>2 DEF Activations
  <2>3. bds' \in [1 .. MaxBinds -> Slots] /\ dbind' \in [Symbols -> Values]
    BY <1>1, <2>1 DEF TypeOK
  <2> HIDE DEF a
  <2>4. TypeOK' /\ FrameInv' /\ Steps(a)
    BY <1>4, <2>1, <2>2, <2>3
  <2>5. BindInv'
    BY <1>1, <1>2, <2>1, <2>2, <2>4, StepBinds
  <2> QED
    BY <2>4, <2>5 DEF IInv
<1>7. CASE Unbind
  <2> DEFINE a == [top EXCEPT !.at = "restored"]
  <2>1. /\ top.at = "body" /\ dbind' = [dbind EXCEPT ![bds[bds_top].sym] = bds[bds_top].val]
        /\ Goes(a)
        /\ UNCHANGED <<frs, nlj, in_signal_handler, bds_top, bds>>
    BY <1>7 DEF Unbind
  <2>2. /\ a \in Activations /\ a.kind = "let" /\ a.at = "restored" /\ a.key = top.key
        /\ a.was = top.was /\ a.saved = top.saved
    BY <1>1, <1>2 DEF Activations
  <2>3. bds[bds_top].val \in Values
    BY <1>1, <1>2, <2>1, TopSlot
  <2>4. bds' \in [1 .. MaxBinds -> Slots] /\ dbind' \in [Symbols -> Values]
    BY <1>1, <2>1, <2>3 DEF TypeOK
  <2> HIDE DEF a
  <2>5. TypeOK' /\ FrameInv' /\ Steps(a)
    BY <1>4, <2>1, <2>2, <2>4
  <2>6. BindInv'
    BY <1>1, <1>2, <2>1, <2>2, <2>5, StepBinds
  <2> QED
    BY <2>5, <2>6 DEF IInv
<1> QED
  BY <1>5, <1>6, <1>7

\* A slot that has been filled, by whichever binding, holds a value.
SlotInv == \A i \in 1 .. MaxBinds : bds[i].sym \in Symbols => bds[i].val \in Values

LEMMA SlotStep == IInv /\ SlotInv /\ [Next]_vars => SlotInv'
<1> SUFFICES ASSUME IInv, SlotInv, [Next]_vars
             PROVE  SlotInv'
  OBVIOUS
<1>1. ASSUME bds' = bds
      PROVE  SlotInv'
  BY <1>1 DEF SlotInv
<1>2. CASE BindSlot
  <2>1. TypeOK /\ FrameInv /\ Shape(top) /\ top \in Activations
    BY TopShape DEF IInv
  <2>2. /\ top.at = "top"
        /\ bds' = [bds EXCEPT ![bds_top] = [sym |-> top.key, val |-> dbind[top.key]]]
    BY <1>2 DEF BindSlot
  <2>3. top.key \in Symbols /\ dbind[top.key] \in Values
    BY <2>1, <2>2 DEF Shape, Activations, Kinds, TypeOK
  <2>4. bds \in [1 .. MaxBinds -> Slots]
    BY <2>1 DEF TypeOK
  <2> QED
    BY <2>2, <2>3, <2>4 DEF SlotInv
<1>3. CASE HandlerReturn
  BY <1>1, <1>3, HandlerReturnStep
<1>4. CASE ~BindSlot /\ ~HandlerReturn
  BY <1>1, <1>4 DEF Next, vars, binding, Enter, Begin, Land, LandTagbody, LandProtect, Leave,
     LeaveProtected, LeaveCleanup, GoOn, Throw, ReturnFrom, Unwind, Bind, BindValue, Unbind,
     UnbindTop, Setq, Interrupt
<1> QED
  BY <1>2, <1>3, <1>4

LEMMA UnwindStep ==
  ASSUME IInv, SlotInv, top.at # "top", NEW fr, NEW tag \in Tags \cup {Nothing},
         Stands([active |-> TRUE, fr |-> fr, tag |-> tag]), Unwind(fr, tag)
  PROVE  IInv'
<1> DEFINE f == Stop(fr)
<1>1. TypeOK /\ FrameInv /\ BindInv /\ FramesMatch
  BY DEF IInv, FrameInv
<1>2. fr \in 1 .. Len(frs)
  BY DEF Stands
<1>3. /\ UnwindsTo(f) /\ frs' \in Seq(Frames)
      /\ code' \in Seq(Activations) /\ Len(code') \in 1 .. MaxCode
  BY <1>1, <1>2, UnwindEffect
<1>4. f \in 1 .. Len(frs) /\ frs[f] \in Frames
  BY <1>1, <1>3, Typed DEF UnwindsTo
<1>5. /\ dbind' = Undone(frs[f].bds_top) /\ bds_top' = frs[f].bds_top /\ bds' = bds
      /\ in_signal_handler' = frs[f].handler
      /\ nlj' = [active |-> TRUE, fr |-> fr, tag |-> tag]
  BY DEF Unwind
<1>6. ASSUME NEW n \in Nat
      PROVE  Undone(n) \in [Symbols -> Values]
  <2> SUFFICES ASSUME NEW s \in Symbols
               PROVE  Undone(n)[s] \in Values
    BY DEF Undone
  <2> DEFINE mine == {i \in n + 1 .. bds_top : bds[i].sym = s}
  <2>1. bds_top \in Nat /\ mine \in SUBSET Nat /\ mine \subseteq 1 .. bds_top
    BY <1>1 DEF TypeOK
  <2>2. mine # {} => Min(mine) \in mine
    BY <2>1, MinIs
  <2>3. mine # {} => bds[Min(mine)].val \in Values
    <3>1. bds_top \in 0 .. MaxBinds
      BY <1>1 DEF TypeOK
    <3>2. mine # {} => Min(mine) \in 1 .. MaxBinds
      BY <2>1, <2>2, <3>1
    <3> QED
      BY <2>2, <3>2 DEF SlotInv
  <2>4. dbind[s] \in Values
    BY <1>1 DEF TypeOK
  <2> QED
    BY <2>3, <2>4 DEF Undone
<1>7. frs[f].bds_top \in 0 .. MaxBinds /\ frs[f].handler \in BOOLEAN
  BY <1>4 DEF Frames
<1>8. TypeOK'
  <2>1. nlj' \in Jumps
    BY <1>2, <1>5 DEF Jumps
  <2>2. dbind' \in [Symbols -> Values]
    BY <1>5, <1>6, <1>7
  <2> QED
    BY <1>1, <1>3, <1>5, <1>7, <2>1, <2>2 DEF TypeOK
<1>9. FrameInv'
  BY <1>1, <1>8, UnwindInv
<1>10. BindInv'
  BY <1>1, <1>3, <1>5, <1>8, UnwindBinds
<1> QED
  BY <1>8, <1>9, <1>10 DEF IInv

\* What the searches find stands.
LEMMA SearchStands ==
  ASSUME TypeOK, NEW tag,
         NEW T, T = frs_sch(tag) \/ T = frs_sch_catch(tag), T # {}
  PROVE  Stands([active |-> TRUE, fr |-> Max(T), tag |-> tag])
<1>1. DOMAIN frs = 1 .. Len(frs) /\ Len(frs) \in Nat
  BY Typed
<1>2. T \in SUBSET (1 .. Len(frs))
  BY <1>1 DEF frs_sch, frs_sch_catch
<1>3. Max(T) \in T
  BY <1>1, <1>2, MaxIs
<1> QED
  BY <1>1, <1>3 DEF Stands, frs_sch, frs_sch_catch

\* The jumps a program can make.
Jump(fr, tag) ==
  /\ top.at # "top" /\ tag \in Tags \cup {Nothing}
  /\ Stands([active |-> TRUE, fr |-> fr, tag |-> tag])
  /\ Unwind(fr, tag)

LEMMA Jumping ==
  ASSUME IInv, GoOn \/ \E t \in Tags : Throw(t) \/ ReturnFrom(t)
  PROVE  \E fr, tag : Jump(fr, tag)
<1>1. TypeOK /\ FrameInv
  BY DEF IInv
<1>2. CASE GoOn
  <2>1. Unwind(top.jump.fr, top.jump.tag) /\ top.at = "recleanup"
    BY <1>2 DEF GoOn
  <2>2. top.jump \in Jumps
    BY <1>1, TopShape DEF Activations
  <2>3. Stands(top.jump)
    BY <1>1, <2>1, StandsIs, Typed DEF FrameInv
  <2>4. Stands([active |-> TRUE, fr |-> top.jump.fr, tag |-> top.jump.tag])
    BY <2>3 DEF Stands
  <2>5. top.jump.tag \in Tags \cup {Nothing}
    BY <2>2 DEF Jumps
  <2> QED
    BY <2>1, <2>4, <2>5 DEF Jump
<1>3. ASSUME NEW t \in Tags, Throw(t) \/ ReturnFrom(t)
      PROVE  \E fr, tag : Jump(fr, tag)
  <2>1. top.at # "top"
    BY <1>3 DEF Throw, ReturnFrom, Running
  <2>2. CASE Throw(t)
    <3>1. frs_sch_catch(t) # {} /\ Unwind(Max(frs_sch_catch(t)), t)
      BY <2>2 DEF Throw
    <3>2. Stands([active |-> TRUE, fr |-> Max(frs_sch_catch(t)), tag |-> t])
      BY <1>1, <3>1, SearchStands
    <3> QED
      BY <2>1, <3>1, <3>2 DEF Jump
  <2>3. CASE ReturnFrom(t)
    <3>1. frs_sch(t) # {} /\ Unwind(Max(frs_sch(t)), t)
      BY <2>3 DEF ReturnFrom
    <3>2. Stands([active |-> TRUE, fr |-> Max(frs_sch(t)), tag |-> t])
      BY <1>1, <3>1, SearchStands
    <3> QED
      BY <2>1, <3>1, <3>2 DEF Jump
  <2> QED
    BY <1>3, <2>2, <2>3
<1> QED
  BY <1>2, <1>3

LEMMA SetqStep ==
  ASSUME IInv, dbind' \in [Symbols -> Values],
         UNCHANGED <<code, frs, bds, bds_top, nlj, in_signal_handler>>
  PROVE  IInv'
<1>1. TypeOK'
  BY DEF IInv, TypeOK
<1>2. FrameInv'
  BY DEF IInv, FrameInv, Shapes, FramesMatch, TargetStands, Landing
<1>3. BindInv'
  <2>1. PICK depth : Depths(depth) /\ Filled(depth)
    BY DEF IInv, BindInv
  <2>2. Depths(depth)'
    BY <2>1 DEF Depths, Let
  <2>3. Filled(depth)'
    BY <2>1 DEF Filled, Let
  <2> QED
    BY <2>2, <2>3 DEF BindInv
<1> QED
  BY <1>1, <1>2, <1>3 DEF IInv

LEMMA InitInv == Init => IInv
<1> SUFFICES ASSUME Init
             PROVE  IInv
  OBVIOUS
<1> DEFINE a == Activation("top", "body", Nothing, Nothing, Nothing)
<1>1. /\ code = <<a>> /\ frs = << >> /\ bds_top = 0 /\ dbind \in [Symbols -> Values]
      /\ bds = [i \in 1 .. MaxBinds |-> [sym |-> Nothing, val |-> Nothing]]
      /\ nlj = NoJump /\ in_signal_handler = FALSE
  BY DEF Init
<1>2. NoJump \in Jumps /\ ~NoJump.active
  BY DEF NoJump, Jumps
<1>3. a \in Activations
  BY <1>2 DEF Activation, Activations
<1>4. a.kind = "top" /\ a.at = "body"
  BY DEF Activation
<1> HIDE DEF a
<1>5. code \in Seq(Activations) /\ Len(code) = 1 /\ code[1] = a /\ 1 \in 1 .. MaxCode
  BY <1>1, <1>3
<1>6. frs \in Seq(Frames) /\ Len(frs) = 0
  BY <1>1
<1>7. [sym |-> Nothing, val |-> Nothing] \in Slots
  BY DEF Slots
<1>8. TypeOK
  <2>1. bds \in [1 .. MaxBinds -> Slots]
    BY <1>1, <1>7
  <2>2. bds_top \in 0 .. MaxBinds
    BY <1>1
  <2>4. in_signal_handler \in BOOLEAN /\ nlj \in Jumps
    BY <1>1, <1>2, Zenon
  <2>3. Len(code) \in 1 .. MaxCode
    BY <1>5
  <2> QED
    BY <1>1, <1>5, <1>6, <2>1, <2>2, <2>3, <2>4 DEF TypeOK
<1>9. ~Framed(a) /\ Shape(a)
  BY <1>4 DEF Framed, Kinds, Shape
<1>10. FrameInv
  <2>1. Shapes
    BY <1>4, <1>5, <1>9 DEF Shapes
  <2>2. FramesMatch
    BY <1>5, <1>6, <1>8, <1>9, FramesIs
  <2>3. TargetStands
    BY <1>1, <1>2, <1>4, <1>5, <1>8, StandsIs
  <2>4. Landing
    BY <1>1, <1>2 DEF Landing
  <2> QED
    BY <2>1, <2>2, <2>3, <2>4 DEF FrameInv
<1>11. BindInv
  <2> DEFINE depth == [k \in 1 .. 1 |-> 0]
  <2>1. depth \in [1 .. Len(code) -> Nat] /\ depth[1] = 0
    BY <1>5
  <2> HIDE DEF depth
  <2>2. Depths(depth)
    BY <1>5, <2>1 DEF Depths
  <2>3. Filled(depth)
    BY <1>1, <1>4, <1>5, <1>6, <2>1 DEF Filled, Let
  <2> QED
    BY <2>2, <2>3 DEF BindInv
<1> QED
  BY <1>8, <1>10, <1>11 DEF IInv

LEMMA NextInv ==
  ASSUME "landing" \notin Windows
  PROVE  IInv /\ SlotInv /\ [Next]_vars => IInv'
<1> SUFFICES ASSUME IInv, SlotInv, [Next]_vars
             PROVE  IInv'
  OBVIOUS
<1>1. ASSUME NEW tag \in Tags, Enter("catch", tag) \/ Enter("tagbody", tag)
      PROVE  IInv'
  BY <1>1, EnterStep DEF Kinds
<1>2. ASSUME NEW kind \in {"errset", "protect"}, Enter(kind, Nothing)
      PROVE  IInv'
  BY <1>2, EnterStep DEF Kinds
<1>3. CASE GoOn \/ \E t \in Tags : Throw(t) \/ ReturnFrom(t)
  BY <1>3, Jumping, UnwindStep DEF Jump
<1>4. CASE Begin \/ LandTagbody
  BY <1>4, BeginStep
<1>5. CASE Land \/ Leave
  BY <1>5, LandStep
<1>6. CASE LandProtect
  BY <1>6, LandProtectStep
<1>7. CASE LeaveProtected
  BY <1>7, LeaveProtectedStep
<1>8. CASE LeaveCleanup \/ UnbindTop
  BY <1>8, LeaveCleanupStep
<1>9. ASSUME NEW s \in Symbols, Bind(s)
      PROVE  IInv'
  BY <1>9, BindStep
<1>10. ASSUME NEW s \in Symbols, NEW v \in Values, Setq(s, v)
       PROVE  IInv'
  <2>1. dbind' \in [Symbols -> Values]
    BY <1>10 DEF Setq, IInv, TypeOK
  <2> QED
    BY <1>10, <2>1, SetqStep DEF Setq
<1>11. CASE BindSlot \/ (\E v \in Values : BindValue(v)) \/ Unbind
  BY <1>11, LetStep
<1>12. CASE Interrupt
  BY <1>12, InterruptStep
<1>13. CASE HandlerReturn
  BY <1>13, HandlerReturnStep
<1>14. CASE UNCHANGED vars
  BY <1>14, SetqStep DEF vars, binding, IInv, TypeOK
<1> QED
  BY <1>1, <1>2, <1>3, <1>4, <1>5, <1>6, <1>7, <1>8, <1>9, <1>10, <1>11, <1>12, <1>13, <1>14
  DEF Next

\* Handlers may run in the middle of bds_bind.
THEOREM Invariance == ASSUME "landing" \notin Windows PROVE Spec => [](IInv /\ SlotInv)
<1>1. Init => SlotInv
  BY DEF Init, SlotInv
<1>2. IInv /\ SlotInv /\ [Next]_vars => IInv' /\ SlotInv'
  BY NextInv, SlotStep
<1> QED
  BY <1>1, <1>2, InitInv, PTL DEF Spec

-------------------------------------------------------------------------------
\* Types: among them, that the bind stack does not leave its bounds.
THEOREM TypeCorrect == ASSUME "landing" \notin Windows PROVE Spec => []TypeOK
<1>1. IInv => TypeOK
  BY DEF IInv
<1>2. Spec => [](IInv /\ SlotInv)
  BY Invariance
<1> QED
  BY <1>1, <1>2, PTL

\* The frame stack holds the frames of the forms whose bodies run, and only these,
\* whatever was thrown through.
THEOREM FramesCorrect == ASSUME "landing" \notin Windows PROVE Spec => []FramesMatch
<1>1. IInv => FramesMatch
  BY DEF IInv, FrameInv
<1>2. Spec => [](IInv /\ SlotInv)
  BY Invariance
<1> QED
  BY <1>1, <1>2, PTL

\* The frame a jump is aimed at is there until the jump arrives.
THEOREM TargetsCorrect == ASSUME "landing" \notin Windows PROVE Spec => []TargetStands
<1>1. IInv => TargetStands
  BY DEF IInv, FrameInv
<1>2. Spec => [](IInv /\ SlotInv)
  BY Invariance
<1> QED
  BY <1>1, <1>2, PTL

\* Lisp code runs with nlj_active false.
THEOREM QuietCorrect == ASSUME "landing" \notin Windows PROVE Spec => []Quiet
<1>1. IInv => Quiet
  BY RunningIsQuiet DEF IInv, Quiet
<1>2. Spec => [](IInv /\ SlotInv)
  BY Invariance
<1> QED
  BY <1>1, <1>2, PTL

\* A handler that returns leaves the bind stack as it found it and no frame behind, even
\* one that ran in the middle of bds_bind.
THEOREM HandlersCorrect == ASSUME "landing" \notin Windows PROVE Spec => HandlersBalanced
<1>1. IInv /\ [Next]_vars =>
        [HandlerReturn =>
           /\ bds' = bds /\ bds_top' = bds_top
           /\ ~nlj.active /\ ~nlj'.active
           /\ \A i \in DOMAIN frs : frs[i].jmpbuf < Len(code)]_vars
  BY HandlerReturnStep
<1>2. Spec => [](IInv /\ SlotInv)
  BY Invariance
<1> QED
  BY <1>1, <1>2, PTL DEF Spec, HandlersBalanced

-------------------------------------------------------------------------------
(* What steps other than jumps do.                                         *)

Calm ==
  /\ Len(code') \in Nat /\ Len(code') >= Len(code) - 1
  /\ \A k \in 1 .. Len(code) - 1 : code'[k] = code[k]
  /\ nlj'.active => nlj.active
  /\ top.kind = "protect" =>
       IF Framed(top)
       THEN Len(code') >= Len(code) /\ code'[Len(code)].kind = "protect"
       ELSE Len(code') < Len(code) \/ code'[Len(code)] = top
  /\ top.at = "body" /\ Last(code').at = "restored" /\ Len(code') = Len(code) =>
       dbind'[top.key] = top.was

LEMMA CalmPush ==
  ASSUME TypeOK, NEW a \in Activations, Calls(a), nlj' = nlj
  PROVE  Calm
<1>1. Pushes(a)
  BY CallsPushes
<1>2. /\ Len(code) \in Nat \ {0} /\ top = code[Len(code)]
      /\ Len(code') = Len(code) + 1 /\ \A k \in 1 .. Len(code) : code'[k] = code[k]
  BY <1>1, Typed DEF Pushes
<1>3. code'[Len(code)] = top /\ Len(code') # Len(code)
  BY <1>2
<1>4. \A k \in 1 .. Len(code) - 1 : code'[k] = code[k]
  BY <1>2
<1> QED
  BY <1>2, <1>3, <1>4 DEF Calm

LEMMA CalmStep ==
  ASSUME TypeOK, NEW a \in Activations, Goes(a), nlj'.active => nlj.active,
         top.kind = "protect" => Framed(top) /\ a.kind = "protect",
         top.at = "body" /\ a.at = "restored" => dbind'[top.key] = top.was
  PROVE  Calm
<1>1. Steps(a)
  BY GoesSteps
<1>2. /\ Len(code) \in Nat \ {0} /\ top = code[Len(code)]
      /\ Len(code') = Len(code) /\ code'[Len(code)] = a
      /\ \A k \in 1 .. Len(code) - 1 : code'[k] = code[k]
  BY <1>1, Typed DEF Steps
<1>3. Last(code') = a
  BY <1>2 DEF Last
<1> QED
  BY <1>2, <1>3 DEF Calm

LEMMA CalmPop ==
  ASSUME TypeOK, Shapes, top.kind # "top", code' = Front(code), nlj'.active => nlj.active,
         top.kind = "protect" => ~Framed(top)
  PROVE  Calm
<1>1. Pops
  BY FrontPops
<1>2. /\ Len(code) \in Nat \ {0}
      /\ Len(code') = Len(code) - 1
      /\ \A k \in 1 .. Len(code) - 1 : code'[k] = code[k]
  BY <1>1, Typed DEF Pops
<1> QED
  BY <1>2 DEF Calm

LEMMA CalmSame ==
  ASSUME TypeOK, UNCHANGED <<code, nlj>>
  PROVE  Calm
<1>1. /\ Len(code) \in Nat \ {0} /\ top = code[Len(code)] /\ Last(code') = top
  BY Typed DEF top
<1>2. \A k \in 1 .. Len(code) : code'[k] = code[k]
  OBVIOUS
<1>3. top.kind = "protect" /\ Framed(top) => code'[Len(code)].kind = "protect"
  BY <1>1
<1>4. top.at = "body" => Last(code').at # "restored"
  BY <1>1
<1> QED
  BY <1>1, <1>3, <1>4 DEF Calm

LEMMA NoJumpIsCalm ==
  ASSUME IInv, [Next]_vars
  PROVE  Calm \/ \E fr, tag : Jump(fr, tag)
<1>1. TypeOK /\ FrameInv /\ BindInv /\ Shapes /\ Shape(top) /\ top \in Activations
  BY TopShape DEF IInv, FrameInv
<1>2. NoJump \in Jumps /\ nlj \in Jumps
  BY <1>1 DEF NoJump, Jumps, TypeOK
<1>3. ASSUME NEW kind \in Kinds, NEW tag \in Tags \cup {Nothing}, Enter(kind, tag)
      PROVE  Calm
  <2> DEFINE a == Activation(kind, "pushed", tag, Nothing, Nothing)
  <2>1. Calls(a) /\ nlj' = nlj
    BY <1>3 DEF Enter
  <2>2. a \in Activations
    BY <1>2 DEF Activation, Activations
  <2> QED
    BY <1>1, <2>1, <2>2, CalmPush
<1>4. ASSUME NEW s \in Symbols, Bind(s)
      PROVE  Calm
  <2> DEFINE a == Activation("let", "top", s, Nothing, Nothing)
  <2>1. Calls(a) /\ nlj' = nlj
    BY <1>4 DEF Bind
  <2>2. a \in Activations
    BY <1>2 DEF Activation, Activations
  <2> QED
    BY <1>1, <2>1, <2>2, CalmPush
<1>5. CASE Interrupt
  <2> DEFINE saved == [nlj |-> nlj, bds_top |-> bds_top,
                       slot |-> IF bds_top = 0 THEN Nothing ELSE bds[bds_top],
                       handler |-> in_signal_handler]
             a == Activation("handler", "body", Nothing, Nothing, saved)
  <2>1. Calls(a) /\ nlj' = nlj
    BY <1>5 DEF Interrupt
  <2>2. saved \in SavedGlobals
    <3>1. bds_top \in 0 .. MaxBinds /\ (bds_top # 0 => bds[bds_top] \in Slots)
      BY <1>1 DEF TypeOK
    <3> QED
      BY <1>1, <3>1 DEF SavedGlobals, TypeOK
  <2> HIDE DEF saved
  <2>3. a \in Activations
    BY <1>2, <2>2 DEF Activation, Activations
  <2> QED
    BY <1>1, <2>1, <2>3, CalmPush
<1>6. CASE Begin \/ LandTagbody
  <2> DEFINE a == [top EXCEPT !.at = "body"]
  <2>1. top.at = "pushed" /\ Goes(a) /\ (nlj'.active => nlj.active)
    BY <1>2, <1>6 DEF Begin, LandTagbody, Jumps
  <2>2. a \in Activations /\ a.kind = top.kind /\ a.at = "body"
    BY <1>1 DEF Activations
  <2>3. top.kind = "protect" => Framed(top)
    BY <2>1 DEF Framed, Kinds
  <2> HIDE DEF a
  <2> QED
    BY <1>1, <2>1, <2>2, <2>3, CalmStep
<1>7. CASE LandProtect
  <2> DEFINE a == [top EXCEPT !.at = "recleanup", !.jump = nlj]
  <2>1. top.at = "pushed" /\ top.kind = "protect" /\ Goes(a) /\ nlj.active
    BY <1>7 DEF LandProtect
  <2>2. a \in Activations /\ a.kind = top.kind /\ a.at = "recleanup"
    BY <1>1, <1>2 DEF Activations
  <2>3. Framed(top)
    BY <2>1 DEF Framed, Kinds
  <2> HIDE DEF a
  <2> QED
    BY <1>1, <2>1, <2>2, <2>3, CalmStep
<1>8. CASE LeaveProtected
  <2> DEFINE a == [top EXCEPT !.at = "cleanup"]
  <2>1. top.at = "body" /\ top.kind = "protect" /\ Goes(a) /\ nlj' = nlj
    BY <1>8 DEF LeaveProtected
  <2>2. a \in Activations /\ a.kind = top.kind /\ a.at = "cleanup"
    BY <1>1 DEF Activations
  <2>3. Framed(top)
    BY <2>1 DEF Framed, Kinds
  <2> HIDE DEF a
  <2> QED
    BY <1>1, <2>1, <2>2, <2>3, CalmStep
<1>9. CASE Land \/ Leave
  <2>1. code' = Front(code) /\ (nlj'.active => nlj.active) /\ top.kind # "top" /\ top.kind # "protect"
    BY <1>1, <1>9 DEF Land, Leave, Shape
  <2> QED
    BY <1>1, <2>1, CalmPop
<1>10. CASE LeaveCleanup \/ UnbindTop
  <2>1. /\ code' = Front(code) /\ nlj' = nlj /\ top.at \in {"cleanup", "restored"}
        /\ top.kind # "top"
    BY <1>1, <1>10 DEF LeaveCleanup, UnbindTop, Shape
  <2>2. ~Framed(top)
    BY <2>1 DEF Framed
  <2> QED
    BY <1>1, <2>1, <2>2, CalmPop
<1>11. CASE HandlerReturn
  <2>1. code' = Front(code) /\ top.kind = "handler" /\ nlj' = top.saved.nlj
    BY <1>11 DEF HandlerReturn
  <2>2. ~nlj'.active
    BY <1>1, <2>1 DEF Shape
  <2> QED
    BY <1>1, <2>1, <2>2, CalmPop
<1>12. CASE BindSlot \/ (\E v \in Values : BindValue(v)) \/ Unbind
  <2>1. top.kind = "let"
    BY <1>1, <1>12 DEF BindSlot, BindValue, Unbind, Shape, Activations, Kinds
  <2>2. CASE BindSlot
    <3> DEFINE a == [top EXCEPT !.at = "slot", !.was = dbind[top.key]]
    <3>1. Goes(a) /\ nlj' = nlj
      BY <2>2 DEF BindSlot
    <3>2. dbind[top.key] \in Values
      BY <1>1, <2>1 DEF Shape, TypeOK
    <3>3. a \in Activations /\ a.at = "slot"
      BY <1>1, <3>2 DEF Activations
    <3> HIDE DEF a
    <3> QED
      BY <1>1, <2>1, <3>1, <3>3, CalmStep
  <2>3. ASSUME NEW v \in Values, BindValue(v)
        PROVE  Calm
    <3> DEFINE a == [top EXCEPT !.at = "body"]
    <3>1. Goes(a) /\ nlj' = nlj
      BY <2>3 DEF BindValue
    <3>2. a \in Activations /\ a.at = "body"
      BY <1>1 DEF Activations
    <3> HIDE DEF a
    <3> QED
      BY <1>1, <2>1, <3>1, <3>2, CalmStep
  <2>4. CASE Unbind
    <3> DEFINE a == [top EXCEPT !.at = "restored"]
    <3>1. /\ Goes(a) /\ nlj' = nlj /\ top.at = "body"
          /\ dbind' = [dbind EXCEPT ![bds[bds_top].sym] = bds[bds_top].val]
      BY <2>4 DEF Unbind
    <3>2. a \in Activations
      BY <1>1 DEF Activations
    <3>3. bds[bds_top] = [sym |-> top.key, val |-> top.was] /\ top.key \in Symbols
      BY <1>1, <2>1, <3>1, TopSlot
    <3>4. dbind'[top.key] = top.was
      BY <1>1, <3>1, <3>3 DEF TypeOK
    <3> HIDE DEF a
    <3> QED
      BY <1>1, <2>1, <3>1, <3>2, <3>4, CalmStep
  <2> QED
    BY <1>12, <2>2, <2>3, <2>4
<1>13. ASSUME NEW s \in Symbols, NEW v \in Values, Setq(s, v)
       PROVE  Calm
  BY <1>1, <1>13, CalmSame DEF Setq
<1>14. CASE UNCHANGED vars
  BY <1>1, <1>14, CalmSame DEF vars
<1>15. CASE GoOn \/ \E t \in Tags : Throw(t) \/ ReturnFrom(t)
  BY <1>15, Jumping
<1>16. ASSUME NEW tag \in Tags, Enter("catch", tag) \/ Enter("tagbody", tag)
       PROVE  Calm
  BY <1>3, <1>16 DEF Kinds
<1>17. ASSUME NEW kind \in {"errset", "protect"}, Enter(kind, Nothing)
       PROVE  Calm
  BY <1>3, <1>17 DEF Kinds
<1> QED
  BY <1>4, <1>5, <1>6, <1>7, <1>8, <1>9, <1>10, <1>11, <1>12, <1>13, <1>14, <1>15, <1>16, <1>17
  DEF Next

-------------------------------------------------------------------------------
(* Cleanup forms and bindings.                                             *)

LEMMA JumpCleans ==
  ASSUME IInv, NEW fr, NEW tag, Jump(fr, tag), NEW k \in 1 .. Len(code), code[k].kind = "protect"
  PROVE  IF Framed(code[k])
         THEN k \in 1 .. Len(code') /\ code'[k].kind = "protect"
         ELSE k \in 1 .. Len(code') => code'[k] = code[k]
<1>1. TypeOK /\ FrameInv /\ FramesMatch /\ Len(code) \in Nat
  BY Typed DEF IInv, FrameInv
<1>2. fr \in 1 .. Len(frs) /\ Unwind(fr, tag)
  BY DEF Jump, Stands
<1>3. PICK f : f = Stop(fr)
  OBVIOUS
<1>4. UnwindsTo(f)
  BY <1>1, <1>2, <1>3, UnwindEffect
<1>5. PICK m : m = frs[f].jmpbuf
  OBVIOUS
<1>6. /\ f \in 1 .. Len(frs) /\ m \in 1 .. Len(code) /\ Len(code') = m
      /\ code'[m] = [code[m] EXCEPT !.at = "pushed"]
      /\ \A j \in 1 .. m - 1 : code'[j] = code[j]
  BY <1>4, <1>5 DEF UnwindsTo
<1>7. code[m] \in Activations /\ Framed(code[m])
  BY <1>1, <1>5, <1>6, Typed, FramesIs
<1>8. code'[m].kind = code[m].kind
  BY <1>6, <1>7 DEF Activations
<1>9. CASE Framed(code[k])
  <2>1. PICK i \in 1 .. Len(frs) : frs[i].jmpbuf = k
    BY <1>1, <1>9, FramesIs
  <2>2. frs[i].class = "FRS_PROTECT"
    BY <1>1, <2>1, FramesIs DEF Class
  <2>3. i <= f
    BY <1>1, <1>2, <1>3, <2>1, <2>2, StopIs
  <2>4. i < f => k < m
    <3> SUFFICES ASSUME i < f PROVE k < m
      OBVIOUS
    <3>1. i \in 1 .. f - 1
      BY <1>1, <1>6, <2>1, Typed
    <3>2. frs[i].jmpbuf < frs[f].jmpbuf
      BY <1>1, <1>6, <3>1, FramesIs
    <3> QED
      BY <1>5, <2>1, <3>2
  <2>5. k <= m
    BY <1>1, <1>5, <1>6, <2>1, <2>3, <2>4, Typed
  <2>6. CASE k = m
    <3>1. k \in 1 .. Len(code')
      BY <1>1, <1>6, <2>6
    <3>2. code'[k].kind = "protect"
      BY <1>8, <2>6
    <3> QED
      BY <1>9, <3>1, <3>2
  <2>7. CASE k # m
    <3>1. k \in 1 .. m - 1 /\ k \in 1 .. m
      BY <1>1, <1>6, <2>5, <2>7
    <3> QED
      BY <1>6, <1>9, <3>1
  <2> QED
    BY <2>6, <2>7
<1>10. CASE ~Framed(code[k])
  <2>1. k \in 1 .. m => k \in 1 .. m - 1
    BY <1>1, <1>6, <1>7, <1>10
  <2> QED
    BY <1>6, <1>10, <2>1
<1> QED
  BY <1>9, <1>10

LEMMA StepCleans ==
  ASSUME IInv, IInv', [Next]_vars, NEW k \in DOMAIN code, code[k].kind = "protect"
  PROVE  IF Framed(code[k])
         THEN k \in DOMAIN code' /\ code'[k].kind = "protect"
         ELSE k \in DOMAIN code' => code'[k] = code[k]
<1>1. /\ DOMAIN code = 1 .. Len(code) /\ Len(code) \in Nat \ {0} /\ top = code[Len(code)]
  BY Typed DEF IInv
<1>2. DOMAIN code' = 1 .. Len(code') /\ Len(code') \in Nat
  <2>1. code' \in Seq(Activations)
    BY TypedNext DEF IInv
  <2> QED
    BY <2>1, LenProperties
<1>3. CASE \E fr, tag : Jump(fr, tag)
  BY <1>1, <1>2, <1>3, JumpCleans
<1>4. CASE Calm
  <2>1. CASE k = Len(code)
    <3>1. code[k] = top /\ top.kind = "protect"
      BY <1>1, <2>1
    <3>2. CASE Framed(code[k])
      <4>1. Len(code') >= Len(code) /\ code'[Len(code)].kind = "protect"
        BY <1>4, <3>1, <3>2 DEF Calm
      <4>2. k \in DOMAIN code'
        BY <1>1, <1>2, <2>1, <4>1
      <4> QED
        BY <2>1, <3>2, <4>1, <4>2
    <3>3. CASE ~Framed(code[k])
      <4>1. Len(code') < Len(code) \/ code'[Len(code)] = top
        BY <1>4, <3>1, <3>3 DEF Calm
      <4>2. Len(code') < Len(code) => k \notin DOMAIN code'
        BY <1>1, <1>2, <2>1
      <4> QED
        BY <2>1, <3>1, <3>3, <4>1, <4>2
    <3> QED
      BY <3>2, <3>3
  <2>2. CASE k # Len(code)
    <3>1. k \in 1 .. Len(code) - 1
      BY <1>1, <2>2
    <3>2. code'[k] = code[k] /\ Len(code') >= Len(code) - 1
      BY <1>4, <3>1 DEF Calm
    <3>3. k \in DOMAIN code'
      BY <1>1, <1>2, <3>1, <3>2
    <3> QED
      BY <3>2, <3>3
  <2> QED
    BY <2>1, <2>2
<1> QED
  BY <1>3, <1>4, NoJumpIsCalm

\* What a jump undoes is what the lets above its frame did.
LEMMA JumpUndoes ==
  ASSUME IInv, Windows = {}, NEW fr, NEW tag, Jump(fr, tag), NEW s \in Symbols
  PROVE  dbind'[s] = IF LetsLeft(s) = {} THEN dbind[s] ELSE code[Min(LetsLeft(s))].was
<1>1. TypeOK /\ FrameInv /\ FramesMatch /\ Len(code) \in Nat /\ BindInv
  BY Typed DEF IInv, FrameInv
<1>2. fr \in 1 .. Len(frs) /\ Unwind(fr, tag) /\ top.at # "top"
  BY DEF Jump, Stands
<1>3. PICK f : f = Stop(fr)
  OBVIOUS
<1>4. UnwindsTo(f)
  BY <1>1, <1>2, <1>3, UnwindEffect
<1>5. PICK m : m = frs[f].jmpbuf
  OBVIOUS
<1>6. f \in 1 .. Len(frs) /\ m \in 1 .. Len(code) /\ Len(code') = m
  BY <1>4, <1>5 DEF UnwindsTo
<1>7. PICK depth : Depths(depth) /\ Filled(depth)
  BY <1>1 DEF BindInv
<1>8. frs[f].bds_top = depth[m] /\ bds_top = depth[Len(code)]
  BY <1>5, <1>6, <1>7 DEF Filled
<1>9. dbind' = Undone(depth[m])
  BY <1>2, <1>3, <1>8 DEF Unwind
<1> DEFINE left == {k \in m + 1 .. Len(code) :
                      code[k].kind = "let" /\ code[k].at # "top" /\ code[k].key = s}
           mine == {i \in depth[m] + 1 .. bds_top : bds[i].sym = s}
<1>10. LetsLeft(s) = left
  BY <1>6 DEF LetsLeft
<1>11. depth \in [1 .. Len(code) -> Nat] /\ bds_top \in Nat /\ depth[m] \in Nat
  <2>1. depth \in [1 .. Len(code) -> Nat]
    BY <1>7 DEF Depths
  <2>2. bds_top \in Nat
    BY <1>1 DEF TypeOK
  <2> QED
    BY <1>6, <2>1, <2>2
<1>12. left \in SUBSET Nat /\ mine \in SUBSET Nat
  BY <1>1, <1>6, <1>11
<1>13. ASSUME NEW k \in left
       PROVE  depth[k] \in mine /\ bds[depth[k]].val = code[k].was
  <2>1. k \in 1 .. Len(code) /\ m < k /\ Let(k) /\ code[k].at # "top" /\ code[k].key = s
    BY <1>1, <1>6 DEF Let
  <2>2. bds[depth[k]] = [sym |-> code[k].key, val |-> code[k].was]
    BY <1>7, <2>1 DEF Filled
  <2>3. depth[m] < depth[k]
    BY <1>6, <1>7, <2>1 DEF Depths
  <2>4. depth[k] <= depth[Len(code)]
    <3>1. k < Len(code) => depth[k] <= depth[Len(code)]
      BY <1>1, <1>7, <2>1 DEF Depths
    <3> QED
      BY <1>1, <1>8, <1>11, <2>1, <3>1
  <2>5. depth[k] \in Nat
    BY <1>11, <2>1
  <2> QED
    BY <1>8, <1>11, <2>1, <2>2, <2>3, <2>4, <2>5
<1>14. ASSUME NEW i \in mine
       PROVE  \E k \in left : depth[k] = i
  <2>1. i \in 1 .. depth[Len(code)] /\ i > depth[m] /\ bds[i].sym = s
    BY <1>8, <1>11
  <2>2. PICK k \in 1 .. Len(code) : Let(k) /\ depth[k] = i
    BY <1>7, <2>1 DEF Depths
  <2>3. k < m => depth[k] <= depth[m]
    BY <1>6, <1>7, <2>2 DEF Depths
  <2>4. k \in m + 1 .. Len(code)
    BY <1>1, <1>6, <1>11, <2>1, <2>2, <2>3
  <2>5. code[k].at # "top"
    BY <1>1, <1>2, <1>7, <2>2, Typed DEF Filled
  <2>6. code[k].key = s
    <3>1. bds[depth[k]] = [sym |-> code[k].key, val |-> code[k].was]
      BY <1>7, <2>2, <2>5 DEF Filled
    <3> QED
      BY <2>1, <2>2, <3>1
  <2> QED
    BY <2>2, <2>4, <2>5, <2>6 DEF Let
<1>15. dbind'[s] = IF mine = {} THEN dbind[s] ELSE bds[Min(mine)].val
  BY <1>9 DEF Undone
<1>16. CASE left = {}
  <2>1. mine = {}
    BY <1>14, <1>16
  <2> QED
    BY <1>10, <1>15, <1>16, <2>1
<1>17. CASE left # {}
  <2>1. mine # {}
    BY <1>13, <1>17
  <2>2. Min(left) \in left /\ \A k \in left : Min(left) <= k
    BY <1>12, <1>17, MinIs
  <2>3. Min(mine) \in mine /\ \A i \in mine : Min(mine) <= i
    BY <1>12, <2>1, MinIs
  <2>4. PICK k0 \in left : k0 = Min(left)
    BY <2>2
  <2>5. PICK i0 \in mine : i0 = Min(mine)
    BY <2>3
  <2>6. PICK k1 \in left : depth[k1] = i0
    BY <1>14
  <2>7. depth[k0] \in mine /\ bds[depth[k0]].val = code[k0].was
    BY <1>13
  <2>8. i0 <= depth[k0] /\ k0 <= k1
    BY <2>2, <2>3, <2>4, <2>5, <2>7
  <2>9. k0 \in 1 .. Len(code) /\ k1 \in 1 .. Len(code)
    BY <1>1, <1>6
  <2> HIDE DEF left, mine
  <2>10. k0 < k1 => depth[k0] <= depth[k1]
    BY <1>7, <2>9 DEF Depths
  <2>11. depth[k0] <= depth[k1]
    BY <2>8, <2>9, <2>10, <1>11
  <2>12. depth[k0] = i0
    BY <2>6, <2>8, <2>9, <2>11, <1>11
  <2> QED
    BY <1>10, <1>15, <1>17, <2>1, <2>4, <2>5, <2>7, <2>12
<1> QED
  BY <1>16, <1>17

\* The cleanup forms of an unwind-protect run, once, however it is left.
THEOREM CleanupsCorrect == ASSUME "landing" \notin Windows PROVE Spec => CleanupsRun
<1>1. IInv /\ IInv' /\ [Next]_vars =>
        [\A k \in DOMAIN code :
           code[k].kind = "protect" =>
             IF Framed(code[k])
             THEN k \in DOMAIN code' /\ code'[k].kind = "protect"
             ELSE k \in DOMAIN code' => code'[k] = code[k]]_vars
  BY StepCleans
<1>2. Spec => [](IInv /\ SlotInv)
  BY Invariance
<1> QED
  BY <1>1, <1>2, PTL DEF Spec, CleanupsRun

\* A special variable gets back the value it had when the outermost let that is left
\* was entered, whether the let is left by its end or by a jump.
THEOREM BindingsCorrect == ASSUME Windows = {} PROVE Spec => BindingsUndone
<1>1. IInv /\ [Next]_vars =>
        [/\ nlj'.active /\ ~nlj.active =>
              \A s \in Symbols :
                dbind'[s] = IF LetsLeft(s) = {} THEN dbind[s] ELSE code[Min(LetsLeft(s))].was
         /\ top.at = "body" /\ Last(code').at = "restored" /\ Len(code') = Len(code) =>
              dbind'[top.key] = top.was]_vars
  <2> SUFFICES ASSUME IInv, [Next]_vars
               PROVE  /\ nlj'.active /\ ~nlj.active =>
                           \A s \in Symbols :
                             dbind'[s] = IF LetsLeft(s) = {} THEN dbind[s]
                                         ELSE code[Min(LetsLeft(s))].was
                      /\ top.at = "body" /\ Last(code').at = "restored" /\ Len(code') = Len(code) =>
                           dbind'[top.key] = top.was
    OBVIOUS
  <2>1. CASE Calm
    BY <2>1 DEF Calm
  <2>2. ASSUME NEW fr, NEW tag, Jump(fr, tag)
        PROVE  /\ \A s \in Symbols :
                    dbind'[s] = IF LetsLeft(s) = {} THEN dbind[s]
                                ELSE code[Min(LetsLeft(s))].was
               /\ Last(code').at # "restored"
    <3>1. \A s \in Symbols :
            dbind'[s] = IF LetsLeft(s) = {} THEN dbind[s] ELSE code[Min(LetsLeft(s))].was
      BY <2>2, JumpUndoes
    <3>2. TypeOK /\ FramesMatch /\ fr \in 1 .. Len(frs) /\ Unwind(fr, tag)
      BY <2>2 DEF IInv, FrameInv, Jump, Stands
    <3>3. UnwindsTo(Stop(fr))
      BY <3>2, UnwindEffect
    <3>4. /\ Len(code') \in 1 .. Len(code)
          /\ code'[Len(code')] = [code[Len(code')] EXCEPT !.at = "pushed"]
      BY <3>3 DEF UnwindsTo
    <3>5. code[Len(code')] \in Activations
      BY <3>2, <3>4, Typed
    <3>6. code'[Len(code')].at = "pushed"
      BY <3>4, <3>5 DEF Activations
    <3> QED
      BY <3>1, <3>6 DEF Last
  <2> QED
    BY <2>1, <2>2, NoJumpIsCalm
<1>2. Spec => [](IInv /\ SlotInv)
  BY Invariance
<1> QED
  BY <1>1, <1>2, PTL DEF Spec, BindingsUndone
===============================================================================
