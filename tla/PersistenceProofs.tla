------------------------- MODULE PersistenceProofs -------------------------
(***************************************************************************)
(* The firmware updates in the composition with the stores of the          *)
(* configuration, for any number of browsers, images, pages, flash lines   *)
(* and power failures.  On the TM4C1294 (TmOta): the firmware that serves  *)
(* is one image, and a header vouches for an image that was staged whole.  *)
(* On the CC35x1 (CcOta): an upload that is answered with success is       *)
(* staged.  On both (ConfigStore): a boot finds the records as they were   *)
(* meant.  Every variable keeps its range.                                 *)
(***************************************************************************)
EXTENDS Persistence, Integers, SequenceTheorems, TLAPS

Whole == \E img \in Uploaders \cup {"old"} : Tm!Holds(Tm!App, img)

\* The copy can be repeated: the flag is set and the staged image is intact.
Repeatable == pending /\ Tm!StagedOk

\* OtaApply starts over from the first page after a power failure, so that nothing is
\* known of the pages it has not come to; that is enough because neither the flag nor
\* the staged image is touched before a boot has found the copy complete.
CopyInv ==
  /\ page \in Nat /\ DOMAIN app = Tm!App
  /\ mode \in {"up", "reset", "boot", "erase", "program", "dead"}
  /\ mode \in {"up", "reset"} => Whole
  /\ mode = "boot" => Whole \/ Repeatable
  /\ mode \in {"erase", "program"} => Repeatable
  /\ mode = "program" => \A p \in Tm!App : p < page => app[p] = stage.header

LEMMA CopyInit == Tm!Init => CopyInv
<1> SUFFICES ASSUME Tm!Init PROVE CopyInv OBVIOUS
<1>1. mode = "up" /\ page = 0 /\ app = [p \in Tm!App |-> "old"] BY DEF Tm!Init
<1>2. Tm!Holds(Tm!App, "old") BY <1>1 DEF Tm!Holds
<1>3. Whole BY <1>2 DEF Whole
<1> QED BY <1>1, <1>3 DEF CopyInv

\* Serving requests and power failures between two of them leave the slot alone.
LEMMA ServeKeeps ==
  ASSUME CopyInv, mode \in {"up", "reset"}, mode' \in {"up", "reset", "boot"},
         UNCHANGED <<app, page>>
  PROVE  CopyInv'
<1>1. Whole /\ Whole' = Whole BY DEF CopyInv, Whole, Tm!Holds
<1> QED BY <1>1 DEF CopyInv

LEMMA RequestKeeps ==
  ASSUME CopyInv, NEW u \in Uploaders, NEW s, Tm!Request(u, s) \/ Tm!CutRequest(u, s)
  PROVE  CopyInv'
<1>1. mode \in {"up", "reset"} /\ UNCHANGED <<app, page>>
  BY DEF Tm!Request, Tm!CutRequest, Tm!Serving
<1>2. mode' \in {mode, "reset", "boot"} BY DEF Tm!Request, Tm!CutRequest, Tm!Handle, Tm!Cut
<1> QED BY <1>1, <1>2, ServeKeeps

LEMMA BootKeeps == ASSUME CopyInv, Tm!Boot PROVE CopyInv'
<1>1. mode = "boot" /\ UNCHANGED <<app, stage>> /\ (Whole \/ Repeatable) BY DEF Tm!Boot, CopyInv
<1>2. Whole' = Whole BY <1>1 DEF Whole, Tm!Holds
<1>3. CASE mode' = "dead" /\ UNCHANGED page BY <1>1, <1>3 DEF CopyInv
<1>4. CASE mode' = "up" /\ ~pending /\ UNCHANGED page
  BY <1>1, <1>2, <1>4 DEF CopyInv, Repeatable
<1>5. CASE mode' = "up" /\ (~Tm!StagedOk \/ Tm!AppMatches) /\ UNCHANGED page
  <2>1. Tm!StagedOk /\ Tm!AppMatches => Whole BY DEF Tm!StagedOk, Tm!AppMatches, Whole
  <2> QED BY <1>1, <1>2, <1>5, <2>1 DEF CopyInv, Repeatable
<1>6. CASE pending /\ Tm!StagedOk /\ mode' = "erase" /\ page' = 0 /\ UNCHANGED pending
  <2>1. Repeatable' BY <1>1, <1>6 DEF Repeatable, Tm!StagedOk, Tm!Staged
  <2> QED BY <1>1, <1>6, <2>1 DEF CopyInv
<1> QED BY <1>3, <1>4, <1>5, <1>6 DEF Tm!Boot

LEMMA EraseKeeps == ASSUME CopyInv, Tm!OtaErase PROVE CopyInv'
<1>1. /\ mode = "erase" /\ UNCHANGED <<stage, pending>> /\ Repeatable
      /\ app' = [app EXCEPT ![page] = "erased"]
      /\ \/ page' = page + 1 /\ mode' = "erase"
         \/ page' = 0 /\ mode' = "program"
  BY DEF Tm!OtaErase, Tm!Turn, CopyInv
<1>2. Repeatable' BY <1>1 DEF Repeatable, Tm!StagedOk, Tm!Staged
<1>3. DOMAIN app' = Tm!App /\ page' \in Nat BY <1>1, SMT DEF CopyInv
<1>4. \A p \in Tm!App : ~(p < 0) BY SMT DEF Tm!App
<1> QED BY <1>1, <1>2, <1>3, <1>4 DEF CopyInv

LEMMA ProgramKeeps == ASSUME CopyInv, Tm!OtaProgram PROVE CopyInv'
<1>1. /\ mode = "program" /\ UNCHANGED <<stage, pending>> /\ Repeatable
      /\ app' = [app EXCEPT ![page] = stage.header] /\ page \in Nat
      /\ \A p \in Tm!App : p < page => app[p] = stage.header
      /\ DOMAIN app = Tm!App
      /\ \/ page' = page + 1 /\ mode' = "program"
         \/ page' = 0 /\ mode' = "boot"
  BY DEF Tm!OtaProgram, Tm!Turn, CopyInv
<1>2. Repeatable' BY <1>1 DEF Repeatable, Tm!StagedOk, Tm!Staged
<1>3. \A p \in Tm!App : p < page + 1 => app'[p] = stage.header
  <2>1. \A p \in Tm!App : p < page + 1 => p < page \/ p = page
    BY <1>1, SlotAssumption, SMT DEF Tm!App
  <2> QED BY <1>1, <2>1
<1>4. DOMAIN app' = Tm!App /\ page' \in Nat BY <1>1, SMT
<1> QED BY <1>1, <1>2, <1>3, <1>4 DEF CopyInv

LEMMA CutApplyKeeps == ASSUME CopyInv, Tm!CutApply PROVE CopyInv'
<1>1. /\ UNCHANGED <<stage, pending, page>> /\ Repeatable /\ mode' = "boot"
      /\ app' = [app EXCEPT ![page] = "torn"]
  BY DEF Tm!CutApply, Tm!Cut, CopyInv
<1>2. Repeatable' BY <1>1 DEF Repeatable, Tm!StagedOk, Tm!Staged
<1> QED BY <1>1, <1>2 DEF CopyInv

LEMMA CopyNext == CopyInv /\ [Next]_vars => CopyInv'
<1> SUFFICES ASSUME CopyInv, [Next]_vars PROVE CopyInv' OBVIOUS
<1>1. CASE UNCHANGED tmVars
  <2>1. UNCHANGED <<mode, page, app, stage, pending>> BY <1>1 DEF tmVars
  <2>2. Whole' = Whole /\ Repeatable' = Repeatable
    BY <2>1 DEF Whole, Tm!Holds, Repeatable, Tm!StagedOk, Tm!Staged
  <2> QED BY <2>1, <2>2 DEF CopyInv
<1>2. CASE Tm!Next
  <2>1. CASE Tm!Reset \/ Tm!CutIdle \/ \E u \in Uploaders : Tm!Again(u)
    <3>1. CASE mode \in {"up", "reset"}
      BY <2>1, <3>1, ServeKeeps DEF Tm!Reset, Tm!CutIdle, Tm!Cut, Tm!Again, CopyInv
    <3>2. CASE mode \notin {"up", "reset"}
      <4>1. UNCHANGED <<mode, page, app, stage, pending>>
        BY <2>1, <3>2 DEF Tm!Reset, Tm!CutIdle, Tm!Serving, Tm!Again
      <4>2. Whole' = Whole /\ Repeatable' = Repeatable
        BY <4>1 DEF Whole, Tm!Holds, Repeatable, Tm!StagedOk, Tm!Staged
      <4> QED BY <4>1, <4>2 DEF CopyInv
    <3> QED BY <3>1, <3>2
  <2>2. CASE \E u \in Uploaders : \E s \in 0 .. Tm!LastChunk(u) :
               Tm!Request(u, s) \/ Tm!CutRequest(u, s)
    BY <2>2, RequestKeeps
  <2> QED BY <1>2, <2>1, <2>2, BootKeeps, EraseKeeps, ProgramKeeps, CutApplyKeeps DEF Tm!Next
<1> QED BY <1>1, <1>2 DEF Next, OnTm, OnCc, OnStore, vars

\* The TM4C1294 never serves from a firmware that is part old and part new, whichever
\* operation of the staging or of OtaApply (ota.c:144) the power fails at.
THEOREM FirmwareWhole == Spec => []AppWhole
<1>1. Init => CopyInv BY CopyInit DEF Init
<1>2. CopyInv => AppWhole BY DEF CopyInv, AppWhole, Tm!AppWhole, Tm!Serving, Whole
<1> QED BY <1>1, <1>2, CopyNext, PTL DEF Spec

-----------------------------------------------------------------------------
(* The update of the CC35x1.                                               *)

Uploads ==
  [next : 0 .. Cc!Top + 1, abort : BOOLEAN, started : BOOLEAN, pos : 0 .. 2 * (Last + 1),
   whole : BOOLEAN, swap : BOOLEAN, target : {0, 1, 2}]
Images == [st : Cc!States, img : {"old", "new", "bad", "none"}]

\* A POST in progress is of the chunk its browser sends, and an upload that was not
\* aborted expects that chunk or has had it.
PostFits ==
  /\ post.by = "none" => post.left = 0
  /\ post.by # "none" =>
       post.seq <= Cc!LastOf(post.by) /\ post.last = (post.seq = Cc!LastOf(post.by))
  /\ post.by = "a" => post.seq = sent /\ told = "nothing"
  /\ ~up.abort /\ post.by # "none" =>
       IF post.dup THEN post.seq < up.next ELSE post.seq = up.next

\* An upload that is under way is of the slot that does not run.
Targeted ==
  ~up.abort /\ (post.by # "none" \/ up.next > 0) => up.target = Cc!Other(primary)

\* When every chunk is in, the image has been staged.  A longer image of the other
\* browser would bring the counter past Last earlier.
Complete ==
  LastB <= Last /\ ~up.abort /\ up.next > Last =>
    slot[Cc!Other(primary)].st = "STAGED" /\ main.reset

CcInv == Cc!TypeOK /\ up \in Uploads /\ PostFits /\ Targeted /\ Complete

LEMMA ChunkCounts ==
  /\ Last \in Nat /\ LastB \in Nat /\ MaxFaults \in Nat /\ Cc!Top \in Nat
  /\ Last <= Cc!Top /\ LastB <= Cc!Top
  /\ \A b \in {"a", "b"} : Cc!LastOf(b) \in 0 .. Cc!Top
  /\ Cc!LastOf("a") = Last /\ (LastB <= Last => \A b \in {"a", "b"} : Cc!LastOf(b) <= Last)
<1>1. Last \in Nat /\ LastB \in Nat /\ MaxFaults \in Nat BY ImageAssumption
<1>2. Cc!LastOf("a") = Last /\ Cc!LastOf("b") = LastB BY DEF Cc!LastOf
<1>3. Cc!Top \in Nat /\ Last <= Cc!Top /\ LastB <= Cc!Top BY <1>1, SMT DEF Cc!Top
<1> QED BY <1>1, <1>2, <1>3, SMT

LEMMA OtherSlot == \A s \in Cc!Slots : Cc!Other(s) \in Cc!Slots /\ Cc!Other(s) # s
  BY SMT DEF Cc!Slots, Cc!Other

LEMMA CcStarts == ASSUME Cc!Init PROVE CcInv
<1>1. /\ up = Cc!Fresh /\ post = Cc!Idle /\ told = "nothing" /\ sent = 0 /\ primary = 1
      /\ faults = MaxFaults /\ main = [reset |-> FALSE, checked |-> FALSE]
      /\ protected \in BOOLEAN
  BY DEF Cc!Init
<1>2. slot \in [Cc!Slots -> Images] BY DEF Cc!Init, Images, Cc!States
<1>3. up \in Uploads BY <1>1, ChunkCounts, SMT DEF Cc!Fresh, Uploads
<1>4. /\ post.by = "none" /\ post.left = 0 /\ up.next = 0 /\ up.pos = 0 /\ up.target = 0
  BY <1>1 DEF Cc!Fresh, Cc!Idle
<1>5. post \in [by : {"none", "a", "b"}, seq : 0 .. Cc!Top, dup : BOOLEAN, last : BOOLEAN,
               left : 0 .. 2]
  BY <1>1, ChunkCounts, SMT DEF Cc!Idle
<1>6. Cc!TypeOK
  BY <1>1, <1>2, <1>4, <1>5, ChunkCounts, SMT DEF Cc!TypeOK, Cc!Slots, Images
<1>7. PostFits /\ Targeted /\ Complete
  BY <1>4, ChunkCounts, SMT DEF PostFits, Targeted, Complete
<1> QED BY <1>3, <1>6, <1>7 DEF CcInv

\* A boot forgets the upload.
LEMMA BootForgets ==
  ASSUME CcInv, Cc!Booted, slot' \in [Cc!Slots -> Images], primary' \in Cc!Slots,
         protected' \in BOOLEAN, sent' \in 0 .. Last,
         told' \in {"nothing", "ok", "failed"}, faults' \in 0 .. MaxFaults
  PROVE  CcInv'
<1>1. up' = Cc!Fresh /\ post' = Cc!Idle /\ main' = [reset |-> FALSE, checked |-> FALSE]
  BY DEF Cc!Booted
<1>2. up' \in Uploads BY <1>1, ChunkCounts, SMT DEF Cc!Fresh, Uploads
<1>3. /\ post'.by = "none" /\ post'.left = 0 /\ up'.next = 0 /\ up'.pos = 0 /\ up'.target = 0
  BY <1>1 DEF Cc!Fresh, Cc!Idle
<1>4. post' \in [by : {"none", "a", "b"}, seq : 0 .. Cc!Top, dup : BOOLEAN, last : BOOLEAN,
               left : 0 .. 2]
  BY <1>1, ChunkCounts, SMT DEF Cc!Idle
<1>5. Cc!TypeOK'
  BY <1>1, <1>3, <1>4, ChunkCounts, SMT DEF Cc!TypeOK, Cc!Slots, Images
<1>6. PostFits' /\ Targeted' /\ Complete'
  BY <1>3, ChunkCounts, SMT DEF PostFits, Targeted, Complete
<1> QED BY <1>2, <1>5, <1>6 DEF CcInv

LEMMA SwapTypes ==
  ASSUME CcInv, NEW hard \in BOOLEAN, Cc!Swapped(hard)
  PROVE  slot' \in [Cc!Slots -> Images] /\ primary' \in Cc!Slots
<1>1. slot \in [Cc!Slots -> Images] /\ primary \in Cc!Slots
  BY DEF CcInv, Cc!TypeOK, Images
<1>2. Cc!Other(primary) \in Cc!Slots BY <1>1, OtherSlot
<1>3. \A s \in Cc!Slots, x \in {"REJECTED", "STAGED", "TRIAL", "FAILED"} :
        Cc!With(s, x) \in [Cc!Slots -> Images]
  BY <1>1 DEF Cc!With, Images, Cc!States
<1> QED BY <1>1, <1>2, <1>3 DEF Cc!Swapped

\* What an action of the upload shows to have kept CcInv.
LEMMA CcKept ==
  ASSUME CcInv, up' \in Uploads, slot' \in [Cc!Slots -> Images],
         post' \in [by : {"none", "a", "b"}, seq : 0 .. Cc!Top, dup : BOOLEAN,
                    last : BOOLEAN, left : 0 .. 2],
         main' \in [reset : BOOLEAN, checked : BOOLEAN], UNCHANGED <<primary, protected>>,
         sent' \in 0 .. Last, told' \in {"nothing", "ok", "failed"}, faults' \in 0 .. MaxFaults,
         PostFits', Targeted', Complete'
  PROVE  CcInv'
<1>1. /\ up'.next \in 0 .. Cc!Top + 1 /\ up'.pos \in 0 .. 2 * (Last + 1)
      /\ up'.target \in Cc!Slots \cup {0}
  BY DEF Uploads, Cc!Slots
<1> QED BY <1>1 DEF CcInv, Cc!TypeOK, Images

\* httpd_post_begin.
LEMMA CcBegins ==
  ASSUME CcInv, NEW b \in {"a", "b"}, NEW s \in 0 .. Cc!LastOf(b), Cc!PostBegin(b, s),
         faults' \in 0 .. MaxFaults,
         b = "a" => s = sent /\ told = "nothing" /\ post.by # "a"
                    /\ told' = IF post'.by = "a" THEN "nothing" ELSE "failed",
         b = "b" => told' = told
  PROVE  CcInv'
<1> DEFINE t == Cc!Other(primary)
<1>1. /\ up \in Uploads /\ slot \in [Cc!Slots -> Images] /\ PostFits /\ Targeted /\ Complete
      /\ post \in [by : {"none", "a", "b"}, seq : 0 .. Cc!Top, dup : BOOLEAN, last : BOOLEAN,
                   left : 0 .. 2]
      /\ UNCHANGED <<primary, protected, main, sent>> /\ sent \in 0 .. Last
      /\ main \in [reset : BOOLEAN, checked : BOOLEAN] /\ primary \in Cc!Slots
      /\ told' \in {"nothing", "ok", "failed"}
  BY DEF CcInv, Cc!TypeOK, Images, Cc!PostBegin
<1>2. t \in Cc!Slots BY <1>1, OtherSlot
<1>3. Cc!Accepts(b, s, up') BY DEF Cc!PostBegin
<1>4. /\ up' \in Uploads /\ slot' \in [Cc!Slots -> Images] /\ Targeted' /\ Complete'
      /\ ~up'.abort => s <= up'.next
  <2>1. CASE s = 0 /\ Cc!PrepareTarget
    <3>1. up' = [Cc!Fresh EXCEPT !.target = IF Cc!Blocked(slot, t) THEN 0 ELSE t,
                                 !.abort = Cc!Blocked(slot, t)]
      BY <2>1 DEF Cc!PrepareTarget
    <3>2. Cc!Blocked(slot, t) \in BOOLEAN BY DEF Cc!Blocked
    <3>9. Cc!Fresh \in Uploads BY ChunkCounts, SMT DEF Cc!Fresh, Uploads
    <3>3. up' \in Uploads BY <3>1, <3>2, <3>9, <1>2 DEF Uploads, Cc!Slots
    <3>4. up'.next = 0 /\ (~up'.abort => up'.target = t) BY <3>1, <3>2 DEF Cc!Fresh
    <3>5. Cc!Cleaned(slot, t) \in [Cc!Slots -> Images]
      BY <1>1 DEF Cc!Cleaned, Images, Cc!States
    <3>6. slot' \in [Cc!Slots -> Images] BY <1>1, <2>1, <3>5 DEF Cc!PrepareTarget
    <3>7. Targeted' BY <1>1, <3>4 DEF Targeted, Cc!Other
    <3>8. Complete' BY <3>4, ChunkCounts, SMT DEF Complete
    <3> QED BY <2>1, <3>3, <3>4, <3>6, <3>7, <3>8, SMT
  <2>2. CASE s # 0 /\ up' = [up EXCEPT !.abort = up.abort \/ s > up.next] /\ UNCHANGED slot
    <3>1. up' \in Uploads BY <1>1, <2>2 DEF Uploads
    <3>2. /\ up'.next = up.next /\ up'.target = up.target
          /\ ~up'.abort => ~(up.abort \/ s > up.next)
      BY <1>1, <2>2 DEF Uploads
    <3>3. up.next \in Nat /\ s \in Nat BY <1>1, ChunkCounts, SMT DEF Uploads
    <3>4. ~up'.abort => ~up.abort /\ s <= up.next
      <4>1. ~(s > up.next) => s <= up.next BY <3>3, SMT
      <4> QED BY <3>2, <4>1
    <3>5. ~up'.abort => up.next > 0 BY <2>2, <3>3, <3>4, SMT
    <3>6. Targeted' BY <1>1, <3>2, <3>4, <3>5 DEF Targeted, Cc!Other
    <3>7. Complete' BY <1>1, <2>2, <3>2, <3>4 DEF Complete, Cc!Other
    <3> QED BY <1>1, <2>2, <3>1, <3>2, <3>4, <3>6, <3>7
  <2>3. CASE up' = [up EXCEPT !.abort = TRUE] /\ UNCHANGED slot
    <3>1. up' \in Uploads BY <1>1, <2>3 DEF Uploads
    <3>2. up'.abort BY <1>1, <2>3 DEF Uploads
    <3>3. Targeted' BY <3>2 DEF Targeted
    <3>4. Complete' BY <1>1, <2>3, <3>2 DEF Complete, Cc!Other
    <3> QED BY <1>1, <2>3, <3>1, <3>2, <3>3, <3>4
  <2> QED BY <2>1, <2>2, <2>3 DEF Cc!PostBegin
<1>5. up'.next \in Nat /\ s \in 0 .. Cc!Top /\ Cc!LastOf(b) \in Nat
  BY <1>4, ChunkCounts, SMT DEF Uploads
<1>6. CASE /\ ~up'.abort /\ s <= up'.next
           /\ post' = [by |-> b, seq |-> s, dup |-> s < up'.next, last |-> s = Cc!LastOf(b),
                       left |-> 2]
  <2>1. post' \in [by : {"none", "a", "b"}, seq : 0 .. Cc!Top, dup : BOOLEAN, last : BOOLEAN,
                   left : 0 .. 2]
    BY <1>5, <1>6, SMT
  <2>2. /\ post'.by = b /\ post'.seq = s /\ post'.last = (s = Cc!LastOf(b))
        /\ s <= Cc!LastOf(b)
    BY <1>5, <1>6, SMT
  <2>3. b = "a" => s = sent' /\ told' = "nothing" BY <1>1, <2>2
  <2>4. IF post'.dup THEN s < up'.next ELSE s = up'.next
    <3>1. post'.dup = (s < up'.next) BY <1>6
    <3>2. ~(s < up'.next) => s = up'.next BY <1>5, <1>6, SMT
    <3> QED BY <3>1, <3>2
  <2>5. PostFits' BY <2>2, <2>3, <2>4 DEF PostFits, Cc!LastOf
  <2> QED BY <1>1, <1>4, <2>1, <2>5, CcKept
<1>7. CASE up'.abort /\ post' = post
  <2>1. b = "b" => told' = told /\ sent' = sent BY <1>1
  <2>2. PostFits' BY <1>1, <1>7, <2>1 DEF PostFits, Cc!LastOf
  <2> QED BY <1>1, <1>4, <1>7, <2>2, CcKept
<1> QED BY <1>3, <1>4, <1>6, <1>7 DEF Cc!Accepts

\* OtaFeed, whatever the service says of the slot.
LEMMA CcFeeds == ASSUME CcInv, Cc!PostData PROVE CcInv'
<1> DEFINE o == Cc!Other(primary)
<1>1. /\ up \in Uploads /\ slot \in [Cc!Slots -> Images] /\ PostFits /\ Targeted /\ Complete
      /\ post \in [by : {"none", "a", "b"}, seq : 0 .. Cc!Top, dup : BOOLEAN, last : BOOLEAN,
                   left : 0 .. 2]
      /\ UNCHANGED <<primary, protected, main, sent, told, faults>> /\ sent \in 0 .. Last
      /\ main \in [reset : BOOLEAN, checked : BOOLEAN] /\ primary \in Cc!Slots
      /\ told \in {"nothing", "ok", "failed"} /\ faults \in 0 .. MaxFaults
  BY DEF CcInv, Cc!TypeOK, Images, Cc!PostData, Cc!NoFault
<1>2. post.left > 0 /\ post' = [post EXCEPT !.left = post.left - 1] BY DEF Cc!PostData
<1>3. post.by # "none" /\ post.left \in {1, 2} BY <1>1, <1>2, SMT DEF PostFits
<1>4. /\ post' \in [by : {"none", "a", "b"}, seq : 0 .. Cc!Top, dup : BOOLEAN, last : BOOLEAN,
                    left : 0 .. 2]
      /\ post'.by = post.by /\ post'.seq = post.seq /\ post'.dup = post.dup
      /\ post'.last = post.last
  BY <1>1, <1>2, <1>3, SMT
<1>5. CASE (up.abort \/ post.dup) /\ UNCHANGED <<up, slot>>
  <2>1. PostFits' BY <1>1, <1>3, <1>4, <1>5 DEF PostFits, Cc!LastOf
  <2>2. Targeted' /\ Complete' BY <1>1, <1>4, <1>5 DEF Targeted, Complete, Cc!Other
  <2> QED BY <1>1, <1>4, <1>5, <2>1, <2>2, CcKept
<1>6. CASE ~up.abort /\ ~post.dup /\ Cc!Feed
  <2>1. post.seq = up.next /\ post.seq <= Cc!LastOf(post.by) /\ up.target = o /\ o \in Cc!Slots
    BY <1>1, <1>3, <1>6, OtherSlot DEF PostFits, Targeted
  <2>2. LastB <= Last => ~(up.next > Last)
    <3>1. LastB <= Last => Cc!LastOf(post.by) <= Last BY <1>1, <1>3, ChunkCounts
    <3>2. Cc!LastOf(post.by) \in Nat /\ post.seq \in Nat BY <1>1, <1>3, ChunkCounts, SMT
    <3> QED BY <2>1, <3>1, <3>2, ChunkCounts, SMT
  <2>3. Cc!Fed \in Uploads /\ Cc!Fed.abort = up.abort
    <3>1. Cc!Fits => up.pos + 1 \in 0 .. 2 * (Last + 1)
      <4>1. Cc!Fits => post.seq <= Last /\ up.pos = 2 * post.seq + (2 - post.left)
        BY <1>1, ChunkCounts DEF Cc!Fits, PostFits
      <4>2. post.seq \in Nat BY <1>1, ChunkCounts, SMT
      <4> QED BY <4>1, <4>2, <1>3, ChunkCounts, SMT
    <3>2. Cc!Fits \in BOOLEAN BY <1>1 DEF Cc!Fits, Uploads
    <3> QED BY <1>1, <3>1, <3>2 DEF Cc!Fed, Uploads
  <2>4. /\ up' \in Uploads /\ up'.next = up.next /\ up'.target = up.target
        /\ slot' \in [Cc!Slots -> Images]
    <3>1. Cc!Fed.next = up.next /\ Cc!Fed.target = up.target BY <1>1 DEF Cc!Fed, Uploads
    <3>2. CASE /\ up' = [Cc!Fed EXCEPT !.started = TRUE]
               /\ slot' = [slot EXCEPT ![up.target] = [st |-> "WRITING", img |-> "bad"]]
      <4>1. up' \in Uploads /\ up'.next = Cc!Fed.next /\ up'.target = Cc!Fed.target
        BY <2>3, <3>2 DEF Uploads
      <4> QED BY <1>1, <2>1, <3>1, <3>2, <4>1 DEF Images, Cc!States
    <3>3. CASE up' = Cc!Fed /\ UNCHANGED slot BY <1>1, <2>3, <3>1, <3>3
    <3>4. CASE /\ up' = [Cc!Fed EXCEPT !.abort = TRUE]
               /\ slot' = Cc!Cancelled(slot, up.target)
      <4>1. up' \in Uploads /\ up'.next = Cc!Fed.next /\ up'.target = Cc!Fed.target
        BY <2>3, <3>4 DEF Uploads
      <4> QED BY <1>1, <2>1, <3>1, <3>4, <4>1 DEF Images, Cc!States, Cc!Cancelled
    <3> QED BY <1>6, <3>2, <3>3, <3>4 DEF Cc!Feed
  <2>5. PostFits' BY <1>1, <1>3, <1>4, <1>6, <2>1, <2>4 DEF PostFits, Cc!LastOf
  <2>6. Targeted' BY <1>1, <2>1, <2>4 DEF Targeted, Cc!Other
  <2>7. Complete' BY <2>2, <2>4 DEF Complete
  <2> QED BY <1>1, <1>4, <2>4, <2>5, <2>6, <2>7, CcKept
<1> QED BY <1>5, <1>6 DEF Cc!PostData

\* httpd_post_finished, OtaFinalize included.
LEMMA CcEnds ==
  ASSUME CcInv, Cc!Ended, sent' \in 0 .. Last, told' \in {"nothing", "ok", "failed"},
         faults' \in 0 .. MaxFaults
  PROVE  CcInv'
<1> DEFINE o == Cc!Other(primary)
<1>1. /\ up \in Uploads /\ slot \in [Cc!Slots -> Images] /\ PostFits /\ Targeted /\ Complete
      /\ post \in [by : {"none", "a", "b"}, seq : 0 .. Cc!Top, dup : BOOLEAN, last : BOOLEAN,
                   left : 0 .. 2]
      /\ main \in [reset : BOOLEAN, checked : BOOLEAN] /\ primary \in Cc!Slots
      /\ UNCHANGED <<primary, protected>> /\ post.by # "none" /\ post' = Cc!Idle
  BY DEF CcInv, Cc!TypeOK, Images, Cc!Ended
<1>2. /\ post'.by = "none" /\ post'.left = 0
      /\ post' \in [by : {"none", "a", "b"}, seq : 0 .. Cc!Top, dup : BOOLEAN, last : BOOLEAN,
                    left : 0 .. 2]
  BY <1>1, ChunkCounts, SMT DEF Cc!Idle
<1>3. PostFits' BY <1>2 DEF PostFits
<1>4. CASE UNCHANGED <<up, slot, main>>
  <2>1. Targeted' /\ Complete' BY <1>1, <1>2, <1>4 DEF Targeted, Complete, Cc!Other
  <2> QED BY <1>1, <1>2, <1>3, <1>4, <2>1, CcKept
<1>5. CASE ~up.abort /\ ~post.dup
  <2>1. /\ post.seq = up.next /\ post.seq <= Cc!LastOf(post.by)
        /\ post.last = (post.seq = Cc!LastOf(post.by)) /\ up.target = o /\ o \in Cc!Slots
    BY <1>1, <1>5, OtherSlot DEF PostFits, Targeted
  <2>2. /\ up.next \in Nat /\ post.by \in {"a", "b"} /\ Cc!LastOf(post.by) \in 0 .. Cc!Top
        /\ LastB <= Last => Cc!LastOf(post.by) <= Last
    BY <1>1, ChunkCounts, SMT DEF Uploads
  <2>3. up.next + 1 \in 0 .. Cc!Top + 1 BY <2>1, <2>2, ChunkCounts, SMT
  <2>4. CASE ~post.last /\ up' = [up EXCEPT !.next = up.next + 1] /\ UNCHANGED <<slot, main>>
    <3>1. up' \in Uploads /\ up'.next = up.next + 1 /\ up'.target = up.target
      BY <1>1, <2>3, <2>4 DEF Uploads
    <3>2. LastB <= Last => ~(up'.next > Last)
      <4>1. up.next # Cc!LastOf(post.by) /\ up.next <= Cc!LastOf(post.by) BY <2>1, <2>4
      <4>2. Cc!LastOf(post.by) \in Nat BY <2>2, ChunkCounts, SMT
      <4> QED BY <2>2, <3>1, <4>1, <4>2, ChunkCounts, SMT
    <3>3. Targeted' BY <1>1, <2>1, <3>1 DEF Targeted, Cc!Other
    <3>4. Complete' BY <3>2 DEF Complete
    <3> QED BY <1>1, <1>2, <1>3, <2>4, <3>1, <3>3, <3>4, CcKept
  <2>5. CASE Cc!Finalize
    <3> DEFINE u == [up EXCEPT !.next = up.next + 1]
    <3>1. /\ u \in Uploads /\ u.target = up.target /\ u.abort = FALSE
      BY <1>1, <1>5, <2>3 DEF Uploads
    <3>2. CASE /\ slot' = [slot EXCEPT ![up.target] =
                             [st |-> "STAGED", img |-> IF Cc!Whole THEN "new" ELSE "bad"]]
               /\ up' = [u EXCEPT !.swap = TRUE]
               /\ main' = [main EXCEPT !.reset = TRUE]
      <4>1. up' \in Uploads /\ up'.target = up.target BY <3>1, <3>2 DEF Uploads
      <4>2. [st |-> "STAGED", img |-> IF Cc!Whole THEN "new" ELSE "bad"] \in Images
        BY DEF Images, Cc!States
      <4>3. slot' \in [Cc!Slots -> Images] /\ slot'[o].st = "STAGED"
        BY <1>1, <2>1, <3>2, <4>2
      <4>4. main' \in [reset : BOOLEAN, checked : BOOLEAN] /\ main'.reset BY <1>1, <3>2
      <4>5. Targeted' BY <1>1, <2>1, <4>1 DEF Targeted, Cc!Other
      <4>6. Complete' BY <1>1, <4>3, <4>4 DEF Complete, Cc!Other
      <4> QED BY <1>1, <1>2, <1>3, <4>1, <4>3, <4>4, <4>5, <4>6, CcKept
    <3>3. CASE slot' = Cc!Cancelled(slot, up.target) /\ up' = [u EXCEPT !.abort = TRUE]
               /\ UNCHANGED main
      <4>1. up' \in Uploads /\ up'.abort BY <3>1, <3>3 DEF Uploads
      <4>2. slot' \in [Cc!Slots -> Images]
        BY <1>1, <2>1, <3>3 DEF Cc!Cancelled, Images, Cc!States
      <4>3. Targeted' /\ Complete' BY <4>1 DEF Targeted, Complete
      <4> QED BY <1>1, <1>2, <1>3, <3>3, <4>1, <4>2, <4>3, CcKept
    <3> QED BY <2>5, <3>2, <3>3 DEF Cc!Finalize
  <2> QED BY <1>4, <1>5, <2>4, <2>5 DEF Cc!Ended
<1> QED BY <1>4, <1>5 DEF Cc!Ended

\* The other steps.
LEMMA CcNext == ASSUME CcInv, Cc!Next PROVE CcInv'
<1>1. /\ up \in Uploads /\ slot \in [Cc!Slots -> Images] /\ PostFits /\ Targeted /\ Complete
      /\ post \in [by : {"none", "a", "b"}, seq : 0 .. Cc!Top, dup : BOOLEAN, last : BOOLEAN,
                   left : 0 .. 2]
      /\ main \in [reset : BOOLEAN, checked : BOOLEAN] /\ primary \in Cc!Slots
      /\ protected \in BOOLEAN /\ sent \in 0 .. Last /\ told \in {"nothing", "ok", "failed"}
      /\ faults \in 0 .. MaxFaults
  BY DEF CcInv, Cc!TypeOK, Images
<1>2. 0 \in 0 .. MaxFaults /\ 0 \in 0 .. Last BY ChunkCounts, SMT
<1>3. (Cc!Fault \/ Cc!NoFault) => faults' \in 0 .. MaxFaults
  BY <1>1, ChunkCounts, SMT DEF Cc!Fault, Cc!NoFault
<1>4. CASE Cc!Send
  <2>1. sent \in 0 .. Cc!LastOf("a") BY <1>1, ChunkCounts
  <2> QED BY <1>3, <1>4, <2>1, CcBegins DEF Cc!Send
<1>5. ASSUME NEW s \in 0 .. LastB, Cc!Meddle(s) PROVE CcInv'
  <2>1. s \in 0 .. Cc!LastOf("b") BY <1>5 DEF Cc!LastOf
  <2> QED BY <1>3, <1>5, <2>1, CcBegins DEF Cc!Meddle
<1>6. CASE Cc!Answer
  <2>1. sent < Last => sent + 1 \in 0 .. Last BY <1>1, ChunkCounts, SMT
  <2>2. sent' \in 0 .. Last /\ told' \in {"nothing", "ok", "failed"}
    BY <1>1, <1>2, <1>6, <2>1 DEF Cc!Answer
  <2> QED BY <1>3, <1>6, <2>2, CcEnds DEF Cc!Answer
<1>7. CASE Cc!Drop BY <1>1, <1>3, <1>7, CcEnds DEF Cc!Drop
<1>8. CASE Cc!Retry
  <2>1. post.by # "a" BY <1>1, <1>8 DEF Cc!Retry, PostFits
  <2>2. PostFits' BY <1>1, <1>8, <2>1 DEF Cc!Retry, PostFits, Cc!LastOf
  <2>3. Targeted' /\ Complete' BY <1>1, <1>8 DEF Cc!Retry, Targeted, Complete, Cc!Other
  <2> QED BY <1>1, <1>2, <1>8, <2>2, <2>3, CcKept DEF Cc!Retry
<1>9. CASE Cc!Reboot BY <1>1, <1>3, <1>9, SwapTypes, BootForgets DEF Cc!Reboot
<1>10. CASE Cc!Outage BY <1>1, <1>3, <1>10, SwapTypes, BootForgets DEF Cc!Outage
<1>11. CASE Cc!PowerCycle
  BY <1>1, <1>2, <1>3, <1>11, SwapTypes, BootForgets DEF Cc!PowerCycle
<1>12. CASE Cc!TrialAccept
  <2>1. CASE /\ main' = [main EXCEPT !.checked = TRUE]
             /\ UNCHANGED <<up, post, slot, protected, primary, sent, told>>
    <3>1. main' \in [reset : BOOLEAN, checked : BOOLEAN] /\ main'.reset = main.reset
      BY <1>1, <2>1
    <3>2. PostFits' BY <1>1, <2>1 DEF PostFits, Cc!LastOf
    <3>3. Targeted' /\ Complete' BY <1>1, <2>1, <3>1 DEF Targeted, Complete, Cc!Other
    <3>4. faults' \in 0 .. MaxFaults BY <1>3, <1>12 DEF Cc!TrialAccept
    <3> QED BY <1>1, <2>1, <3>1, <3>2, <3>3, <3>4, CcKept
  <2>2. CASE /\ slot' = [s \in Cc!Slots |->
                           IF s = primary THEN [slot[s] EXCEPT !.st = "UPDATED"]
                           ELSE [st |-> "FAILED", img |-> "none"]]
             /\ protected' = TRUE /\ Cc!Booted /\ Cc!NoFault /\ UNCHANGED <<primary, sent, told>>
    <3>1. slot' \in [Cc!Slots -> Images] BY <1>1, <2>2 DEF Images, Cc!States
    <3> QED BY <1>1, <1>3, <2>2, <3>1, BootForgets
  <2> QED BY <1>12, <2>1, <2>2 DEF Cc!TrialAccept
<1>13. CASE Cc!Calm
  <2>1. PostFits' BY <1>1, <1>13 DEF Cc!Calm, PostFits, Cc!LastOf
  <2>2. Targeted' /\ Complete' BY <1>1, <1>13 DEF Cc!Calm, Targeted, Complete, Cc!Other
  <2> QED BY <1>1, <1>2, <1>13, <2>1, <2>2, CcKept DEF Cc!Calm
<1> QED BY <1>4, <1>5, <1>6, <1>7, <1>8, <1>9, <1>10, <1>11, <1>12, <1>13, CcFeeds DEF Cc!Next

LEMMA CcStutters == ASSUME CcInv, UNCHANGED ccVars PROVE CcInv'
<1>1. UNCHANGED <<up, post, slot, primary, protected, main, sent, told, faults>> BY DEF ccVars
<1> QED BY <1>1 DEF CcInv, Cc!TypeOK, PostFits, Targeted, Complete, Cc!LastOf, Cc!Other

LEMMA CcSteps == CcInv /\ [Next]_vars => CcInv'
BY CcNext, CcStutters DEF Next, OnTm, OnCc, OnStore, vars

\* "ok" is what the answer to the last chunk says, with the image staged.
LEMMA CcTold ==
  ASSUME CcInv, LastB <= Last, Cc!Next, told = "nothing", told' = "ok"
  PROVE  slot'[Cc!Other(primary)].st = "STAGED" /\ main'.reset
<1> DEFINE o == Cc!Other(primary)
<1>1. /\ up \in Uploads /\ slot \in [Cc!Slots -> Images] /\ PostFits /\ Targeted /\ Complete
      /\ post \in [by : {"none", "a", "b"}, seq : 0 .. Cc!Top, dup : BOOLEAN, last : BOOLEAN,
                   left : 0 .. 2]
      /\ main \in [reset : BOOLEAN, checked : BOOLEAN] /\ primary \in Cc!Slots
  BY DEF CcInv, Cc!TypeOK, Images
<1>2. Cc!Answer
  <2>1. ~Cc!Send /\ ~Cc!Retry /\ ~Cc!PowerCycle BY DEF Cc!Send, Cc!Retry, Cc!PowerCycle
  <2>2. ~Cc!PostData /\ ~Cc!Drop /\ ~Cc!Reboot /\ ~Cc!Outage /\ ~Cc!TrialAccept /\ ~Cc!Calm
    BY DEF Cc!PostData, Cc!Drop, Cc!Reboot, Cc!Outage, Cc!TrialAccept, Cc!Calm
  <2>3. \A s \in 0 .. LastB : ~Cc!Meddle(s) BY DEF Cc!Meddle
  <2> QED BY <2>1, <2>2, <2>3 DEF Cc!Next
<1>3. post.by = "a" /\ sent = Last /\ ~up'.abort /\ Cc!Ended BY <1>2 DEF Cc!Answer
<1>4. post.seq = Last /\ post.last BY <1>1, <1>3, ChunkCounts DEF PostFits
<1>5. CASE UNCHANGED <<up, slot, main>> /\ (up.abort \/ post.dup)
  <2>1. ~up.abort /\ post.seq < up.next BY <1>1, <1>3, <1>5 DEF PostFits
  <2>2. up.next > Last BY <1>1, <1>4, <2>1, ChunkCounts, SMT DEF Uploads
  <2> QED BY <1>1, <1>5, <2>1, <2>2 DEF Complete
<1>6. CASE ~up.abort /\ Cc!Finalize
  <2>1. up.target = o /\ o \in Cc!Slots BY <1>1, <1>3, <1>6, OtherSlot DEF Targeted
  <2>2. CASE /\ slot' = [slot EXCEPT ![up.target] =
                           [st |-> "STAGED", img |-> IF Cc!Whole THEN "new" ELSE "bad"]]
             /\ main' = [main EXCEPT !.reset = TRUE]
    BY <1>1, <2>1, <2>2
  <2>3. CASE up' = [[up EXCEPT !.next = up.next + 1] EXCEPT !.abort = TRUE]
    <3>1. up'.abort BY <1>1, <2>3 DEF Uploads
    <3> QED BY <1>3, <3>1
  <2> QED BY <1>6, <2>2, <2>3 DEF Cc!Finalize
<1> QED BY <1>3, <1>4, <1>5, <1>6 DEF Cc!Ended

\* What a browser is told of its upload to the CC35x1 is what has come of it: an answer of
\* success (httpd_post_finished, webui_platform.c:947) comes with the image staged and the
\* reboot asked for, if the other browser's image has no more chunks.
THEOREM AnswersTruly == ASSUME LastB <= Last PROVE Spec => Verdict
<1>1. Init => CcInv BY CcStarts DEF Init
<1>2. CcInv /\ [Next]_vars =>
        [told' = "ok" /\ told = "nothing" =>
           slot'[Cc!Other(primary)].st = "STAGED" /\ main'.reset]_(Cc!vars)
  <2> SUFFICES ASSUME CcInv, [Next]_vars, told' = "ok", told = "nothing"
               PROVE  slot'[Cc!Other(primary)].st = "STAGED" /\ main'.reset
    OBVIOUS
  <2>1. Cc!Next BY DEF Next, OnTm, OnCc, OnStore, vars, ccVars
  <2> QED BY <2>1, CcTold
<1> QED BY <1>1, <1>2, CcSteps, PTL DEF Spec, Verdict, Cc!Verdict

-----------------------------------------------------------------------------
(* The staging of an image by the TM4C1294.                                *)

LEMMA DivMod ==
  ASSUME NEW p \in Nat, NEW b \in Nat \ {0}
  PROVE  p \div b \in Nat /\ p % b \in 0 .. b - 1 /\ p = (p \div b) * b + (p % b)
BY SMT

LEMMA DivGrows ==
  ASSUME NEW b \in Nat \ {0}, NEW p \in Nat, NEW q \in Nat, p <= q
  PROVE  p \div b <= q \div b
<1>1. /\ p = (p \div b) * b + (p % b) /\ p % b \in 0 .. b - 1 /\ p \div b \in Nat
      /\ q = (q \div b) * b + (q % b) /\ q % b \in 0 .. b - 1 /\ q \div b \in Nat
  BY DivMod
<1>2. p \div b > q \div b => (p \div b) * b >= ((q \div b) + 1) * b BY <1>1, SMT
<1>3. ((q \div b) + 1) * b = (q \div b) * b + b BY <1>1, SMT
<1> QED BY <1>1, <1>2, <1>3, SMT

LEMMA DivBelow ==
  ASSUME NEW b \in Nat \ {0}, NEW n \in Nat, NEW p \in Nat, p < n * b
  PROVE  p \div b \in 0 .. n - 1
<1>1. p = (p \div b) * b + (p % b) /\ p % b \in 0 .. b - 1 /\ p \div b \in Nat BY DivMod
<1>2. p \div b >= n => (p \div b) * b >= n * b BY <1>1, SMT
<1> QED BY <1>1, <1>2, SMT

\* The quotient of a sum whose last part is too small to count.
LEMMA DivOf ==
  ASSUME NEW b \in Nat \ {0}, NEW q \in Nat, NEW x \in 0 .. b - 1
  PROVE  (q * b + x) \div b = q /\ (q * b + x) % b = x
<1> DEFINE p == q * b + x
<1>1. p \in Nat BY SMT
<1>2. p = (p \div b) * b + (p % b) /\ p % b \in 0 .. b - 1 /\ p \div b \in Nat BY <1>1, DivMod
<1>3. p \div b < q => ((p \div b) + 1) * b <= q * b BY <1>2, SMT
<1>4. p \div b > q => (q + 1) * b <= (p \div b) * b BY <1>2, SMT
<1>5. ((p \div b) + 1) * b = (p \div b) * b + b /\ (q + 1) * b = q * b + b BY <1>2, SMT
<1>6. p \div b = q
  <2> HIDE DEF p
  <2>1. p = q * b + x BY DEF p
  <2>2. q * b \in Nat /\ (p \div b) * b \in Nat BY <1>2, SMT
  <2> QED BY <1>2, <1>3, <1>4, <1>5, <2>1, <2>2, SMT
<1>7. (p \div b) * b = q * b BY <1>6
<1>8. p % b = x
  <2> HIDE DEF p
  <2>1. p = q * b + x BY DEF p
  <2>2. q * b \in Nat BY SMT
  <2> QED BY <1>2, <1>7, <2>1, <2>2, SMT
<1> QED BY <1>6, <1>8

LEMMA Times == ASSUME NEW x \in Nat, NEW w \in Nat PROVE x * w \in Nat
BY SMT

LEMMA Distributes ==
  ASSUME NEW x \in Nat, NEW y \in Nat, NEW w \in Nat, NEW z, z = x + y
  PROVE  z * w = x * w + y * w
BY SMT

LEMMA UploadCounts ==
  /\ ChunkLen \in Nat \ {0} /\ WordLen \in Nat \ {0} /\ PageWords \in Nat \ {0}
  /\ StagePages \in Nat \ {0} /\ ImageCuts \in Nat
  /\ \A u \in Uploaders : Bytes[u] \in Nat \ {0}
  /\ StagePages * PageWords \in Nat
<1>1. /\ ChunkLen \in Nat \ {0} /\ WordLen \in Nat \ {0} /\ PageWords \in Nat \ {0}
      /\ StagePages \in Nat \ {0} /\ ImageCuts \in Nat
      /\ \A u \in Uploaders : Bytes[u] \in Nat \ {0}
  BY UploadAssumption
<1> QED BY <1>1, SMT

Cells == (Uploaders \X Nat) \cup {<<"ff", 0>>, <<"dirty", 0>>}
FlashWords == {w \in Seq(Cells) : Len(w) <= WordLen}
Memory == [Tm!Stage -> FlashWords]

Typed(r) ==
  /\ r \in [addr : Nat, size : Nat, buf : Seq(Cells), erased : 0 .. StagePages - 1,
            abort : BOOLEAN, next : Nat]
  /\ Len(r.buf) < WordLen

\* No word below addr lies in a page that a later chunk would still erase.
Clean(r) == \A i \in 0 .. r.addr - 1 : i \div PageWords <= r.erased

\* Nothing has been padded: the bytes counted are those programmed and those left.
Exact(r) ==
  /\ r.size = r.addr * WordLen + Len(r.buf)
  /\ r.addr <= StagePages * PageWords /\ Clean(r)

\* Byte k of the staging region, as the digest takes it.
At(w, k) ==
  LET x == w[(k - 1) \div WordLen] i == ((k - 1) % WordLen) + 1
  IN IF i <= Len(x) THEN x[i] ELSE Tm!Pad

\* The flush of an image that ended inside a word has left a padded byte at k, behind the
\* write pointer in a page that is not erased any more.
Gap(k, r, w) ==
  LET i == (k - 1) \div WordLen
  IN /\ i \in Tm!Stage /\ i < r.addr /\ i \div PageWords <= r.erased
     /\ At(w, k) = Tm!Pad

\* As long as every chunk was full nothing has been padded, or the byte after the padded
\* image, which a later chunk can only come behind, shows it; a short chunk leaves the
\* count behind for good.
Counted(r, w) ==
  ~r.abort =>
    /\ r.size <= r.next * ChunkLen
    /\ r.size = r.next * ChunkLen => \/ Exact(r)
                                     \/ \E k \in 1 .. r.size + 1 : Gap(k, r, w)

LEMMA FreshFits == Typed(Tm!Fresh) /\ \A w : Counted(Tm!Fresh, w)
<1> DEFINE f == Tm!Fresh
<1>1. /\ f.addr = 0 /\ f.size = 0 /\ f.buf = <<>> /\ f.erased = 0 /\ f.abort = FALSE
      /\ f.next = 0
  BY DEF Tm!Fresh
<1>2. 0 \in 0 .. StagePages - 1 /\ Len(<<>>) < WordLen BY UploadCounts, SMT
<1>3. <<>> \in Seq(Cells) OBVIOUS
<1>4. f \in [addr : Nat, size : Nat, buf : Seq(Cells), erased : 0 .. StagePages - 1,
             abort : BOOLEAN, next : Nat]
  BY <1>2, <1>3 DEF Tm!Fresh
<1>5. Clean(f)
  <2>1. 0 .. f.addr - 1 = {} BY <1>1, SMT
  <2> QED BY <2>1 DEF Clean
<1>6. 0 <= 0 * ChunkLen /\ 0 = 0 * WordLen + 0 /\ 0 <= StagePages * PageWords
  BY UploadCounts, SMT
<1>7. Exact(f)
  <2>1. Len(<<>>) = 0 OBVIOUS
  <2> QED BY <1>1, <1>5, <1>6, <2>1 DEF Exact
<1>8. \A w : Counted(f, w) BY <1>1, <1>6, <1>7 DEF Counted
<1> QED BY <1>1, <1>2, <1>4, <1>8 DEF Typed

\* The chunks of an image, all but the last of them full.
LEMMA ChunkFacts ==
  ASSUME NEW u \in Uploaders, NEW s \in 0 .. Tm!LastChunk(u)
  PROVE  /\ Tm!LastChunk(u) \in Nat
         /\ Tm!Chunk(u, s) \in Seq(Cells)
         /\ Len(Tm!Chunk(u, s)) \in 1 .. ChunkLen
         /\ s = Tm!LastChunk(u) => s * ChunkLen + Len(Tm!Chunk(u, s)) = Bytes[u]
<1> DEFINE l == Tm!LastChunk(u)
           end == IF s = l THEN Bytes[u] ELSE (s + 1) * ChunkLen
           n == end - s * ChunkLen
<1>1. Bytes[u] - 1 \in Nat /\ Bytes[u] \in Nat /\ ChunkLen \in Nat \ {0} BY UploadCounts, SMT
<1>2. /\ l \in Nat /\ (Bytes[u] - 1) % ChunkLen \in 0 .. ChunkLen - 1
      /\ Bytes[u] - 1 = l * ChunkLen + ((Bytes[u] - 1) % ChunkLen)
  BY <1>1, DivMod DEF Tm!LastChunk
<1>3. s \in Nat BY <1>2, SMT
<1>4. s * ChunkLen \in Nat /\ (s + 1) * ChunkLen = s * ChunkLen + ChunkLen BY <1>1, <1>3, SMT
<1>5. n \in 1 .. ChunkLen
  <2>1. CASE s = l
    <3>1. n = Bytes[u] - s * ChunkLen BY <2>1
    <3>2. s * ChunkLen = l * ChunkLen BY <2>1
    <3> HIDE DEF l, n, end
    <3> QED BY <1>1, <1>2, <1>4, <3>1, <3>2, SMT
  <2>2. CASE s # l
    <3>1. n = (s + 1) * ChunkLen - s * ChunkLen BY <2>2
    <3> HIDE DEF l, n, end
    <3> QED BY <1>1, <1>4, <3>1, SMT
  <2> QED BY <2>1, <2>2
<1>6. Tm!Chunk(u, s) = [k \in 1 .. n |-> <<u, s * ChunkLen + k>>] BY DEF Tm!Chunk, Tm!Part
<1>7. \A k \in 1 .. n : <<u, s * ChunkLen + k>> \in Cells
  <2>1. \A k \in 1 .. n : s * ChunkLen + k \in Nat BY <1>4, <1>5, SMT
  <2> QED BY <2>1 DEF Cells
<1>8. n \in Nat BY <1>1, <1>5, SMT
<1>9. Tm!Chunk(u, s) \in Seq(Cells) /\ Len(Tm!Chunk(u, s)) = n
  <2> HIDE DEF n
  <2> QED BY <1>6, <1>7, <1>8
<1>10. s = l => s * ChunkLen + n = Bytes[u]
  <2> SUFFICES ASSUME s = l PROVE s * ChunkLen + n = Bytes[u] OBVIOUS
  <2>1. n = Bytes[u] - s * ChunkLen OBVIOUS
  <2> HIDE DEF n, l, end
  <2> QED BY <1>1, <1>4, <2>1, SMT
<1> QED BY <1>2, <1>5, <1>9, <1>10

\* The last of the pages that the next n words enter for the first time.
LEMMA PagesFacts ==
  ASSUME NEW r, Typed(r), NEW n \in Nat, n = 0 \/ r.addr + n <= StagePages * PageWords,
         NEW new, new = Tm!Pages(r, n),
         NEW e, new = {} => e = r.erased,
         \A p \in new : (\A q \in new : q <= p) => e \in new /\ \A q \in new : q <= e
  PROVE  /\ e \in 0 .. StagePages - 1 /\ e >= r.erased
         /\ \A i \in r.addr .. r.addr + n - 1 : i \in Tm!Stage /\ i \div PageWords <= e
<1>1. r.addr \in Nat /\ r.erased \in 0 .. StagePages - 1 BY DEF Typed
<1>2. ASSUME NEW i \in r.addr .. r.addr + n - 1
      PROVE  i \in Tm!Stage /\ i \in Nat /\ i \div PageWords \in 0 .. StagePages - 1
  <2>1. i \in Nat /\ i < StagePages * PageWords BY <1>1, UploadCounts, SMT
  <2>2. i \div PageWords \in 0 .. StagePages - 1 BY <2>1, UploadCounts, DivBelow
  <2>3. i \in 0 .. StagePages * PageWords - 1 BY <2>1, UploadCounts, SMT
  <2> QED BY <2>1, <2>2, <2>3 DEF Tm!Stage
<1>3. new = {p \in 0 .. StagePages - 1 :
               p > r.erased /\ \E i \in r.addr .. r.addr + n - 1 : i \div PageWords = p}
  BY DEF Tm!Pages
<1>4. CASE new = {}
  <2>1. e = r.erased BY <1>4
  <2>2. ASSUME NEW i \in r.addr .. r.addr + n - 1 PROVE i \div PageWords <= r.erased
    <3>1. i \div PageWords \in 0 .. StagePages - 1 BY <1>2
    <3>2. ~(i \div PageWords > r.erased) BY <1>3, <1>4, <3>1
    <3> QED BY <1>1, <3>1, <3>2, UploadCounts, SMT
  <2>3. e >= r.erased
    <3>1. r.erased \in Nat BY <1>1, UploadCounts, SMT
    <3> QED BY <2>1, <3>1
  <2> QED BY <1>1, <1>2, <2>1, <2>2, <2>3
<1>5. CASE new # {}
  <2> DEFINE j == r.addr + n - 1
             top == j \div PageWords
  <2>1. PICK p \in new : TRUE BY <1>5
  <2>2. PICK i \in r.addr .. r.addr + n - 1 : i \div PageWords = p BY <1>3, <2>1
  <2>3. j \in r.addr .. r.addr + n - 1 /\ j \in Nat BY <1>1, <2>2, SMT
  <2>4. top \in 0 .. StagePages - 1 BY <1>2, <2>3
  <2>5. \A k \in r.addr .. r.addr + n - 1 : k \div PageWords <= top
    <3> TAKE k \in r.addr .. r.addr + n - 1
    <3>1. k \in Nat /\ k <= j BY <1>1, <2>3, SMT
    <3> QED BY <2>3, <3>1, DivGrows, UploadCounts
  <2>6. p > r.erased /\ p \in 0 .. StagePages - 1 /\ p <= top BY <1>3, <2>1, <2>2, <2>5
  <2>7. top > r.erased
    <3> HIDE DEF top
    <3> QED BY <1>1, <2>4, <2>6, UploadCounts, SMT
  <2>8. top \in new BY <1>3, <2>3, <2>4, <2>7
  <2>9. \A q \in new : q <= top BY <1>3, <2>5
  <2>10. e \in new /\ \A q \in new : q <= e
    <3> HIDE DEF top
    <3> QED BY <2>8, <2>9
  <2>11. e \in 0 .. StagePages - 1 /\ e > r.erased /\ top <= e BY <1>3, <2>8, <2>10
  <2>12. e >= r.erased BY <1>1, <2>11, UploadCounts, SMT
  <2>13. ASSUME NEW k \in r.addr .. r.addr + n - 1 PROVE k \div PageWords <= e
    <3>1. k \div PageWords <= top /\ k \div PageWords \in 0 .. StagePages - 1 BY <1>2, <2>5
    <3> HIDE DEF top
    <3> QED BY <2>4, <2>11, <3>1, UploadCounts, SMT
  <2> QED BY <1>2, <2>11, <2>12, <2>13
<1> QED BY <1>4, <1>5

\* The whole words of the bytes at hand, and what is left of them.
LEMMA WordsFacts ==
  ASSUME NEW r, Typed(r), NEW b \in Seq(Cells), NEW bs, bs = r.buf \o b,
         NEW m, m = Tm!WordsOf(bs), NEW n, n = Tm!Fits(r, m)
  PROVE  /\ bs \in Seq(Cells) /\ Len(bs) = Len(r.buf) + Len(b)
         /\ Len(bs) \in Nat /\ m \in Nat /\ m * WordLen \in Nat
         /\ m * WordLen <= Len(bs) /\ Len(bs) < m * WordLen + WordLen
         /\ n \in 0 .. m /\ (n = 0 \/ r.addr + n <= StagePages * PageWords)
<1>1. r.addr \in Nat /\ r.buf \in Seq(Cells) BY DEF Typed
<1>2. bs \in Seq(Cells) /\ Len(bs) = Len(r.buf) + Len(b) /\ Len(bs) \in Nat
  BY <1>1, ConcatProperties, SMT
<1>3. /\ m \in Nat /\ Len(bs) % WordLen \in 0 .. WordLen - 1
      /\ Len(bs) = m * WordLen + (Len(bs) % WordLen)
  BY <1>2, UploadCounts, DivMod DEF Tm!WordsOf
<1>4. m * WordLen \in Nat BY <1>3, UploadCounts, SMT
<1>5. m * WordLen <= Len(bs) /\ Len(bs) < m * WordLen + WordLen
  <2> DEFINE y == m * WordLen
             x == Len(bs) % WordLen
  <2>1. y \in Nat /\ x \in 0 .. WordLen - 1 /\ Len(bs) = y + x BY <1>3, <1>4
  <2>2. WordLen \in Nat BY UploadCounts
  <2> HIDE DEF x, y
  <2>3. y <= Len(bs) /\ Len(bs) < y + WordLen BY <2>1, <2>2, SMT
  <2> QED BY <2>3 DEF y
<1>6. n \in 0 .. m /\ (n = 0 \/ r.addr + n <= StagePages * PageWords)
  <2> DEFINE room == Tm!Room(r)
  <2>1. room \in Nat /\ (room = 0 \/ r.addr + room <= StagePages * PageWords)
    BY <1>1, UploadCounts, SMT DEF Tm!Room
  <2>2. n = IF m > room THEN room ELSE m BY DEF Tm!Fits
  <2> HIDE DEF room
  <2> QED BY <1>1, <1>3, <2>1, <2>2, UploadCounts, SMT
<1> QED BY <1>2, <1>3, <1>4, <1>5, <1>6

LEMMA DecodedFacts ==
  ASSUME NEW r, Typed(r), NEW b \in Seq(Cells), NEW d, d = Tm!Decoded(r, b),
         NEW m, m = Tm!WordsOf(r.buf \o b), NEW n, n = Tm!Fits(r, m)
  PROVE  /\ Typed(d) /\ n \in Nat /\ d.addr = r.addr + n /\ d.size = r.size + Len(b)
         /\ d.erased >= r.erased
         /\ \A i \in r.addr .. r.addr + n - 1 : i \in Tm!Stage /\ i \div PageWords <= d.erased
         /\ r.addr + n <= StagePages * PageWords \/ n = 0
         /\ ~d.abort => /\ d.next = r.next + 1 /\ n = m
                        /\ Len(d.buf) = Len(r.buf \o b) - m * WordLen
<1> DEFINE bs == r.buf \o b
           new == Tm!Pages(r, n)
           e == IF new = {} THEN r.erased ELSE CHOOSE p \in new : \A q \in new : q <= p
           rest == SubSeq(bs, m * WordLen + 1, Len(bs))
           over == n < m
<1>1. /\ r.addr \in Nat /\ r.size \in Nat /\ r.next \in Nat /\ r.buf \in Seq(Cells)
      /\ r \in [addr : Nat, size : Nat, buf : Seq(Cells), erased : 0 .. StagePages - 1,
                abort : BOOLEAN, next : Nat]
  BY DEF Typed
<1>2. /\ bs \in Seq(Cells) /\ Len(bs) = Len(r.buf) + Len(b)
      /\ Len(bs) \in Nat /\ m \in Nat /\ m * WordLen \in Nat
      /\ m * WordLen <= Len(bs) /\ Len(bs) < m * WordLen + WordLen
      /\ n \in 0 .. m /\ (n = 0 \/ r.addr + n <= StagePages * PageWords)
  BY WordsFacts
<1>3. n \in Nat BY <1>2, SMT
<1>4. /\ e \in 0 .. StagePages - 1 /\ e >= r.erased
      /\ \A i \in r.addr .. r.addr + n - 1 : i \in Tm!Stage /\ i \div PageWords <= e
  <2>1. new = {} => e = r.erased OBVIOUS
  <2>2. ASSUME NEW p \in new, \A q \in new : q <= p PROVE e \in new /\ \A q \in new : q <= e
    <3>1. e = CHOOSE x \in new : \A q \in new : q <= x BY <2>2
    <3> HIDE DEF new
    <3> QED BY <2>2, <3>1
  <2>3. new = Tm!Pages(r, n) OBVIOUS
  <2> HIDE DEF new, e
  <2> QED BY <1>2, <1>3, <2>1, <2>2, <2>3, PagesFacts
<1>5. d = [r EXCEPT !.addr = r.addr + n, !.size = r.size + Len(b), !.abort = over,
                    !.buf = IF over THEN <<>> ELSE rest, !.erased = e,
                    !.next = IF over THEN r.next ELSE r.next + 1]
  BY DEF Tm!Decoded
<1>6. rest \in Seq(Cells) /\ Len(rest) = Len(bs) - m * WordLen /\ Len(rest) < WordLen
  <2>1. \A i \in m * WordLen + 1 .. Len(bs) : bs[i] \in Cells
    <3> DEFINE k == m * WordLen
    <3>1. k \in Nat /\ bs \in Seq(Cells) /\ Len(bs) \in Nat BY <1>2
    <3> HIDE DEF bs, k
    <3>2. \A i \in k + 1 .. Len(bs) : i \in 1 .. Len(bs) BY <3>1, SMT
    <3>3. \A i \in k + 1 .. Len(bs) : bs[i] \in Cells BY <3>1, <3>2, ElementOfSeq
    <3> QED BY <3>3 DEF k
  <2> HIDE DEF bs
  <2>2. m * WordLen + 1 \in Int /\ Len(bs) \in Int BY <1>2, SMT
  <2>3. /\ rest \in Seq(Cells)
        /\ Len(rest) = IF m * WordLen + 1 <= Len(bs) THEN Len(bs) - (m * WordLen + 1) + 1 ELSE 0
    BY <2>1, <2>2, SubSeqProperties
  <2> HIDE DEF rest
  <2> DEFINE k == m * WordLen
             l == Len(bs)
  <2>4. k \in Nat /\ l \in Nat /\ k <= l /\ l < k + WordLen /\ WordLen \in Nat
        /\ Len(rest) = IF k + 1 <= l THEN l - (k + 1) + 1 ELSE 0
    BY <1>2, <2>3, UploadCounts
  <2> HIDE DEF k, l
  <2>5. Len(rest) = l - k /\ Len(rest) < WordLen BY <2>4, SMT
  <2> QED BY <2>3, <2>5 DEF k, l
<1>7. Len(b) \in Nat /\ r.addr + n \in Nat /\ r.size + Len(b) \in Nat /\ r.next + 1 \in Nat
  BY <1>1, <1>3, SMT
<1>8. over \in BOOLEAN /\ <<>> \in Seq(Cells) /\ Len(<<>>) < WordLen /\ (~over => n = m)
  BY <1>2, UploadCounts, SMT
<1>9. /\ d.addr = r.addr + n /\ d.size = r.size + Len(b) /\ d.abort = over /\ d.erased = e
      /\ d.buf = (IF over THEN <<>> ELSE rest)
      /\ d.next = (IF over THEN r.next ELSE r.next + 1)
  <2> HIDE DEF over, rest, e
  <2> QED BY <1>1, <1>5
<1>10. d \in [addr : Nat, size : Nat, buf : Seq(Cells), erased : 0 .. StagePages - 1,
              abort : BOOLEAN, next : Nat]
  <2> HIDE DEF over, rest, e
  <2> QED BY <1>1, <1>4, <1>5, <1>6, <1>7, <1>8
<1> HIDE DEF over, rest, e
<1> QED BY <1>2, <1>3, <1>4, <1>6, <1>8, <1>9, <1>10 DEF Typed

\* A chunk is laid out behind the bytes before it without a gap.
LEMMA LaidOut ==
  ASSUME NEW r, Typed(r), Exact(r), NEW b \in Seq(Cells), NEW d, d = Tm!Decoded(r, b), ~d.abort
  PROVE  Exact(d)
<1> DEFINE m == Tm!WordsOf(r.buf \o b)
           n == Tm!Fits(r, m)
<1>1. /\ Typed(d) /\ n \in Nat /\ d.addr = r.addr + n /\ d.size = r.size + Len(b)
      /\ d.erased >= r.erased
      /\ \A i \in r.addr .. r.addr + n - 1 : i \in Tm!Stage /\ i \div PageWords <= d.erased
      /\ r.addr + n <= StagePages * PageWords \/ n = 0
      /\ n = m /\ Len(d.buf) = Len(r.buf \o b) - m * WordLen
  BY DecodedFacts
<1>2. /\ r.size = r.addr * WordLen + Len(r.buf) /\ r.addr <= StagePages * PageWords
      /\ Clean(r)
  BY DEF Exact
<1>3. Len(r.buf \o b) = Len(r.buf) + Len(b) BY WordsFacts
<1>4. /\ r.addr \in Nat /\ r.erased \in Nat /\ d.erased \in Nat
      /\ Len(r.buf) \in Nat /\ Len(b) \in Nat
  <2>1. /\ r.addr \in Nat /\ r.erased \in 0 .. StagePages - 1 /\ r.buf \in Seq(Cells)
        /\ d.erased \in 0 .. StagePages - 1
    BY <1>1 DEF Typed
  <2> QED BY <2>1, UploadCounts, SMT
<1>5. d.addr <= StagePages * PageWords
  <2> HIDE DEF n
  <2>1. n = 0 => d.addr = r.addr BY <1>1, <1>4
  <2> QED BY <1>1, <1>2, <2>1
<1>6. d.size = d.addr * WordLen + Len(d.buf)
  <2> HIDE DEF n, m
  <2>1. r.addr \in Nat /\ n \in Nat /\ WordLen \in Nat /\ d.addr = r.addr + n
    BY <1>1, <1>4, UploadCounts
  <2>2. Len(d.buf) = (Len(r.buf) + Len(b)) - n * WordLen
    <3>1. n = m /\ Len(d.buf) = Len(r.buf \o b) - m * WordLen BY <1>1
    <3>2. Len(d.buf) = Len(r.buf \o b) - n * WordLen BY <3>1
    <3> QED BY <1>3, <3>2
  <2>3. n * WordLen \in Nat /\ r.addr * WordLen \in Nat BY <2>1, Times
  <2>4. d.addr * WordLen = r.addr * WordLen + n * WordLen BY <2>1, Distributes
  <2>5. d.size = r.addr * WordLen + Len(r.buf) + Len(b) BY <1>1, <1>2
  <2> QED BY <1>4, <2>2, <2>3, <2>4, <2>5, SMT
<1>7. ASSUME NEW i \in 0 .. d.addr - 1 PROVE i \div PageWords <= d.erased
  <2> HIDE DEF n
  <2>1. i \in Nat /\ (i \in 0 .. r.addr - 1 \/ i \in r.addr .. r.addr + n - 1)
    BY <1>1, <1>4, SMT
  <2>2. CASE i \in r.addr .. r.addr + n - 1 BY <1>1, <2>2
  <2>3. CASE i \in 0 .. r.addr - 1
    <3>1. i \div PageWords <= r.erased BY <1>2, <2>3 DEF Clean
    <3>2. i \div PageWords \in Nat BY <2>1, DivMod, UploadCounts
    <3> QED BY <1>1, <1>4, <3>1, <3>2, SMT
  <2> QED BY <2>1, <2>2, <2>3
<1> QED BY <1>5, <1>6, <1>7 DEF Clean, Exact

LEMMA FlushedFacts ==
  ASSUME NEW r, Typed(r), NEW f, f = Tm!Flushed(r)
  PROVE  /\ Typed(f) /\ f.addr >= r.addr /\ f.erased = r.erased /\ f.size = r.size
         /\ f.next = r.next /\ f.abort = r.abort /\ f.buf = <<>>
         /\ r.buf # <<>> => f.addr = r.addr + 1
         /\ r.buf = <<>> => f = r
<1>1. /\ r \in [addr : Nat, size : Nat, buf : Seq(Cells), erased : 0 .. StagePages - 1,
                abort : BOOLEAN, next : Nat]
      /\ r.addr \in Nat /\ r.addr + 1 \in Nat
  BY DEF Typed
<1>2. CASE r.buf = <<>>
  <2>1. f = r BY <1>2 DEF Tm!Flushed
  <2> QED BY <1>1, <1>2, <2>1
<1>3. CASE r.buf # <<>>
  <2>1. f = [r EXCEPT !.addr = r.addr + 1, !.buf = <<>>] BY <1>3 DEF Tm!Flushed
  <2>2. /\ f.addr = r.addr + 1 /\ f.buf = <<>> /\ f.erased = r.erased /\ f.size = r.size
        /\ f.next = r.next /\ f.abort = r.abort
    BY <1>1, <2>1
  <2>3. <<>> \in Seq(Cells) /\ Len(<<>>) < WordLen BY UploadCounts, SMT
  <2>4. Typed(f) BY <1>1, <2>1, <2>2, <2>3 DEF Typed
  <2> QED BY <1>1, <1>3, <2>2, <2>4
<1> QED BY <1>2, <1>3

LEMMA FlashTypes ==
  /\ Tm!Erased \in FlashWords /\ Tm!Dirty \in FlashWords
  /\ \A old, w \in FlashWords : Tm!Programmed(old, w) \in FlashWords
<1>1. Tm!Erased \in FlashWords BY UploadCounts, SMT DEF Tm!Erased, FlashWords
<1>2. Tm!Dirty \in FlashWords
  <2>1. <<"dirty", 0>> \in Cells BY DEF Cells
  <2>2. Tm!Dirty \in Seq(Cells) /\ Len(Tm!Dirty) = 1 BY <2>1 DEF Tm!Dirty
  <2>3. 1 <= WordLen BY UploadCounts, SMT
  <2> QED BY <2>2, <2>3 DEF FlashWords
<1> QED BY <1>1, <1>2 DEF Tm!Programmed

LEMMA ErasedTypes ==
  ASSUME NEW w \in Memory, NEW p PROVE Tm!EraseStage(w, p) \in Memory
BY FlashTypes DEF Memory, Tm!EraseStage

LEMMA DecodedTypes ==
  ASSUME NEW r, Typed(r), NEW w \in Memory, NEW b \in Seq(Cells)
  PROVE  Tm!DecodedWords(r, w, b) \in Memory
<1> DEFINE bs == r.buf \o b
           m == Tm!WordsOf(bs)
           n == Tm!Fits(r, m)
           clean == [i \in Tm!Stage |-> IF i \div PageWords \in Tm!Pages(r, n)
                                        THEN Tm!Erased ELSE w[i]]
<1>1. /\ bs \in Seq(Cells) /\ Len(bs) \in Nat /\ m \in Nat /\ m * WordLen <= Len(bs)
      /\ n \in 0 .. m /\ m * WordLen \in Nat /\ r.addr \in Nat
  BY WordsFacts DEF Typed
<1>2. clean \in Memory BY FlashTypes DEF Memory
<1>3. ASSUME NEW i \in r.addr .. r.addr + n - 1
      PROVE  Tm!Word(bs, i - r.addr) \in FlashWords
  <2> HIDE DEF bs, m, n
  <2> DEFINE k == i - r.addr
  <2>1. k \in Nat /\ k + 1 <= m /\ k + 1 \in Nat
    <3>1. r.addr \in Nat /\ m \in Nat /\ n \in 0 .. m BY <1>1
    <3> QED BY <3>1, SMT
  <2> HIDE DEF k
  <2>2. /\ k * WordLen \in Nat /\ (k + 1) * WordLen \in Nat
        /\ (k + 1) * WordLen = k * WordLen + WordLen
    BY <2>1, UploadCounts, SMT
  <2>3. (k + 1) * WordLen <= m * WordLen BY <1>1, <2>1, UploadCounts, SMT
  <2>4. (k + 1) * WordLen <= Len(bs) BY <1>1, <2>2, <2>3, SMT
  <2>5. \A j \in k * WordLen + 1 .. (k + 1) * WordLen : bs[j] \in Cells
    <3> TAKE j \in k * WordLen + 1 .. (k + 1) * WordLen
    <3>1. j \in 1 .. Len(bs) BY <1>1, <2>2, <2>4, SMT
    <3> QED BY <1>1, <3>1
  <2>6. k * WordLen + 1 \in Int /\ (k + 1) * WordLen \in Int BY <2>2, SMT
  <2>7. /\ Tm!Word(bs, k) \in Seq(Cells)
        /\ Len(Tm!Word(bs, k)) = IF k * WordLen + 1 <= (k + 1) * WordLen
                                 THEN (k + 1) * WordLen - (k * WordLen + 1) + 1 ELSE 0
    BY <2>5, <2>6, SubSeqProperties DEF Tm!Word
  <2>8. Len(Tm!Word(bs, k)) <= WordLen BY <2>2, <2>7, UploadCounts, SMT
  <2> QED BY <2>7, <2>8 DEF FlashWords, k
<1>4. Tm!DecodedWords(r, w, b) =
        [i \in Tm!Stage |-> IF i \in r.addr .. r.addr + n - 1
                            THEN Tm!Programmed(clean[i], Tm!Word(bs, i - r.addr)) ELSE clean[i]]
  BY DEF Tm!DecodedWords
<1> HIDE DEF clean, bs, n
<1> QED BY <1>2, <1>3, <1>4, FlashTypes DEF Memory

LEMMA FlushedTypes ==
  ASSUME NEW r, Typed(r), NEW w \in Memory PROVE Tm!FlushedWords(r, w) \in Memory
<1>1. Tm!Padded(r) \in FlashWords
  <2>1. WordLen \in Nat /\ r.buf \in Seq(Cells) BY UploadCounts DEF Typed
  <2>2. \A k \in 1 .. WordLen : (IF k <= Len(r.buf) THEN r.buf[k] ELSE Tm!Pad) \in Cells
    BY <2>1, SMT DEF Cells, Tm!Pad
  <2>3. Tm!Padded(r) \in Seq(Cells) /\ Len(Tm!Padded(r)) = WordLen
    BY <2>1, <2>2 DEF Tm!Padded
  <2> QED BY <2>1, <2>3, SMT DEF FlashWords
<1> QED BY <1>1, FlashTypes DEF Memory, Tm!FlushedWords

\* What a chunk leaves alone: the words behind the write pointer in pages entered before.
LEMMA DecodedLeaves ==
  ASSUME NEW r, Typed(r), NEW w, NEW b \in Seq(Cells), NEW i \in Tm!Stage, i < r.addr,
         i \div PageWords <= r.erased
  PROVE  Tm!DecodedWords(r, w, b)[i] = w[i]
<1> DEFINE n == Tm!Fits(r, Tm!WordsOf(r.buf \o b))
<1>1. i \in Nat /\ r.addr \in Nat /\ r.erased \in Nat /\ i \div PageWords \in Nat
  <2>1. i \in Nat BY UploadCounts, SMT DEF Tm!Stage
  <2>2. r.erased \in Nat /\ r.addr \in Nat BY UploadCounts, SMT DEF Typed
  <2> QED BY <2>1, <2>2, DivMod, UploadCounts
<1>2. i \notin r.addr .. r.addr + n - 1 BY <1>1, SMT
<1>3. i \div PageWords \notin Tm!Pages(r, n)
  <2>1. ~(i \div PageWords > r.erased) BY <1>1, SMT
  <2> QED BY <2>1 DEF Tm!Pages
<1> HIDE DEF n
<1>4. Tm!DecodedWords(r, w, b)[i] =
        IF i \in r.addr .. r.addr + n - 1
        THEN Tm!Programmed(IF i \div PageWords \in Tm!Pages(r, n) THEN Tm!Erased ELSE w[i],
                           Tm!Word(r.buf \o b, i - r.addr))
        ELSE IF i \div PageWords \in Tm!Pages(r, n) THEN Tm!Erased ELSE w[i]
  BY DEF Tm!DecodedWords, n
<1> QED BY <1>2, <1>3, <1>4

LEMMA FlushedLeaves ==
  ASSUME NEW r, NEW w, NEW i \in Tm!Stage, i # r.addr
  PROVE  Tm!FlushedWords(r, w)[i] = w[i]
BY DEF Tm!FlushedWords

\* A word that is left alone keeps its bytes.
LEMMA GapLeft ==
  ASSUME NEW k \in Nat, NEW r, NEW w, Gap(k, r, w), NEW d, NEW v,
         (k - 1) \div WordLen < d.addr,
         ((k - 1) \div WordLen) \div PageWords <= d.erased,
         v[(k - 1) \div WordLen] = w[(k - 1) \div WordLen]
  PROVE  Gap(k, d, v)
<1>1. At(v, k) = At(w, k) BY DEF At
<1> QED BY <1>1 DEF Gap

\* The bytes of a chunk leave a gap where it is.
LEMMA GapStays ==
  ASSUME NEW r, Typed(r), NEW w, NEW b \in Seq(Cells), NEW d, d = Tm!Decoded(r, b),
         NEW k \in Nat, Gap(k, r, w)
  PROVE  Gap(k, d, Tm!DecodedWords(r, w, b))
<1> DEFINE i == (k - 1) \div WordLen
           n == Tm!Fits(r, Tm!WordsOf(r.buf \o b))
<1>1. i \in Tm!Stage /\ i < r.addr /\ i \div PageWords <= r.erased BY DEF Gap
<1>2. Tm!DecodedWords(r, w, b)[i] = w[i] BY <1>1, DecodedLeaves
<1>3. Typed(d) /\ n \in Nat /\ d.addr = r.addr + n /\ d.erased >= r.erased BY DecodedFacts
<1> HIDE DEF i, n
<1>4. /\ i \in Nat /\ i \div PageWords \in Nat /\ r.addr \in Nat /\ r.erased \in Nat
      /\ d.erased \in Nat
  <2>1. i \in Nat BY <1>1, UploadCounts, SMT DEF Tm!Stage
  <2>2. r.addr \in Nat /\ r.erased \in Nat BY UploadCounts, SMT DEF Typed
  <2>3. d.erased \in Nat BY <1>3, UploadCounts, SMT DEF Typed
  <2> QED BY <2>1, <2>2, <2>3, DivMod, UploadCounts
<1>5. i < d.addr BY <1>1, <1>3, <1>4, SMT
<1>6. i \div PageWords <= d.erased BY <1>1, <1>3, <1>4, SMT
<1> QED BY <1>2, <1>5, <1>6, GapLeft DEF i

LEMMA DecodedCounts ==
  ASSUME NEW r, Typed(r), NEW w, Counted(r, w), ~r.abort,
         NEW b \in Seq(Cells), Len(b) \in 1 .. ChunkLen, NEW d, d = Tm!Decoded(r, b)
  PROVE  /\ Counted(d, Tm!DecodedWords(r, w, b))
         /\ ~d.abort /\ d.size = d.next * ChunkLen => r.size = r.next * ChunkLen
         /\ ~d.abort /\ r.size = r.next * ChunkLen =>
              Exact(d) \/ \E k \in 1 .. d.size : Gap(k, d, Tm!DecodedWords(r, w, b))
<1> DEFINE v == Tm!DecodedWords(r, w, b)
<1> SUFFICES ASSUME ~d.abort
             PROVE  /\ d.size <= d.next * ChunkLen
                    /\ d.size = d.next * ChunkLen => r.size = r.next * ChunkLen
                    /\ r.size = r.next * ChunkLen =>
                         Exact(d) \/ \E k \in 1 .. d.size : Gap(k, d, v)
  <2>1. Typed(d) BY DecodedFacts
  <2>2. d.size \in Nat BY <2>1 DEF Typed
  <2>3. 1 .. d.size \subseteq 1 .. d.size + 1 BY <2>2, SMT
  <2> QED BY <2>3 DEF Counted
<1> HIDE DEF v
<1>1. d.next = r.next + 1 /\ d.size = r.size + Len(b) /\ Typed(d) BY DecodedFacts
<1>2. /\ r.next \in Nat /\ r.size \in Nat /\ Len(b) \in Nat /\ Len(b) <= ChunkLen
      /\ Len(b) >= 1 /\ r.size <= r.next * ChunkLen
  <2>1. r.next \in Nat /\ r.size \in Nat /\ Len(b) \in Nat BY DEF Typed
  <2>2. r.size <= r.next * ChunkLen BY DEF Counted
  <2>3. Len(b) <= ChunkLen /\ Len(b) >= 1 BY UploadCounts, SMT
  <2> QED BY <2>1, <2>2, <2>3
<1>3. d.next * ChunkLen = r.next * ChunkLen + ChunkLen /\ r.next * ChunkLen \in Nat
  <2>1. r.next \in Nat /\ 1 \in Nat /\ ChunkLen \in Nat BY <1>2, UploadCounts
  <2>2. r.next * ChunkLen \in Nat BY <2>1, Times
  <2>3. d.next * ChunkLen = r.next * ChunkLen + 1 * ChunkLen BY <1>1, <2>1, Distributes
  <2>4. 1 * ChunkLen = ChunkLen BY <2>1, SMT
  <2> QED BY <2>2, <2>3, <2>4
<1>4. d.size <= d.next * ChunkLen BY <1>1, <1>2, <1>3, UploadCounts, SMT
<1>5. ASSUME d.size = d.next * ChunkLen PROVE r.size = r.next * ChunkLen
  BY <1>1, <1>2, <1>3, <1>5, UploadCounts, SMT
<1>6. ASSUME r.size = r.next * ChunkLen
      PROVE  Exact(d) \/ \E k \in 1 .. d.size : Gap(k, d, v)
  <2>1. CASE Exact(r) BY <2>1, LaidOut
  <2>2. CASE \E k \in 1 .. r.size + 1 : Gap(k, r, w)
    <3>1. PICK k \in 1 .. r.size + 1 : Gap(k, r, w) BY <2>2
    <3>2. k \in Nat /\ k \in 1 .. d.size BY <1>1, <1>2, SMT
    <3>3. Gap(k, d, v) BY <3>1, <3>2, GapStays DEF v
    <3> QED BY <3>2, <3>3
  <2> QED BY <1>6, <2>1, <2>2 DEF Counted
<1> QED BY <1>4, <1>5, <1>6

\* The words that hold an image.
ImageWords(u) == 0 .. (Bytes[u] - 1) \div WordLen

LEMMA StagedSame ==
  ASSUME NEW u \in Uploaders, NEW v, NEW w, \A i \in ImageWords(u) : v[i] = w[i]
  PROVE  Tm!Staged(v, Bytes[u]) = Tm!Staged(w, Bytes[u])
<1>1. Bytes[u] \in Nat /\ Bytes[u] - 1 \in Nat BY UploadCounts, SMT
<1>2. ASSUME NEW k \in 1 .. Bytes[u] PROVE v[(k - 1) \div WordLen] = w[(k - 1) \div WordLen]
  <2>1. k - 1 \in Nat /\ k - 1 <= Bytes[u] - 1 BY <1>1, SMT
  <2>2. (k - 1) \div WordLen <= (Bytes[u] - 1) \div WordLen
    BY <1>1, <2>1, DivGrows, UploadCounts
  <2>3. (k - 1) \div WordLen \in Nat /\ (Bytes[u] - 1) \div WordLen \in Nat
    BY <1>1, <2>1, DivMod, UploadCounts
  <2>4. (k - 1) \div WordLen \in ImageWords(u) BY <2>2, <2>3, SMT DEF ImageWords
  <2> QED BY <2>4
<1> QED BY <1>2 DEF Tm!Staged

\* The words of a flash page share its number.
LEMMA SamePage ==
  ASSUME NEW b \in Nat \ {0}, NEW p \in Nat, p % b # 0
  PROVE  p > 0 /\ (p - 1) \div b = p \div b
<1>1. p = (p \div b) * b + (p % b) /\ p % b \in 0 .. b - 1 /\ p \div b \in Nat BY DivMod
<1> DEFINE q == p \div b
           x == (p % b) - 1
<1>2. x \in 0 .. b - 1 BY <1>1, SMT
<1>3. (q * b + x) \div b = q BY <1>1, <1>2, DivOf
<1>4. q * b \in Nat BY <1>1, SMT
<1>5. p - 1 = q * b + x /\ p > 0
  <2>1. p = q * b + (x + 1) BY <1>1, SMT
  <2> HIDE DEF q, x
  <2> QED BY <1>2, <1>4, <2>1, SMT
<1> QED BY <1>3, <1>5

\* No image ends in the first word of a flash page with that word not full.
NoTail == \A u \in Uploaders : Bytes[u] % (WordLen * PageWords) \notin 1 .. WordLen - 1

\* An image that ends inside a word ends in a page that has been entered.
LEMMA TailEntered ==
  ASSUME NoTail, NEW u \in Uploaders, NEW d, Typed(d), Exact(d), d.size = Bytes[u],
         d.buf # <<>>
  PROVE  /\ (Bytes[u] - 1) \div WordLen = d.addr /\ d.addr \in Tm!Stage
         /\ d.addr \div PageWords <= d.erased
<1> DEFINE x == Len(d.buf)
           a == d.addr
<1>1. Bytes[u] = a * WordLen + x /\ a <= StagePages * PageWords /\ Clean(d) BY DEF Exact
<1>2. /\ a \in Nat /\ d.buf \in Seq(Cells) /\ x \in Nat /\ x < WordLen
      /\ d.erased \in Nat /\ a * WordLen \in Nat
  <2>1. /\ a \in Nat /\ d.buf \in Seq(Cells) /\ x \in Nat /\ x < WordLen
        /\ d.erased \in 0 .. StagePages - 1
    BY DEF Typed
  <2>2. d.erased \in Nat BY <2>1, UploadCounts, SMT
  <2>3. WordLen \in Nat BY UploadCounts
  <2> HIDE DEF a
  <2> QED BY <2>1, <2>2, <2>3, Times
<1>3. x \in 1 .. WordLen - 1
  <2>1. x # 0 BY <1>2
  <2>2. WordLen \in Nat BY UploadCounts
  <2> HIDE DEF x
  <2> QED BY <1>2, <2>1, <2>2, SMT
<1> HIDE DEF x, a
<1>4. (Bytes[u] - 1) \div WordLen = a
  <2>1. x - 1 \in 0 .. WordLen - 1 BY <1>3, UploadCounts, SMT
  <2>2. Bytes[u] - 1 = a * WordLen + (x - 1) BY <1>1, <1>2, SMT
  <2>3. (a * WordLen + (x - 1)) \div WordLen = a BY <1>2, <2>1, DivOf, UploadCounts
  <2> QED BY <2>2, <2>3
<1>5. a % PageWords # 0
  <2> SUFFICES ASSUME a % PageWords = 0 PROVE FALSE OBVIOUS
  <2> DEFINE q == a \div PageWords
             w == WordLen * PageWords
  <2>1. q \in Nat /\ a = q * PageWords + (a % PageWords)
    <3>1. a \in Nat /\ PageWords \in Nat \ {0} BY <1>2, UploadCounts
    <3> QED BY <3>1, DivMod
  <2>2. w \in Nat \ {0} /\ w >= WordLen BY UploadCounts, SMT
  <2> HIDE DEF q
  <2>3. a * WordLen = q * w
    <3>1. q * PageWords \in Nat BY <2>1, UploadCounts, Times
    <3>2. a = q * PageWords BY <2>1, <3>1, SMT
    <3>3. (q * PageWords) * WordLen = q * (WordLen * PageWords) BY <2>1, UploadCounts, SMT
    <3> QED BY <3>2, <3>3
  <2> HIDE DEF w
  <2>4. x \in 0 .. w - 1 BY <1>2, <1>3, <2>2, UploadCounts, SMT
  <2>5. (q * w + x) % w = x BY <2>1, <2>2, <2>4, DivOf
  <2>6. Bytes[u] % w = x BY <1>1, <2>3, <2>5
  <2> QED BY <1>3, <2>6 DEF NoTail, w
<1>6. a > 0 /\ (a - 1) \div PageWords = a \div PageWords BY <1>2, <1>5, SamePage, UploadCounts
<1>7. a < StagePages * PageWords
  <2> DEFINE e == StagePages * PageWords
  <2>1. (e + 0) % PageWords = 0
    <3>1. 0 \in 0 .. PageWords - 1 /\ StagePages \in Nat BY UploadCounts, SMT
    <3> QED BY <3>1, DivOf, UploadCounts
  <2>2. e \in Nat /\ a <= e BY <1>1, UploadCounts
  <2> HIDE DEF e
  <2>3. e + 0 = e BY <2>2, SMT
  <2>4. a # e BY <1>5, <2>1, <2>3
  <2>5. a < e BY <1>2, <2>2, <2>4, SMT
  <2> QED BY <2>5 DEF e
<1>8. a \div PageWords <= d.erased
  <2>1. a - 1 \in 0 .. d.addr - 1 BY <1>2, <1>6, SMT DEF a
  <2>2. (a - 1) \div PageWords <= d.erased BY <1>1, <2>1 DEF Clean
  <2> QED BY <1>6, <2>2
<1>9. a \in Tm!Stage BY <1>2, <1>7, UploadCounts, SMT DEF Tm!Stage
<1> QED BY <1>4, <1>8, <1>9 DEF a

\* An upload without a gap and of the length declared covers its image: the words are
\* below the write pointer in pages that have been entered.
LEMMA Covers ==
  ASSUME NoTail, NEW u \in Uploaders, NEW d, Typed(d), Exact(d), d.size = Bytes[u],
         NEW f, f = Tm!Flushed(d)
  PROVE  /\ ImageWords(u) \subseteq Tm!Stage
         /\ \A i \in ImageWords(u) : i < f.addr /\ i \div PageWords <= f.erased
<1> DEFINE last == (Bytes[u] - 1) \div WordLen
<1>1. /\ f.addr >= d.addr /\ f.erased = d.erased /\ Typed(f)
      /\ d.buf # <<>> => f.addr = d.addr + 1
  BY FlushedFacts
<1>2. Bytes[u] = d.addr * WordLen + Len(d.buf) /\ d.addr <= StagePages * PageWords /\ Clean(d)
  BY DEF Exact
<1>3. d.addr \in Nat /\ f.addr \in Nat /\ d.addr * WordLen \in Nat
  <2>1. d.addr \in Nat /\ f.addr \in Nat BY <1>1 DEF Typed
  <2> QED BY <2>1, UploadCounts, Times
<1>4. Bytes[u] - 1 \in Nat /\ last \in Nat
  <2>1. Bytes[u] - 1 \in Nat BY UploadCounts, SMT
  <2> QED BY <2>1, DivMod, UploadCounts
<1>5. \A i \in Nat : i < d.addr => i \in Tm!Stage /\ i < f.addr /\ i \div PageWords <= f.erased
  <2> TAKE i \in Nat
  <2> HAVE i < d.addr
  <2>1. i \in 0 .. d.addr - 1 BY <1>3, SMT
  <2>2. i \in 0 .. StagePages * PageWords - 1 BY <1>2, <1>3, UploadCounts, SMT
  <2>3. i < f.addr BY <1>1, <1>3, SMT
  <2> QED BY <1>1, <1>2, <2>1, <2>2, <2>3 DEF Clean, Tm!Stage
<1>6. CASE d.buf = <<>>
  <2>1. Bytes[u] = d.addr * WordLen
    <3>1. Len(d.buf) = 0 BY <1>6
    <3> QED BY <1>2, <1>3, <3>1, SMT
  <2>2. Bytes[u] - 1 < d.addr * WordLen BY <1>3, <2>1, SMT
  <2>3. last \in 0 .. d.addr - 1 BY <1>3, <1>4, <2>2, DivBelow, UploadCounts
  <2>4. ImageWords(u) = 0 .. last BY DEF ImageWords
  <2> HIDE DEF last
  <2>5. \A i \in ImageWords(u) : i \in Nat /\ i < d.addr BY <1>3, <2>3, <2>4, SMT
  <2> QED BY <1>5, <2>5
<1>7. CASE d.buf # <<>>
  <2>1. last = d.addr /\ d.addr \in Tm!Stage /\ d.addr \div PageWords <= d.erased
    BY <1>7, TailEntered
  <2>2. d.addr < f.addr BY <1>1, <1>3, <1>7, SMT
  <2>3. ImageWords(u) = 0 .. d.addr BY <2>1 DEF ImageWords
  <2>4. \A i \in ImageWords(u) : i \in Nat /\ (i < d.addr \/ i = d.addr) BY <1>3, <2>3, SMT
  <2> QED BY <1>1, <1>5, <2>1, <2>2, <2>4
<1> QED BY <1>6, <1>7

\* The flush programs the rest of the buffer, and behind it the padding shows.
LEMMA FlushShows ==
  ASSUME NoTail, NEW u \in Uploaders, NEW d, Typed(d), Exact(d), d.size = Bytes[u],
         d.buf # <<>>, NEW v, NEW f, f = Tm!Flushed(d)
  PROVE  Gap(d.size + 1, f, Tm!FlushedWords(d, v))
<1> DEFINE x == Len(d.buf)
           a == d.addr
           w == Tm!FlushedWords(d, v)
           y == Tm!Padded(d)
<1>1. a \in Tm!Stage /\ a \div PageWords <= d.erased BY TailEntered
<1>2. f.addr = a + 1 /\ f.erased = d.erased BY FlushedFacts
<1>3. /\ a \in Nat /\ x \in Nat /\ x < WordLen /\ x # 0 /\ WordLen \in Nat \ {0}
      /\ d.size = a * WordLen + x /\ a * WordLen \in Nat
  <2>1. a \in Nat /\ d.buf \in Seq(Cells) /\ x < WordLen BY DEF Typed
  <2>2. x \in Nat /\ x # 0 BY <2>1
  <2>3. WordLen \in Nat \ {0} BY UploadCounts
  <2>4. d.size = a * WordLen + x BY DEF Exact
  <2> HIDE DEF a, x
  <2>5. a * WordLen \in Nat BY <2>1, <2>3, Times
  <2> QED BY <2>1, <2>2, <2>3, <2>4, <2>5
<1>4. w[a] = Tm!Programmed(v[a], y) BY <1>1 DEF Tm!FlushedWords
<1>5. Len(y) = WordLen /\ y[x + 1] = Tm!Pad
  <2>1. y = [k \in 1 .. WordLen |-> IF k <= x THEN d.buf[k] ELSE Tm!Pad] BY DEF Tm!Padded
  <2> HIDE DEF y, x
  <2>2. x + 1 \in 1 .. WordLen /\ ~(x + 1 <= x) BY <1>3, SMT
  <2>3. y[x + 1] = Tm!Pad BY <2>1, <2>2
  <2>4. Len(y) = WordLen BY <1>3, <2>1
  <2> QED BY <2>3, <2>4
<1> HIDE DEF x, a, w, y
<1> DEFINE k == d.size + 1
<1>6. (k - 1) \div WordLen = a /\ (k - 1) % WordLen = x
  <2>1. x \in 0 .. WordLen - 1 BY <1>3, SMT
  <2>2. (a * WordLen + x) \div WordLen = a /\ (a * WordLen + x) % WordLen = x
    BY <1>3, <2>1, DivOf
  <2>3. k - 1 = d.size BY <1>3, SMT
  <2> QED BY <1>3, <2>2, <2>3
<1> HIDE DEF k
<1>7. (IF x + 1 <= Len(w[a]) THEN w[a][x + 1] ELSE Tm!Pad) = Tm!Pad
  <2>1. CASE w[a] = y BY <1>5, <2>1
  <2>2. CASE w[a] = Tm!Dirty
    <3>1. Len(w[a]) = 1 BY <2>2 DEF Tm!Dirty
    <3>2. ~(x + 1 <= 1) BY <1>3, SMT
    <3> QED BY <3>1, <3>2
  <2> QED BY <1>4, <2>1, <2>2 DEF Tm!Programmed
<1>8. At(w, k) = Tm!Pad
  <2> DEFINE i == (k - 1) % WordLen
             p == (k - 1) \div WordLen
  <2>1. At(w, k) = IF i + 1 <= Len(w[p]) THEN w[p][i + 1] ELSE Tm!Pad BY DEF At
  <2>2. i = x /\ p = a BY <1>6
  <2> HIDE DEF i, p
  <2> QED BY <1>7, <2>1, <2>2
<1>9. a < f.addr BY <1>2, <1>3, SMT
<1>10. Gap(k, f, w) BY <1>1, <1>2, <1>6, <1>8, <1>9 DEF Gap
<1> QED BY <1>10 DEF k, w

LEMMA FlushedCounts ==
  ASSUME NoTail, NEW u \in Uploaders, NEW s, s = Tm!LastChunk(u),
         NEW r, Typed(r), NEW w, Counted(r, w), ~r.abort, s = r.next,
         NEW b, b = Tm!Chunk(u, s), NEW d, d = Tm!Decoded(r, b), ~d.abort,
         NEW v, v = Tm!DecodedWords(r, w, b), NEW f, f = Tm!Flushed(d)
  PROVE  /\ Counted(f, Tm!FlushedWords(d, v))
         /\ d.size = Bytes[u] =>
              Exact(d) \/ \E k \in 1 .. d.size : Gap(k, f, Tm!FlushedWords(d, v))
<1> DEFINE z == Tm!FlushedWords(d, v)
<1>1. s \in Nat /\ b \in Seq(Cells) /\ Len(b) \in 1 .. ChunkLen
      /\ s * ChunkLen + Len(b) = Bytes[u]
  <2>1. Tm!LastChunk(u) \in Nat
    <3>1. Bytes[u] - 1 \in Nat BY UploadCounts, SMT
    <3> QED BY <3>1, DivMod, UploadCounts DEF Tm!LastChunk
  <2>2. s \in 0 .. Tm!LastChunk(u) BY <2>1, SMT
  <2> QED BY <2>1, <2>2, ChunkFacts
<1>2. Typed(d) /\ d.size = r.size + Len(b) /\ d.next = r.next + 1 BY <1>1, DecodedFacts
<1>3. /\ Typed(f) /\ f.addr >= d.addr /\ f.erased = d.erased /\ f.size = d.size
      /\ f.next = d.next /\ f.abort = d.abort /\ (d.buf = <<>> => f = d)
  BY <1>2, FlushedFacts
<1>4. /\ Counted(d, v)
      /\ d.size = d.next * ChunkLen => r.size = r.next * ChunkLen
      /\ r.size = r.next * ChunkLen => Exact(d) \/ \E k \in 1 .. d.size : Gap(k, d, v)
  BY <1>1, DecodedCounts
<1>5. /\ d.size \in Nat /\ r.size \in Nat /\ Len(b) \in Nat /\ s * ChunkLen \in Nat
      /\ d.addr \in Nat /\ f.addr \in Nat
  <2>1. d.size \in Nat /\ r.size \in Nat /\ d.addr \in Nat /\ f.addr \in Nat
    BY <1>2, <1>3 DEF Typed
  <2>2. s * ChunkLen \in Nat BY <1>1, UploadCounts, Times
  <2>3. Len(b) \in Nat BY <1>1, UploadCounts, SMT
  <2> QED BY <2>1, <2>2, <2>3
<1>6. ASSUME NEW k \in 1 .. d.size, Gap(k, d, v) PROVE Gap(k, f, z)
  <2> DEFINE i == (k - 1) \div WordLen
  <2>1. i \in Tm!Stage /\ i < d.addr /\ i \div PageWords <= d.erased BY <1>6 DEF Gap
  <2> HIDE DEF i
  <2>2. i \in Nat BY <2>1, UploadCounts, SMT DEF Tm!Stage
  <2>3. i # d.addr /\ i < f.addr BY <1>3, <1>5, <2>1, <2>2, SMT
  <2>4. z[i] = v[i] BY <2>1, <2>3, FlushedLeaves
  <2>5. k \in Nat BY <1>5, SMT
  <2> HIDE DEF z
  <2> QED BY <1>3, <1>6, <2>1, <2>3, <2>4, <2>5, GapLeft DEF i
<1> HIDE DEF z
<1>7. ASSUME r.size = r.next * ChunkLen,
             Exact(d) \/ \E k \in 1 .. d.size : Gap(k, d, v)
      PROVE  Exact(f) \/ \E k \in 1 .. f.size + 1 : Gap(k, f, z)
  <2>1. d.size = Bytes[u] BY <1>1, <1>2, <1>7
  <2>2. CASE Exact(d) /\ d.buf = <<>> BY <1>3, <2>2
  <2>3. CASE Exact(d) /\ d.buf # <<>>
    <3>1. Gap(d.size + 1, f, z) BY <1>2, <2>1, <2>3, FlushShows DEF z
    <3>2. d.size + 1 \in 1 .. f.size + 1 BY <1>3, <1>5, SMT
    <3> QED BY <3>1, <3>2
  <2>4. CASE \E k \in 1 .. d.size : Gap(k, d, v)
    <3>1. 1 .. d.size \subseteq 1 .. f.size + 1 BY <1>3, <1>5, SMT
    <3> QED BY <1>6, <2>4, <3>1
  <2> QED BY <1>7, <2>2, <2>3, <2>4
<1>8. Counted(f, z)
  <2>1. d.size <= d.next * ChunkLen BY <1>4 DEF Counted
  <2>2. f.size = f.next * ChunkLen => Exact(f) \/ \E k \in 1 .. f.size + 1 : Gap(k, f, z)
    BY <1>3, <1>4, <1>7
  <2> QED BY <1>3, <2>1, <2>2 DEF Counted
<1>9. ASSUME d.size = Bytes[u] PROVE Exact(d) \/ \E k \in 1 .. d.size : Gap(k, f, z)
  <2>1. r.size + Len(b) = s * ChunkLen + Len(b) BY <1>1, <1>2, <1>9
  <2>2. r.size = r.next * ChunkLen
    <3>1. r.size = s * ChunkLen BY <1>5, <2>1, SMT
    <3> QED BY <3>1
  <2> QED BY <1>4, <1>6, <2>2
<1> QED BY <1>8, <1>9 DEF z

\* A gap shows in the digest: no byte of an image is a padded one.
LEMMA GapShows ==
  ASSUME NEW u \in Uploaders, NEW w, NEW k \in 1 .. Bytes[u], NEW f, Gap(k, f, w)
  PROVE  Tm!Staged(w, Bytes[u]) # Tm!Part(u, 0, Bytes[u])
<1>1. Bytes[u] \in Nat /\ k \in Nat /\ k # 0
  <2>1. Bytes[u] \in Nat BY UploadCounts
  <2> QED BY <2>1, SMT
<1>2. Tm!Staged(w, Bytes[u])[k] = At(w, k) BY DEF Tm!Staged, At
<1>3. At(w, k) = <<"ff", 0>> BY DEF Gap, Tm!Pad
<1>4. Tm!Part(u, 0, Bytes[u])[k] = <<u, k>>
  <2>1. Bytes[u] - 0 = Bytes[u] /\ 0 + k = k BY <1>1, SMT
  <2> QED BY <2>1 DEF Tm!Part
<1>5. <<u, k>> # <<"ff", 0>> BY <1>1
<1> QED BY <1>2, <1>3, <1>4, <1>5

\* The staged image a header vouches for is whole, and as long as chunks may still be
\* added to it they leave it alone.
Vouched ==
  stage.header \in Uploaders =>
    /\ Tm!StagedOk /\ ImageWords(stage.header) \subseteq Tm!Stage
    /\ \/ tmRam.abort \/ tmRam.next = 0
       \/ \A i \in ImageWords(stage.header) : i < tmRam.addr /\ i \div PageWords <= tmRam.erased

UploadTyped ==
  /\ Typed(tmRam)
  /\ stage \in [header : Uploaders \cup {"none", "torn"}, words : Memory]

UploadInv == UploadTyped /\ Counted(tmRam, stage.words) /\ Vouched

LEMMA UploadInit == ASSUME Tm!Init PROVE UploadInv
<1>1. tmRam = Tm!Fresh /\ stage = [header |-> "none", words |-> [i \in Tm!Stage |-> Tm!Erased]]
  BY DEF Tm!Init, Tm!NoHeader
<1>2. [i \in Tm!Stage |-> Tm!Erased] \in Memory BY FlashTypes DEF Memory
<1>3. stage \in [header : Uploaders \cup {"none", "torn"}, words : Memory] /\ stage.header = "none"
  BY <1>1, <1>2
<1>4. "none" \notin Uploaders BY UploadAssumption
<1> QED BY <1>1, <1>3, <1>4, FreshFits DEF UploadInv, UploadTyped, Vouched

\* A restart forgets the upload, not the flash.
LEMMA UploadForgets ==
  ASSUME UploadInv, tmRam' = Tm!Fresh, UNCHANGED stage PROVE UploadInv'
<1>1. tmRam'.next = 0 BY DEF Tm!Fresh
<1>2. Typed(tmRam') /\ Counted(tmRam', stage'.words) BY FreshFits
<1>3. Tm!StagedOk' = Tm!StagedOk BY DEF Tm!StagedOk, Tm!Staged
<1>4. Vouched' BY <1>1, <1>3 DEF UploadInv, Vouched
<1>5. UploadTyped' BY <1>2 DEF UploadInv, UploadTyped
<1> QED BY <1>2, <1>4, <1>5 DEF UploadInv

\* The upload and the flash as a chunk finds them.
LEMMA BegunFacts ==
  ASSUME UploadInv, NEW s, Tm!Applies(s), NEW r, r = Tm!Begun(s),
         NEW st, st = Tm!BegunStage(s)
  PROVE  /\ Typed(r) /\ Counted(r, st.words) /\ ~r.abort /\ s = r.next
         /\ st \in [header : Uploaders \cup {"none", "torn"}, words : Memory]
         /\ st.header \in Uploaders =>
              /\ st = stage
              /\ Tm!StagedOk /\ ImageWords(st.header) \subseteq Tm!Stage
              /\ \A i \in ImageWords(st.header) : i < r.addr /\ i \div PageWords <= r.erased
<1>1. ~r.abort /\ s = r.next BY DEF Tm!Applies
<1>2. /\ Typed(tmRam) /\ Counted(tmRam, stage.words)
      /\ stage \in [header : Uploaders \cup {"none", "torn"}, words : Memory]
  BY DEF UploadInv, UploadTyped
<1>3. CASE s = 0
  <2>1. r = Tm!Fresh /\ st = [header |-> "none", words |-> Tm!EraseStage(stage.words, 0)]
    BY <1>3 DEF Tm!Begun, Tm!BegunStage, Tm!NoHeader
  <2>2. Tm!EraseStage(stage.words, 0) \in Memory BY <1>2, ErasedTypes
  <2>3. "none" \notin Uploaders BY UploadAssumption
  <2> QED BY <1>1, <2>1, <2>2, <2>3, FreshFits
<1>4. CASE s # 0
  <2>1. r = tmRam /\ st = stage BY <1>4 DEF Tm!Begun, Tm!BegunStage
  <2>2. ~tmRam.abort /\ tmRam.next # 0 BY <1>1, <1>4, <2>1
  <2> QED BY <1>1, <1>2, <2>1, <2>2 DEF UploadInv, Vouched
<1> QED BY <1>3, <1>4

\* An image that was staged stays so while its words do.
LEMMA StaysStaged ==
  ASSUME stage.header \in Uploaders, Tm!StagedOk, stage'.header = stage.header,
         \A i \in ImageWords(stage.header) : stage'.words[i] = stage.words[i]
  PROVE  Tm!StagedOk'
<1> DEFINE u == stage.header
<1>1. Tm!Staged(stage'.words, Bytes[u]) = Tm!Staged(stage.words, Bytes[u])
  BY StagedSame
<1> QED BY <1>1 DEF Tm!StagedOk

\* What the bytes of a chunk do to the upload and the flash.
LEMMA ChunkArrives ==
  ASSUME NoTail, UploadInv, NEW u \in Uploaders, NEW s \in 0 .. Tm!LastChunk(u), Tm!Applies(s),
         NEW st, st = Tm!BegunStage(s), NEW d, d = Tm!After(u, s),
         NEW w, w = Tm!AfterWords(u, s)
  PROVE  /\ Typed(d) /\ Counted(d, w) /\ w \in Memory
         /\ st \in [header : Uploaders \cup {"none", "torn"}, words : Memory]
         /\ st.header \in Uploaders =>
              /\ st = stage
              /\ Tm!StagedOk /\ ImageWords(st.header) \subseteq Tm!Stage
              /\ \A i \in ImageWords(st.header) :
                   w[i] = st.words[i] /\ i < d.addr /\ i \div PageWords <= d.erased
<1> DEFINE r == Tm!Begun(s)
           b == Tm!Chunk(u, s)
           n == Tm!Fits(r, Tm!WordsOf(r.buf \o b))
<1>1. /\ Typed(r) /\ Counted(r, st.words) /\ ~r.abort
      /\ st \in [header : Uploaders \cup {"none", "torn"}, words : Memory]
      /\ st.header \in Uploaders =>
           /\ st = stage
           /\ Tm!StagedOk /\ ImageWords(st.header) \subseteq Tm!Stage
           /\ \A i \in ImageWords(st.header) : i < r.addr /\ i \div PageWords <= r.erased
  BY BegunFacts
<1>2. b \in Seq(Cells) /\ Len(b) \in 1 .. ChunkLen BY ChunkFacts
<1>3. d = Tm!Decoded(r, b) /\ w = Tm!DecodedWords(r, st.words, b)
  BY DEF Tm!After, Tm!AfterWords
<1> HIDE DEF r, b
<1>4. Typed(d) /\ n \in Nat /\ d.addr = r.addr + n /\ d.erased >= r.erased
  BY <1>1, <1>2, <1>3, DecodedFacts
<1>5. Counted(d, w) BY <1>1, <1>2, <1>3, DecodedCounts
<1>6. w \in Memory BY <1>1, <1>2, <1>3, DecodedTypes
<1>7. ASSUME st.header \in Uploaders, NEW i \in ImageWords(st.header)
      PROVE  w[i] = st.words[i] /\ i < d.addr /\ i \div PageWords <= d.erased
  <2>1. i \in Tm!Stage /\ i < r.addr /\ i \div PageWords <= r.erased BY <1>1, <1>7
  <2>2. w[i] = st.words[i] BY <1>1, <1>2, <1>3, <2>1, DecodedLeaves
  <2>3. /\ i \in Nat /\ i \div PageWords \in Nat /\ r.addr \in Nat /\ r.erased \in Nat
        /\ d.erased \in Nat
    <3>1. i \in Nat BY <2>1, UploadCounts, SMT DEF Tm!Stage
    <3>2. r.addr \in Nat /\ r.erased \in Nat BY <1>1, UploadCounts, SMT DEF Typed
    <3>3. d.erased \in Nat BY <1>4, UploadCounts, SMT DEF Typed
    <3> QED BY <3>1, <3>2, <3>3, DivMod, UploadCounts
  <2> HIDE DEF n
  <2>4. i < d.addr BY <1>4, <2>1, <2>3, SMT
  <2>5. i \div PageWords <= d.erased BY <1>4, <2>1, <2>3, SMT
  <2> QED BY <2>2, <2>4, <2>5
<1> QED BY <1>1, <1>4, <1>5, <1>6, <1>7

LEMMA FinalCounts ==
  ASSUME NoTail, UploadInv, NEW u \in Uploaders, NEW s, Tm!Final(u, s),
         NEW d, d = Tm!After(u, s)
  PROVE  /\ Typed(d) /\ Counted(Tm!Flushed(d), Tm!FinalWords(u, s))
         /\ d.size = Bytes[u] =>
              Exact(d) \/ \E k \in 1 .. d.size : Gap(k, Tm!Flushed(d), Tm!FinalWords(u, s))
<1> DEFINE r == Tm!Begun(s)
           w == Tm!BegunStage(s).words
           b == Tm!Chunk(u, s)
           v == Tm!AfterWords(u, s)
<1>1. Tm!Applies(s) /\ s = Tm!LastChunk(u) /\ ~d.abort BY DEF Tm!Final
<1>2. Typed(r) /\ Counted(r, w) /\ ~r.abort /\ s = r.next BY <1>1, BegunFacts
<1>3. b \in Seq(Cells)
  <2>1. Bytes[u] - 1 \in Nat BY UploadCounts, SMT
  <2>2. Tm!LastChunk(u) \in Nat BY <2>1, DivMod, UploadCounts DEF Tm!LastChunk
  <2>3. s \in 0 .. Tm!LastChunk(u) BY <1>1, <2>2, SMT
  <2> QED BY <2>3, ChunkFacts
<1>4. /\ d = Tm!Decoded(r, b) /\ v = Tm!DecodedWords(r, w, b)
      /\ Tm!FinalWords(u, s) = Tm!FlushedWords(d, v)
  BY DEF Tm!After, Tm!AfterWords, Tm!FinalWords
<1>5. b = Tm!Chunk(u, s) OBVIOUS
<1> HIDE DEF r, w, b, v
<1>6. Typed(d) BY <1>2, <1>3, <1>4, DecodedFacts
<1>7. /\ Counted(Tm!Flushed(d), Tm!FlushedWords(d, v))
      /\ d.size = Bytes[u] =>
           Exact(d) \/ \E k \in 1 .. d.size : Gap(k, Tm!Flushed(d), Tm!FlushedWords(d, v))
  BY <1>1, <1>2, <1>4, <1>5, FlushedCounts
<1> QED BY <1>4, <1>6, <1>7

\* And what the flush after the last one does.
LEMMA FlushArrives ==
  ASSUME NoTail, UploadInv, NEW u \in Uploaders, NEW s \in 0 .. Tm!LastChunk(u), Tm!Final(u, s),
         NEW st, st = Tm!BegunStage(s), NEW f, f = Tm!Flushed(Tm!After(u, s)),
         NEW w, w = Tm!FinalWords(u, s)
  PROVE  /\ Typed(f) /\ Counted(f, w) /\ w \in Memory
         /\ st \in [header : Uploaders \cup {"none", "torn"}, words : Memory]
         /\ st.header \in Uploaders =>
              /\ st = stage
              /\ Tm!StagedOk /\ ImageWords(st.header) \subseteq Tm!Stage
              /\ \A i \in ImageWords(st.header) :
                   w[i] = st.words[i] /\ i < f.addr /\ i \div PageWords <= f.erased
<1> DEFINE d == Tm!After(u, s)
           v == Tm!AfterWords(u, s)
<1>1. /\ Typed(d) /\ v \in Memory
      /\ st \in [header : Uploaders \cup {"none", "torn"}, words : Memory]
      /\ st.header \in Uploaders =>
           /\ st = stage
           /\ Tm!StagedOk /\ ImageWords(st.header) \subseteq Tm!Stage
           /\ \A i \in ImageWords(st.header) :
                v[i] = st.words[i] /\ i < d.addr /\ i \div PageWords <= d.erased
  <2>1. Tm!Applies(s) BY DEF Tm!Final
  <2> QED BY <2>1, ChunkArrives
<1>2. f = Tm!Flushed(d) /\ w = Tm!FlushedWords(d, v) BY DEF Tm!FinalWords
<1>6. Counted(f, w) BY FinalCounts
<1> HIDE DEF d, v
<1>3. Typed(f) /\ f.addr >= d.addr /\ f.erased = d.erased
  BY <1>1, <1>2, FlushedFacts
<1>4. w \in Memory BY <1>1, <1>2, FlushedTypes
<1>5. ASSUME st.header \in Uploaders, NEW i \in ImageWords(st.header)
      PROVE  w[i] = st.words[i] /\ i < f.addr /\ i \div PageWords <= f.erased
  <2>1. /\ i \in Tm!Stage /\ v[i] = st.words[i] /\ i < d.addr
        /\ i \div PageWords <= d.erased
    BY <1>1, <1>5
  <2>2. i \in Nat /\ d.addr \in Nat /\ f.addr \in Nat
    <3>1. i \in Nat BY <2>1, UploadCounts, SMT DEF Tm!Stage
    <3> QED BY <1>1, <1>3, <3>1 DEF Typed
  <2>3. i # d.addr /\ i < f.addr BY <1>3, <2>1, <2>2, SMT
  <2> QED BY <1>2, <1>3, <2>1, <2>3, FlushedLeaves
<1> QED BY <1>1, <1>3, <1>4, <1>5, <1>6

\* An image that completes is staged and covered.
LEMMA CompleteVouched ==
  ASSUME NoTail, UploadInv, NEW u \in Uploaders, NEW s \in 0 .. Tm!LastChunk(u),
         Tm!Completes(u, s), stage' = Tm!Committed(u, s),
         NEW f, f = Tm!Flushed(Tm!After(u, s))
  PROVE  /\ stage' \in [header : Uploaders \cup {"none", "torn"}, words : Memory]
         /\ stage'.header = u /\ Tm!StagedOk' /\ ImageWords(u) \subseteq Tm!Stage
         /\ Typed(f) /\ Counted(f, stage'.words)
         /\ \A i \in ImageWords(u) : i < f.addr /\ i \div PageWords <= f.erased
<1>1. /\ Tm!Final(u, s)
      /\ f.size = Bytes[u]
      /\ Tm!Staged(Tm!FinalWords(u, s), f.size) = Tm!Part(u, 0, Bytes[u])
  BY DEF Tm!Completes, Tm!Verified
<1>2. stage' = [header |-> u, words |-> Tm!FinalWords(u, s)] BY DEF Tm!Committed
<1>3. Typed(f) /\ Counted(f, Tm!FinalWords(u, s)) /\ Tm!FinalWords(u, s) \in Memory BY <1>1, FlushArrives
<1>4. stage'.header = u /\ stage'.words = Tm!FinalWords(u, s) BY <1>2
<1>5. Tm!StagedOk' BY <1>1, <1>4 DEF Tm!StagedOk
<1> DEFINE d == Tm!After(u, s)
           w == Tm!FinalWords(u, s)
<1>6. Typed(d) /\ (d.size = Bytes[u] => Exact(d) \/ \E k \in 1 .. d.size : Gap(k, f, w))
  BY <1>1, FinalCounts
<1>7. f = Tm!Flushed(d) OBVIOUS
<1> HIDE DEF d, w
<1>8. d.size = Bytes[u] BY <1>1, <1>6, <1>7, FlushedFacts
<1>9. Tm!Staged(w, Bytes[u]) = Tm!Part(u, 0, Bytes[u]) BY <1>1 DEF w
<1>10. Exact(d) BY <1>6, <1>8, <1>9, GapShows
<1>11. /\ ImageWords(u) \subseteq Tm!Stage
       /\ \A i \in ImageWords(u) : i < f.addr /\ i \div PageWords <= f.erased
  BY <1>6, <1>7, <1>8, <1>10, Covers
<1> QED BY <1>2, <1>3, <1>4, <1>5, <1>11

\* The chunk handler.
LEMMA HandleKeeps ==
  ASSUME NoTail, UploadInv, NEW u \in Uploaders, NEW s \in 0 .. Tm!LastChunk(u),
         Tm!Handle(u, s)
  PROVE  UploadInv'
<1> DEFINE st == Tm!BegunStage(s)
           d == Tm!After(u, s)
           f == Tm!Flushed(Tm!After(u, s))
           w == Tm!AfterWords(u, s)
           v == Tm!FinalWords(u, s)
<1>1. CASE Tm!Applies(s) /\ tmRam' = d /\ stage' = [st EXCEPT !.words = w]
  <2>1. /\ Typed(d) /\ Counted(d, w) /\ w \in Memory
        /\ st \in [header : Uploaders \cup {"none", "torn"}, words : Memory]
        /\ st.header \in Uploaders =>
             /\ st = stage
             /\ Tm!StagedOk /\ ImageWords(st.header) \subseteq Tm!Stage
             /\ \A i \in ImageWords(st.header) :
                  w[i] = st.words[i] /\ i < d.addr /\ i \div PageWords <= d.erased
    BY <1>1, ChunkArrives
  <2> HIDE DEF st, d, w
  <2>2. /\ stage' \in [header : Uploaders \cup {"none", "torn"}, words : Memory]
        /\ stage'.header = st.header /\ stage'.words = w
    BY <1>1, <2>1
  <2>3. Vouched'
    <3> SUFFICES ASSUME st.header \in Uploaders
                 PROVE  /\ Tm!StagedOk' /\ ImageWords(st.header) \subseteq Tm!Stage
                        /\ \A i \in ImageWords(st.header) :
                             i < d.addr /\ i \div PageWords <= d.erased
      BY <1>1, <2>2 DEF Vouched, ImageWords
    <3> QED BY <2>1, <2>2, StaysStaged
  <2> QED BY <1>1, <2>1, <2>2, <2>3 DEF UploadInv, UploadTyped
<1>2. CASE Tm!Final(u, s) /\ tmRam' = f /\ stage' = [st EXCEPT !.words = v]
  <2>1. /\ Typed(f) /\ Counted(f, v) /\ v \in Memory
        /\ st \in [header : Uploaders \cup {"none", "torn"}, words : Memory]
        /\ st.header \in Uploaders =>
             /\ st = stage
             /\ Tm!StagedOk /\ ImageWords(st.header) \subseteq Tm!Stage
             /\ \A i \in ImageWords(st.header) :
                  v[i] = st.words[i] /\ i < f.addr /\ i \div PageWords <= f.erased
    BY <1>2, FlushArrives
  <2> HIDE DEF st, f, v
  <2>2. /\ stage' \in [header : Uploaders \cup {"none", "torn"}, words : Memory]
        /\ stage'.header = st.header /\ stage'.words = v
    BY <1>2, <2>1
  <2>3. Vouched'
    <3> SUFFICES ASSUME st.header \in Uploaders
                 PROVE  /\ Tm!StagedOk' /\ ImageWords(st.header) \subseteq Tm!Stage
                        /\ \A i \in ImageWords(st.header) :
                             i < f.addr /\ i \div PageWords <= f.erased
      BY <1>2, <2>2 DEF Vouched, ImageWords
    <3> QED BY <2>1, <2>2, StaysStaged
  <2> QED BY <1>2, <2>1, <2>2, <2>3 DEF UploadInv, UploadTyped
<1>3. CASE Tm!Completes(u, s) /\ tmRam' = f /\ stage' = Tm!Committed(u, s)
  <2>1. /\ stage' \in [header : Uploaders \cup {"none", "torn"}, words : Memory]
        /\ stage'.header = u /\ Tm!StagedOk' /\ ImageWords(u) \subseteq Tm!Stage
        /\ Typed(f) /\ Counted(f, stage'.words)
        /\ \A i \in ImageWords(u) : i < f.addr /\ i \div PageWords <= f.erased
    BY <1>3, CompleteVouched
  <2> HIDE DEF f
  <2>2. Vouched' BY <1>3, <2>1 DEF Vouched, ImageWords
  <2> QED BY <1>3, <2>1, <2>2 DEF UploadInv, UploadTyped
<1>4. CASE tmRam' = [tmRam EXCEPT !.abort = TRUE] /\ UNCHANGED stage
  <2>1. Typed(tmRam') /\ tmRam'.abort BY <1>4 DEF UploadInv, UploadTyped, Typed
  <2>2. Tm!StagedOk' = Tm!StagedOk BY <1>4 DEF Tm!StagedOk, Tm!Staged
  <2>3. Vouched' BY <1>4, <2>1, <2>2 DEF UploadInv, Vouched
  <2> QED BY <1>4, <2>1, <2>3 DEF UploadInv, UploadTyped, Typed, Counted
<1>5. CASE UNCHANGED <<tmRam, stage>>
  BY <1>5 DEF UploadInv, UploadTyped, Typed, Counted, Exact, Gap, At, Clean,
              Vouched, ImageWords, Tm!StagedOk,
              Tm!Staged
<1> QED BY <1>1, <1>2, <1>3, <1>4, <1>5 DEF Tm!Handle, Tm!Final, Tm!Completes

\* The power fails in the handler: every word it was about to change may be damaged.
LEMMA CutRequestKeeps ==
  ASSUME NoTail, UploadInv, NEW u \in Uploaders, NEW s \in 0 .. Tm!LastChunk(u),
         Tm!CutRequest(u, s)
  PROVE  UploadInv'
<1>1. tmRam' = Tm!Fresh BY DEF Tm!CutRequest, Tm!Cut
<1>2. Typed(tmRam') /\ (\A w : Counted(tmRam', w)) /\ tmRam'.next = 0
  BY <1>1, FreshFits DEF Tm!Fresh
<1>3. stage \in [header : Uploaders \cup {"none", "torn"}, words : Memory]
  BY DEF UploadInv, UploadTyped
<1>4. ASSUME stage' \in [header : Uploaders \cup {"none", "torn"}, words : Memory],
             stage'.header \in Uploaders =>
               Tm!StagedOk' /\ ImageWords(stage'.header) \subseteq Tm!Stage
      PROVE  UploadInv'
  <2>1. Vouched' BY <1>2, <1>4 DEF Vouched, ImageWords
  <2> QED BY <1>2, <1>4, <2>1 DEF UploadInv, UploadTyped
<1>5. CASE stage' = [stage EXCEPT !.header = "torn"]
  <2>1. stage' \in [header : Uploaders \cup {"none", "torn"}, words : Memory]
        /\ stage'.header = "torn"
    BY <1>3, <1>5
  <2>2. "torn" \notin Uploaders BY UploadAssumption
  <2> QED BY <1>4, <2>1, <2>2
<1>6. CASE /\ Tm!Applies(s)
           /\ stage' = [Tm!BegunStage(s) EXCEPT !.words = [i \in Tm!Stage |->
                IF Tm!AfterWords(u, s)[i] = Tm!BegunStage(s).words[i]
                THEN Tm!AfterWords(u, s)[i] ELSE Tm!Dirty]]
  <2> DEFINE st == Tm!BegunStage(s)
             w == Tm!AfterWords(u, s)
             d == Tm!After(u, s)
             v == [i \in Tm!Stage |-> IF w[i] = st.words[i] THEN w[i] ELSE Tm!Dirty]
  <2>1. /\ w \in Memory
        /\ st \in [header : Uploaders \cup {"none", "torn"}, words : Memory]
        /\ st.header \in Uploaders =>
             /\ st = stage
             /\ Tm!StagedOk /\ ImageWords(st.header) \subseteq Tm!Stage
             /\ \A i \in ImageWords(st.header) :
                  w[i] = st.words[i] /\ i < d.addr /\ i \div PageWords <= d.erased
    BY <1>6, ChunkArrives
  <2>2. v \in Memory BY <2>1, FlashTypes DEF Memory
  <2>3. stage' = [st EXCEPT !.words = v] BY <1>6
  <2>4. \A i \in Tm!Stage : w[i] = st.words[i] => v[i] = st.words[i] OBVIOUS
  <2> HIDE DEF st, w, d, v
  <2>5. /\ stage' \in [header : Uploaders \cup {"none", "torn"}, words : Memory]
        /\ stage'.header = st.header /\ stage'.words = v
    BY <2>1, <2>2, <2>3
  <2>6. ASSUME st.header \in Uploaders
        PROVE  Tm!StagedOk' /\ ImageWords(st.header) \subseteq Tm!Stage
    <3>1. \A i \in ImageWords(stage.header) : stage'.words[i] = stage.words[i]
      BY <2>1, <2>4, <2>5, <2>6
    <3> QED BY <2>1, <2>5, <2>6, <3>1, StaysStaged
  <2> QED BY <1>4, <2>5, <2>6
<1>7. CASE Tm!Completes(u, s) /\ stage' = Tm!Committed(u, s)
  <2>1. /\ stage' \in [header : Uploaders \cup {"none", "torn"}, words : Memory]
        /\ stage'.header = u /\ Tm!StagedOk' /\ ImageWords(u) \subseteq Tm!Stage
    BY <1>7, CompleteVouched
  <2> QED BY <1>4, <2>1
<1> QED BY <1>5, <1>6, <1>7 DEF Tm!CutRequest

LEMMA UploadStutters == ASSUME UploadInv, UNCHANGED <<tmRam, stage>> PROVE UploadInv'
BY DEF UploadInv, UploadTyped, Typed, Counted, Exact, Gap, At, Clean,
              Vouched, ImageWords, Tm!StagedOk, Tm!Staged

LEMMA UploadNext == NoTail /\ UploadInv /\ [Next]_vars => UploadInv'
<1> SUFFICES ASSUME NoTail, UploadInv, [Next]_vars PROVE UploadInv' OBVIOUS
<1>1. CASE UNCHANGED tmVars BY <1>1, UploadStutters DEF tmVars
<1>2. CASE Tm!Next
  <2>1. CASE Tm!Reset \/ Tm!CutIdle \/ Tm!CutApply
    BY <2>1, UploadForgets DEF Tm!Reset, Tm!CutIdle, Tm!CutApply, Tm!Cut
  <2>2. CASE Tm!Boot \/ Tm!OtaErase \/ Tm!OtaProgram \/ \E u \in Uploaders : Tm!Again(u)
    BY <2>2, UploadStutters DEF Tm!Boot, Tm!OtaErase, Tm!OtaProgram, Tm!Again
  <2>3. ASSUME NEW u \in Uploaders, NEW s \in 0 .. Tm!LastChunk(u),
               Tm!Request(u, s) \/ Tm!CutRequest(u, s)
        PROVE  UploadInv'
    BY <2>3, HandleKeeps, CutRequestKeeps DEF Tm!Request
  <2> QED BY <1>2, <2>1, <2>2, <2>3 DEF Tm!Next
<1> QED BY <1>1, <1>2 DEF Next, OnTm, OnCc, OnStore, vars

\* A header that is programmed vouches for the staged image (enet_io.c:449-454), whatever
\* chunks of whichever browser come later, twice or after a power failure: if no image ends
\* in a part of a word that begins a page (see the run TmOta_v_tail for one that does).
THEOREM HeaderTrue ==
  ASSUME \A u \in Uploaders : Bytes[u] % (WordLen * PageWords) \notin 1 .. WordLen - 1
  PROVE  Spec => []HeaderVouches
<1>1. NoTail BY DEF NoTail
<1>2. Init => UploadInv BY UploadInit DEF Init
<1>3. UploadInv /\ [Next]_vars => UploadInv' BY <1>1, UploadNext
<1>4. UploadInv => HeaderVouches BY DEF UploadInv, Vouched, HeaderVouches, Tm!HeaderVouches
<1> QED BY <1>2, <1>3, <1>4, PTL DEF Spec

-----------------------------------------------------------------------------
(* The ranges of both uploads, for images and chunks of any length.        *)

LEMMA BegunTyped ==
  ASSUME UploadTyped, NEW s
  PROVE  /\ Typed(Tm!Begun(s))
         /\ Tm!BegunStage(s) \in [header : Uploaders \cup {"none", "torn"}, words : Memory]
<1>1. /\ Typed(tmRam)
      /\ stage \in [header : Uploaders \cup {"none", "torn"}, words : Memory]
  BY DEF UploadTyped
<1>2. Tm!EraseStage(stage.words, 0) \in Memory BY <1>1, ErasedTypes
<1> QED BY <1>1, <1>2, FreshFits DEF Tm!Begun, Tm!BegunStage, Tm!NoHeader

LEMMA ArrivalTyped ==
  ASSUME UploadTyped, NEW u \in Uploaders, NEW s \in 0 .. Tm!LastChunk(u)
  PROVE  /\ Typed(Tm!After(u, s)) /\ Tm!AfterWords(u, s) \in Memory
         /\ Typed(Tm!Flushed(Tm!After(u, s))) /\ Tm!FinalWords(u, s) \in Memory
<1> DEFINE r == Tm!Begun(s)
           b == Tm!Chunk(u, s)
           st == Tm!BegunStage(s)
<1>1. Typed(r) /\ st.words \in Memory
  <2>1. Typed(r) /\ st \in [header : Uploaders \cup {"none", "torn"}, words : Memory]
    BY BegunTyped
  <2> HIDE DEF r, st
  <2> QED BY <2>1
<1>2. b \in Seq(Cells) BY ChunkFacts
<1>3. Tm!After(u, s) = Tm!Decoded(r, b) /\ Tm!AfterWords(u, s) = Tm!DecodedWords(r, st.words, b)
  BY DEF Tm!After, Tm!AfterWords
<1> HIDE DEF r, b, st
<1>4. Typed(Tm!After(u, s)) BY <1>1, <1>2, <1>3, DecodedFacts
<1>5. Tm!AfterWords(u, s) \in Memory BY <1>1, <1>2, <1>3, DecodedTypes
<1>6. Typed(Tm!Flushed(Tm!After(u, s))) BY <1>4, FlushedFacts
<1>7. Tm!FinalWords(u, s) \in Memory BY <1>4, <1>5, FlushedTypes DEF Tm!FinalWords
<1> QED BY <1>4, <1>5, <1>6, <1>7

LEMMA HandleTyped ==
  ASSUME UploadTyped, NEW u \in Uploaders, NEW s \in 0 .. Tm!LastChunk(u), Tm!Handle(u, s)
  PROVE  UploadTyped'
<1> DEFINE st == Tm!BegunStage(s)
           d == Tm!After(u, s)
           f == Tm!Flushed(Tm!After(u, s))
           w == Tm!AfterWords(u, s)
           v == Tm!FinalWords(u, s)
<1>1. /\ Typed(tmRam)
      /\ stage \in [header : Uploaders \cup {"none", "torn"}, words : Memory]
  BY DEF UploadTyped
<1>2. /\ Typed(d) /\ w \in Memory /\ Typed(f) /\ v \in Memory
      /\ st \in [header : Uploaders \cup {"none", "torn"}, words : Memory]
  BY ArrivalTyped, BegunTyped
<1>3. \/ tmRam' = d /\ stage' = [st EXCEPT !.words = w]
      \/ tmRam' = f /\ stage' = [st EXCEPT !.words = v]
      \/ tmRam' = f /\ stage' = [header |-> u, words |-> v]
      \/ tmRam' = [tmRam EXCEPT !.abort = TRUE] /\ UNCHANGED stage
      \/ UNCHANGED <<tmRam, stage>>
  BY DEF Tm!Handle, Tm!Committed
<1> HIDE DEF st, d, f, w, v
<1>4. Typed([tmRam EXCEPT !.abort = TRUE]) BY <1>1 DEF Typed
<1>5. Typed(tmRam') BY <1>1, <1>2, <1>3, <1>4
<1>6. stage' \in [header : Uploaders \cup {"none", "torn"}, words : Memory]
  BY <1>1, <1>2, <1>3
<1> QED BY <1>5, <1>6 DEF UploadTyped, Typed

LEMMA CutRequestTyped ==
  ASSUME UploadTyped, NEW u \in Uploaders, NEW s \in 0 .. Tm!LastChunk(u), Tm!CutRequest(u, s)
  PROVE  UploadTyped'
<1> DEFINE st == Tm!BegunStage(s)
           w == Tm!AfterWords(u, s)
           x == [i \in Tm!Stage |-> IF w[i] = st.words[i] THEN w[i] ELSE Tm!Dirty]
           v == Tm!FinalWords(u, s)
<1>1. stage \in [header : Uploaders \cup {"none", "torn"}, words : Memory] BY DEF UploadTyped
<1>2. /\ w \in Memory /\ v \in Memory
      /\ st \in [header : Uploaders \cup {"none", "torn"}, words : Memory]
  BY ArrivalTyped, BegunTyped
<1>3. x \in Memory BY <1>2, FlashTypes DEF Memory
<1>4. \/ stage' = [stage EXCEPT !.header = "torn"]
      \/ stage' = [st EXCEPT !.words = x]
      \/ stage' = [header |-> u, words |-> v]
  BY DEF Tm!CutRequest, Tm!Committed
<1>5. Typed(tmRam') BY FreshFits DEF Tm!CutRequest, Tm!Cut
<1> HIDE DEF st, w, x, v
<1>6. stage' \in [header : Uploaders \cup {"none", "torn"}, words : Memory]
  BY <1>1, <1>2, <1>3, <1>4
<1> QED BY <1>5, <1>6 DEF UploadTyped, Typed

\* The rest of the state of the TM4C1294.
BoardTyped ==
  /\ pending \in BOOLEAN /\ page \in Tm!App /\ tmCuts \in 0 .. ImageCuts
  /\ app \in [Tm!App -> Uploaders \cup {"old", "erased", "torn"}]

TmInv == UploadTyped /\ BoardTyped /\ CopyInv

LEMMA TmStarts == ASSUME Tm!Init PROVE TmInv
<1>1. UploadTyped BY UploadInit DEF UploadInv
<1>2. 0 \in Tm!App /\ ImageCuts \in 0 .. ImageCuts BY SlotAssumption, UploadCounts, SMT DEF Tm!App
<1>3. BoardTyped BY <1>2 DEF Tm!Init, BoardTyped
<1> QED BY <1>1, <1>3, CopyInit DEF TmInv

LEMMA BoardStep == ASSUME TmInv, Tm!Next PROVE BoardTyped'
<1>1. /\ pending \in BOOLEAN /\ page \in Tm!App /\ tmCuts \in 0 .. ImageCuts
      /\ app \in [Tm!App -> Uploaders \cup {"old", "erased", "torn"}]
  BY DEF TmInv, BoardTyped
<1>2. 0 \in Tm!App /\ (page + 1 < AppPages => page + 1 \in Tm!App)
  BY <1>1, SlotAssumption, SMT DEF Tm!App
<1>3. tmCuts > 0 => tmCuts - 1 \in 0 .. ImageCuts BY <1>1, UploadCounts, SMT
<1>4. CASE Tm!OtaErase
  <2>1. page' \in Tm!App BY <1>2, <1>4 DEF Tm!OtaErase, Tm!Turn
  <2>2. app' \in [Tm!App -> Uploaders \cup {"old", "erased", "torn"}]
    BY <1>1, <1>4 DEF Tm!OtaErase
  <2> QED BY <1>1, <1>4, <2>1, <2>2 DEF Tm!OtaErase, BoardTyped
<1>5. CASE Tm!OtaProgram
  <2>1. page' \in Tm!App BY <1>2, <1>5 DEF Tm!OtaProgram, Tm!Turn
  <2>2. stage.header \in Uploaders
    BY <1>5 DEF Tm!OtaProgram, TmInv, CopyInv, Repeatable, Tm!StagedOk
  <2>3. app' \in [Tm!App -> Uploaders \cup {"old", "erased", "torn"}]
    BY <1>1, <1>5, <2>2 DEF Tm!OtaProgram
  <2> QED BY <1>1, <1>5, <2>1, <2>3 DEF Tm!OtaProgram, BoardTyped
<1>6. CASE Tm!CutApply
  <2>1. app' \in [Tm!App -> Uploaders \cup {"old", "erased", "torn"}]
    BY <1>1, <1>6 DEF Tm!CutApply
  <2> QED BY <1>1, <1>3, <1>6, <2>1 DEF Tm!CutApply, Tm!Cut, BoardTyped
<1>7. CASE Tm!Boot BY <1>1, <1>2, <1>7 DEF Tm!Boot, BoardTyped
<1>8. CASE Tm!Reset \/ \E u \in Uploaders : Tm!Again(u)
  BY <1>1, <1>8 DEF Tm!Reset, Tm!Again, BoardTyped
<1>9. CASE Tm!CutIdle BY <1>1, <1>3, <1>9 DEF Tm!CutIdle, Tm!Cut, BoardTyped
<1>10. ASSUME NEW u \in Uploaders, NEW s \in 0 .. Tm!LastChunk(u),
              Tm!Request(u, s) \/ Tm!CutRequest(u, s)
       PROVE  BoardTyped'
  <2>1. CASE Tm!Request(u, s) BY <1>1, <2>1 DEF Tm!Request, Tm!Handle, BoardTyped
  <2>2. CASE Tm!CutRequest(u, s) BY <1>1, <1>3, <2>2 DEF Tm!CutRequest, Tm!Cut, BoardTyped
  <2> QED BY <1>10, <2>1, <2>2
<1> QED BY <1>4, <1>5, <1>6, <1>7, <1>8, <1>9, <1>10 DEF Tm!Next

LEMMA TmNext == TmInv /\ [Next]_vars => TmInv'
<1> SUFFICES ASSUME TmInv, [Next]_vars PROVE TmInv' OBVIOUS
<1>1. CopyInv' BY CopyNext DEF TmInv
<1>2. CASE UNCHANGED tmVars
  BY <1>1, <1>2 DEF tmVars, TmInv, UploadTyped, Typed, BoardTyped
<1>3. CASE Tm!Next
  <2>1. UploadTyped BY DEF TmInv
  <2>2. UploadTyped'
    <3>1. CASE Tm!Reset \/ Tm!CutIdle \/ Tm!CutApply
      <4>1. tmRam' = Tm!Fresh /\ UNCHANGED stage
        BY <3>1 DEF Tm!Reset, Tm!CutIdle, Tm!CutApply, Tm!Cut
      <4> QED BY <2>1, <4>1, FreshFits DEF UploadTyped, Typed
    <3>2. CASE Tm!Boot \/ Tm!OtaErase \/ Tm!OtaProgram \/ \E u \in Uploaders : Tm!Again(u)
      <4>1. UNCHANGED <<tmRam, stage>>
        BY <3>2 DEF Tm!Boot, Tm!OtaErase, Tm!OtaProgram, Tm!Again
      <4> QED BY <2>1, <4>1 DEF UploadTyped, Typed
    <3>3. ASSUME NEW u \in Uploaders, NEW s \in 0 .. Tm!LastChunk(u),
                 Tm!Request(u, s) \/ Tm!CutRequest(u, s)
          PROVE  UploadTyped'
      BY <2>1, <3>3, HandleTyped, CutRequestTyped DEF Tm!Request
    <3> QED BY <1>3, <3>1, <3>2, <3>3 DEF Tm!Next
  <2> QED BY <1>1, <1>3, <2>2, BoardStep DEF TmInv
<1> QED BY <1>2, <1>3 DEF Next, OnTm, OnCc, OnStore, vars

LEMMA TmShows == ASSUME TmInv PROVE Tm!TypeOK
<1>1. Typed(tmRam) /\ stage.words \in Memory /\ BoardTyped
  BY DEF TmInv, UploadTyped
<1>2. \A i \in Tm!Stage : Len(stage.words[i]) <= WordLen BY <1>1 DEF Memory, FlashWords
<1>3. mode \in {"up", "reset", "boot", "erase", "program", "dead"} BY DEF TmInv, CopyInv
<1> QED BY <1>1, <1>2, <1>3 DEF Tm!TypeOK, Typed, BoardTyped

-----------------------------------------------------------------------------
(* The records.                                                            *)

\* Words, and the writes of the handlers.
Plain == {Store!Word(v) : v \in Values \cup {0, 1, 3, 9}}
Words == Plain \cup {Store!Crc(f) : f \in Seq(Plain)}
Writes == UNION {[A -> Words] : A \in (SUBSET Store!Addr) \ {{}}}

LEMMA StoreLayout ==
  /\ Store!Base["mqtt"] = 0 /\ Store!Base["names"] = 3 /\ Store!Base["out"] = 7
  /\ Store!Size["mqtt"] = 1 /\ Store!Size["names"] = 2 /\ Store!Size["out"] = 3
  /\ Store!CrcAt("mqtt") = 2 /\ Store!CrcAt("names") = 6 /\ Store!CrcAt("out") = 11
  /\ Store!Region("mqtt") = 0 .. 2 /\ Store!Region("names") = 3 .. 6
  /\ Store!Region("out") = 7 .. 11
<1>1. /\ Store!Base["mqtt"] = 0 /\ Store!Base["names"] = 3 /\ Store!Base["out"] = 7
      /\ Store!Size["mqtt"] = 1 /\ Store!Size["names"] = 2 /\ Store!Size["out"] = 3
  BY DEF Store!Base, Store!Size
<1>2. Store!CrcAt("mqtt") = 2 /\ Store!CrcAt("names") = 6 /\ Store!CrcAt("out") = 11
  BY <1>1, SMT DEF Store!CrcAt
<1> QED BY <1>1, <1>2 DEF Store!Region

LEMMA Regions ==
  ASSUME NEW r \in Store!Records
  PROVE  /\ Store!Region(r) \subseteq Store!Addr
         /\ Store!Base[r] \in Store!Region(r) /\ Store!CrcAt(r) \in Store!Region(r)
         /\ Store!Base[r] # Store!CrcAt(r)
         /\ Store!Size[r] \in 1 .. 3
         /\ \A i \in 1 .. Store!Size[r] :
              /\ Store!Base[r] + i \in Store!Region(r)
              /\ Store!Base[r] + i # Store!Base[r] /\ Store!Base[r] + i # Store!CrcAt(r)
              /\ (Store!Base[r] + i) - Store!Base[r] = i
         /\ \A a \in Store!Region(r) :
              a # Store!Base[r] /\ a # Store!CrcAt(r) => a - Store!Base[r] \in 1 .. Store!Size[r]
         /\ r # "out" => 10 \notin Store!Region(r)
<1>1. CASE r = "mqtt" BY <1>1, StoreLayout, SMT DEF Store!Addr
<1>2. CASE r = "names" BY <1>2, StoreLayout, SMT DEF Store!Addr
<1>3. CASE r = "out" BY <1>3, StoreLayout, SMT DEF Store!Addr
<1> QED BY <1>1, <1>2, <1>3 DEF Store!Records

LEMMA RegionsApart ==
  ASSUME NEW r \in Store!Records, NEW q \in Store!Records, r # q
  PROVE  Store!Region(r) \cap Store!Region(q) = {}
BY StoreLayout, SMT DEF Store!Records

LEMMA SettingsPlain == Store!Setting \subseteq Plain
BY DEF Store!Setting, Plain

\* The fields of a record are a list of words, and its last field, if it has three, a zero.
LEMMA ContentsLists ==
  ASSUME NEW r \in Store!Records, NEW f \in Store!Contents[r]
  PROVE  /\ f \in Seq(Plain) /\ Len(f) = Store!Size[r]
         /\ f = [i \in 1 .. Store!Size[r] |-> f[i]]
         /\ \A i \in 1 .. Store!Size[r] : f[i] \in Plain
         /\ r = "out" => f[3] = Store!Zero
<1>1. CASE r = "mqtt"
  <2>1. PICK v \in Store!Setting : f = <<v>> BY <1>1 DEF Store!Contents
  <2> QED BY <1>1, <2>1, SettingsPlain, StoreLayout
<1>2. CASE r = "names"
  <2>1. PICK v \in Store!Setting, w \in Store!Setting : f = <<v, w>> BY <1>2 DEF Store!Contents
  <2> QED BY <1>2, <2>1, SettingsPlain, StoreLayout
<1>3. CASE r = "out"
  <2>1. PICK m \in {Store!Zero, Store!Word(1)},
             p \in {Store!Word(v) : v \in Values \cup {Store!SamePair, Store!NoPair}} :
               f = <<m, p, Store!Zero>>
    BY <1>3 DEF Store!Contents
  <2>2. m \in Plain /\ p \in Plain /\ Store!Zero \in Plain
    BY DEF Plain, Store!Zero, Store!SamePair, Store!NoPair
  <2> QED BY <1>3, <2>1, <2>2, StoreLayout
<1> QED BY <1>1, <1>2, <1>3 DEF Store!Records

\* A CRC tells its fields, and is no plain word.
LEMMA WordFacts ==
  /\ \A f, g : Store!Crc(f) = Store!Crc(g) => f = g
  /\ \A f : f \in Store!Crc(f).of
  /\ \A x \in Plain : x.of = {}
  /\ Store!Zero \in Plain /\ Store!Magic \in Plain /\ Store!Zero # Store!Magic
<1>1. \A f : Store!Crc(f).of = {f} BY DEF Store!Crc
<1>2. \A f, g : Store!Crc(f) = Store!Crc(g) => f = g
  <2> TAKE f, g
  <2> HAVE Store!Crc(f) = Store!Crc(g)
  <2> {f} = {g} BY <1>1
  <2> QED OBVIOUS
<1>3. \A x \in Plain : x.of = {} BY DEF Plain, Store!Word
<1>4. Store!Zero \in Plain /\ Store!Magic \in Plain BY DEF Plain, Store!Zero, Store!Magic
<1>5. Store!Zero.is = 0 /\ Store!Magic.is = 9 BY DEF Store!Zero, Store!Magic, Store!Word
<1> QED BY <1>1, <1>2, <1>3, <1>4, <1>5

-----------------------------------------------------------------------------
(* What a boot finds.                                                      *)

LEMMA FieldsOf ==
  ASSUME NEW r \in Store!Records, NEW m, NEW n, \A a \in Store!Region(r) : m[a] = n[a]
  PROVE  Store!Fields(m, r) = Store!Fields(n, r) /\ (Store!Valid(m, r) <=> Store!Valid(n, r))
<1>1. Store!Fields(m, r) = Store!Fields(n, r) BY Regions DEF Store!Fields
<1> QED BY <1>1, Regions DEF Store!Valid

LEMMA FoundIn ==
  ASSUME NEW r \in Store!Records, NEW m
  PROVE  Store!Found(m)[r] =
           IF Store!Valid(m, r) THEN Store!Fields(m, r)
           ELSE IF r = "out" /\ Store!ValidV1(m) THEN Store!Migrated(Store!V1(m))
           ELSE Store!Default[r]
BY DEF Store!Found

\* Only the words of its region bear on a record.
LEMMA FoundSame ==
  ASSUME NEW r \in Store!Records, NEW m, NEW n, \A a \in Store!Region(r) : m[a] = n[a]
  PROVE  Store!Found(m)[r] = Store!Found(n)[r]
<1>1. CASE r = "out"
  <2>1. m[7] = n[7] /\ m[8] = n[8] /\ m[9] = n[9] /\ m[10] = n[10] BY <1>1, StoreLayout, SMT
  <2>2. Store!V1(m) = Store!V1(n) BY <2>1, StoreLayout DEF Store!V1
  <2>3. Store!ValidV1(m) <=> Store!ValidV1(n) BY <2>1, <2>2, StoreLayout DEF Store!ValidV1
  <2> QED BY <2>2, <2>3, FieldsOf, FoundIn
<1>2. CASE r # "out" BY <1>2, FieldsOf, FoundIn
<1> QED BY <1>1, <1>2

\* A record that was written whole is found as it was meant.
LEMMA FoundWhole ==
  ASSUME NEW r \in Store!Records, NEW f \in Store!Contents[r], NEW m,
         \A a \in Store!Region(r) : m[a] = Store!Whole(r, f)[a]
  PROVE  Store!Found(m)[r] = f /\ Store!Fields(m, r) = f /\ Store!Valid(m, r)
<1>1. m[Store!Base[r]] = Store!Magic /\ m[Store!CrcAt(r)] = Store!Crc(f)
  BY Regions DEF Store!Whole
<1>2. \A i \in 1 .. Store!Size[r] : m[Store!Base[r] + i] = f[i]
  BY Regions DEF Store!Whole
<1>3. Store!Fields(m, r) = f BY <1>2, ContentsLists DEF Store!Fields
<1> QED BY <1>1, <1>3, FoundIn DEF Store!Valid

\* A record without its magic word is found at its defaults.
LEMMA FoundErased ==
  ASSUME NEW r \in Store!Records, NEW m, m[Store!Base[r]] # Store!Magic
  PROVE  Store!Found(m)[r] = Store!Default[r]
<1>1. ~Store!Valid(m, r) BY DEF Store!Valid
<1>2. r = "out" => ~Store!ValidV1(m) BY DEF Store!ValidV1
<1> QED BY <1>1, <1>2, FoundIn

-----------------------------------------------------------------------------
(* What was meant.                                                         *)

\* The word x at a, if it is a CRC in a place where one is looked for, is of fields that
\* the record was ever to hold.
MeantAt(e, a, x) ==
  /\ \A r \in Store!Records : a = Store!CrcAt(r) => x.of \subseteq e[r]
  /\ a = 10 => \A f \in x.of : Store!Migrated(f) \in e["out"]

Meant(e, w) == \A a \in DOMAIN w : MeantAt(e, a, w[a])

LEMMA MeantPlain == ASSUME NEW e, NEW a, NEW x \in Plain PROVE MeantAt(e, a, x)
BY WordFacts DEF MeantAt

LEMMA MeantMore ==
  ASSUME NEW e, NEW d, \A r \in Store!Records : e[r] \subseteq d[r], NEW a, NEW x, MeantAt(e, a, x)
  PROVE  MeantAt(d, a, x)
<1>1. "out" \in Store!Records BY DEF Store!Records
<1> QED BY <1>1 DEF MeantAt

LEMMA MeantOver ==
  ASSUME NEW e, NEW w, NEW m, Meant(e, w), DOMAIN m = Store!Addr, Meant(e, m)
  PROVE  Meant(e, Store!Over(w, m))
BY DEF Meant, Store!Over

\* What a boot finds was meant, for a store that may be cut at any word.
LEMMA FoundMeant ==
  ASSUME NEW e, NEW m, DOMAIN m = Store!Addr, Meant(e, m),
         NEW r \in Store!Records, Store!Default[r] \in e[r]
  PROVE  Store!Found(m)[r] \in e[r]
<1>1. CASE Store!Valid(m, r)
  <2>1. m[Store!CrcAt(r)].of \subseteq e[r] BY Regions DEF Meant, MeantAt
  <2>2. m[Store!CrcAt(r)] = Store!Crc(Store!Fields(m, r)) BY <1>1 DEF Store!Valid
  <2> QED BY <1>1, <2>1, <2>2, WordFacts, FoundIn
<1>2. CASE r = "out" /\ Store!ValidV1(m)
  <2>1. 10 \in DOMAIN m BY SMT DEF Store!Addr
  <2>2. \A f \in m[10].of : Store!Migrated(f) \in e["out"] BY <2>1 DEF Meant, MeantAt
  <2>3. m[10] = Store!Crc(Store!V1(m)) BY <1>2, StoreLayout DEF Store!ValidV1
  <2>4. Store!Migrated(Store!V1(m)) \in e["out"] BY <2>2, <2>3, WordFacts
  <2> QED BY <1>1, <1>2, <2>4, FoundIn
<1> QED BY <1>1, <1>2, FoundIn

\* A record that is written whole means what it says.
LEMMA WholeMeant ==
  ASSUME NEW r \in Store!Records, NEW f \in Store!Contents[r], NEW e, f \in e[r]
  PROVE  Store!Whole(r, f) \in Writes /\ DOMAIN Store!Whole(r, f) = Store!Region(r)
         /\ Meant(e, Store!Whole(r, f))
<1> DEFINE w == Store!Whole(r, f)
<1>1. DOMAIN w = Store!Region(r) BY DEF Store!Whole
<1>2. ASSUME NEW a \in Store!Region(r) PROVE w[a] \in Words /\ MeantAt(e, a, w[a])
  <2>1. CASE a = Store!Base[r]
    <3>1. w[a] = Store!Magic BY <2>1 DEF Store!Whole
    <3> QED BY <3>1, WordFacts, MeantPlain DEF Words
  <2>2. CASE a = Store!CrcAt(r)
    <3>1. w[a] = Store!Crc(f) BY <2>2, Regions DEF Store!Whole
    <3>2. Store!Crc(f) \in Words BY ContentsLists DEF Words
    <3>3. Store!Crc(f).of = {f} BY DEF Store!Crc
    <3>4. \A q \in Store!Records : a = Store!CrcAt(q) => q = r
      BY <2>2, StoreLayout, SMT DEF Store!Records
    <3>5. a # 10 BY <2>2, StoreLayout, SMT DEF Store!Records
    <3> QED BY <3>1, <3>2, <3>3, <3>4, <3>5 DEF MeantAt
  <2>3. CASE a # Store!Base[r] /\ a # Store!CrcAt(r)
    <3>1. w[a] = f[a - Store!Base[r]] BY <2>3 DEF Store!Whole
    <3>2. w[a] \in Plain BY <2>3, <3>1, Regions, ContentsLists
    <3> QED BY <3>2, MeantPlain DEF Words
  <2> QED BY <2>1, <2>2, <2>3
<1>3. w = [a \in Store!Region(r) |-> w[a]] BY DEF Store!Whole
<1>4. w \in [Store!Region(r) -> Words] BY <1>2, <1>3
<1>5. Store!Region(r) \in (SUBSET Store!Addr) \ {{}} BY Regions
<1>6. w \in Writes BY <1>4, <1>5 DEF Writes
<1> QED BY <1>1, <1>2, <1>6 DEF Meant

-----------------------------------------------------------------------------
(* The inductive invariant of the records.                                 *)

\* What the writes that are left start from.
Backing == IF board = "cc35x1" THEN shadow ELSE nv

\* The store as the writes ws will leave it: what the last of them says of each word.
Ends(goal, ws, mem) ==
  /\ goal \in [Store!Addr -> Words]
  /\ \A a \in Store!Addr :
       /\ (\A i \in DOMAIN ws : a \notin DOMAIN ws[i]) => goal[a] = mem[a]
       /\ \A i \in DOMAIN ws :
            a \in DOMAIN ws[i] /\ (\A j \in DOMAIN ws : j > i => a \notin DOMAIN ws[j])
              => goal[a] = ws[i][a]

\* Writes that are not cut leave every record as it was meant, and the names as the names in
\* RAM, valid or not: the next name is written into them.
Promised(goal) ==
  /\ Ends(goal, todo, Backing)
  /\ \A r \in Store!Records : Store!Found(goal)[r] = job.new[r]
  /\ Store!Fields(goal, "names") = ram["names"]

StoreTyped ==
  /\ board \in {"tm4c", "cc35x1"} /\ gone \in BOOLEAN
  /\ nv \in [Store!Addr -> Words] /\ shadow \in [Store!Addr -> Words]
  /\ todo \in Seq(Writes)
  /\ DOMAIN ram = Store!Records /\ DOMAIN kept = Store!Records
  /\ \A r \in Store!Records : ram[r] \in Store!Contents[r]
  /\ job.recs \subseteq Store!Records /\ job.risk \subseteq Store!Records
  /\ DOMAIN job.new = Store!Records /\ DOMAIN job.ever = Store!Records
  /\ phase \in {"off", "run", "bare"}
  /\ ops \in 0 .. MaxOps /\ cuts \in 0 .. MaxCuts

\* What was ever meant can be set, and all that is found or will be was meant.
Sensible ==
  \A r \in Store!Records :
    /\ job.ever[r] \subseteq Store!Contents[r]
    /\ Store!Default[r] \in job.ever[r]
    /\ kept[r] \in job.ever[r] /\ job.new[r] \in job.ever[r]

AllMeant ==
  /\ Meant(job.ever, nv) /\ Meant(job.ever, shadow)
  /\ \A i \in DOMAIN todo : Meant(job.ever, todo[i])

\* A record that is not at risk can be found, and no write that is left reaches it.
Intact == \A r \in Store!Records : todo = <<>> \/ r \notin job.risk => Store!Found(nv)[r] = kept[r]

Confined ==
  \A i \in DOMAIN todo : \A r \in Store!Records :
    Store!Reach(todo[i]) \cap Store!Region(r) # {} => r \in job.risk

\* The shadow and the flash differ only where the write under way has still to come.
Mirrored ==
  phase = "run" =>
    /\ gone => /\ board = "cc35x1" /\ todo # <<>>
               /\ \A a \in DOMAIN Head(todo) : shadow[a] = Head(todo)[a]
    /\ board = "cc35x1" =>
         \A a \in Store!Addr : nv[a] = shadow[a] \/ (todo # <<>> /\ a \in Store!Reach(Head(todo)))

StoreInv ==
  /\ StoreTyped /\ Sensible /\ AllMeant /\ Intact /\ Confined /\ Mirrored
  /\ phase = "run" => \E goal : Promised(goal)
  /\ phase = "run" /\ todo = <<>> => \A r \in Store!Records : kept[r] = job.new[r]

LEMMA StoreShows == ASSUME StoreInv PROVE Store!TypeOK
<1>1. ASSUME NEW m \in [Store!Addr -> Words], Meant(job.ever, m) PROVE Store!Sealed(m)
  <2>1. \A r \in Store!Records : m[Store!CrcAt(r)].of \subseteq job.ever[r]
    BY <1>1, Regions DEF Meant, MeantAt
  <2>2. \A r \in Store!Records : job.ever[r] \subseteq Store!Contents[r] BY DEF StoreInv, Sensible
  <2> QED BY <1>1, <2>1, <2>2 DEF Store!Sealed
<1>2. Store!Sealed(nv) /\ Store!Sealed(shadow)
  BY <1>1 DEF StoreInv, StoreTyped, AllMeant
<1> QED BY <1>2 DEF StoreInv, StoreTyped, Sensible, Store!TypeOK

\* A board without work left holds what it should.
LEMMA Rested ==
  ASSUME StoreInv, phase = "run", todo = <<>>
  PROVE  /\ ~gone /\ (board = "cc35x1" => \A a \in Store!Addr : nv[a] = shadow[a])
         /\ \A r \in Store!Records : Store!Found(nv)[r] = kept[r]
         /\ Store!Fields(nv, "names") = ram["names"]
<1>1. ~gone /\ (board = "cc35x1" => \A a \in Store!Addr : nv[a] = shadow[a])
  BY DEF StoreInv, Mirrored
<1>2. \A r \in Store!Records : Store!Found(nv)[r] = kept[r] BY DEF StoreInv, Intact
<1>3. PICK goal : Promised(goal) BY DEF StoreInv
<1>4. \A a \in Store!Addr : goal[a] = Backing[a] BY <1>3 DEF Promised, Ends
<1>5. \A a \in Store!Addr : goal[a] = nv[a] BY <1>1, <1>4 DEF Backing
<1>6. "names" \in Store!Records BY DEF Store!Records
<1>7. Store!Fields(goal, "names") = Store!Fields(nv, "names")
  BY <1>5, <1>6, FieldsOf, Regions
<1> QED BY <1>1, <1>2, <1>3, <1>7 DEF Promised

\* Whatever is found can be set.
LEMMA FoundFits ==
  ASSUME StoreInv, NEW r \in Store!Records
  PROVE  Store!Loaded[r] \in job.ever[r] /\ Store!Loaded[r] \in Store!Contents[r]
<1>1. Store!Found(nv)[r] \in job.ever[r]
  BY FoundMeant DEF StoreInv, StoreTyped, Sensible, AllMeant
<1> QED BY <1>1 DEF StoreInv, Sensible, Store!Loaded

-----------------------------------------------------------------------------
(* The start of a job: its writes, from a store at rest or just loaded.    *)

\* What was ever meant, with this.
Grown(new) == [r \in Store!Records |-> job.ever[r] \cup {new[r]}]

\* The job, and the store that it promises.
Begins(recs, ws, new, goal) ==
  /\ Store!Start(recs, ws, new)
  /\ recs \subseteq Store!Records /\ ws \in Seq(Writes) /\ DOMAIN new = Store!Records
  /\ DOMAIN ram' = Store!Records
  /\ \A r \in Store!Records : new[r] \in Store!Contents[r] /\ ram'[r] \in Store!Contents[r]
  /\ \A i \in DOMAIN ws : Meant(Grown(new), ws[i])
  /\ Ends(goal, ws, nv) /\ Store!Fields(goal, "names") = ram'["names"]
  /\ \A r \in Store!Records : Store!Found(goal)[r] = new[r]

LEMMA StartKeeps ==
  ASSUME StoreInv, NEW recs, NEW ws, NEW new, NEW goal, Begins(recs, ws, new, goal),
         board' = board, nv' = nv, phase' = "run", gone' = FALSE,
         shadow' \in [Store!Addr -> Words], Meant(job.ever, shadow'),
         board = "cc35x1" => \A a \in Store!Addr : shadow'[a] = nv[a],
         DOMAIN kept' = Store!Records, ops' \in 0 .. MaxOps, cuts' \in 0 .. MaxCuts,
         \A r \in Store!Records : Store!Found(nv)[r] = kept'[r] /\ kept'[r] \in job.ever[r]
  PROVE  StoreInv'
<1> DEFINE e == Grown(new)
<1>0. /\ recs \subseteq Store!Records /\ ws \in Seq(Writes)
      /\ DOMAIN new = Store!Records /\ DOMAIN ram' = Store!Records
      /\ \A r \in Store!Records : new[r] \in Store!Contents[r] /\ ram'[r] \in Store!Contents[r]
      /\ \A i \in DOMAIN ws : Meant(e, ws[i])
      /\ Ends(goal, ws, nv) /\ Store!Fields(goal, "names") = ram'["names"]
      /\ \A r \in Store!Records : Store!Found(goal)[r] = new[r]
  BY DEF Begins
<1>1. /\ todo' = ws /\ job' = [recs |-> recs, risk |-> Store!AtRisk(ws), new |-> new, ever |-> e]
  BY DEF Begins, Store!Start, Grown
<1>2. \A r \in Store!Records : job.ever[r] \subseteq e[r] /\ new[r] \in e[r] BY DEF Grown
<1>3. job'.ever = e /\ job'.new = new /\ job'.recs = recs /\ job'.risk = Store!AtRisk(ws)
  BY <1>1
<1> HIDE DEF e
<1>4. ASSUME NEW m, Meant(job.ever, m) PROVE Meant(e, m)
  BY <1>2, <1>4, MeantMore DEF Meant
<1>5. StoreTyped'
  <2>1. Store!AtRisk(ws) \subseteq Store!Records BY DEF Store!AtRisk
  <2>2. DOMAIN e = Store!Records BY DEF e, Grown
  <2> QED BY <1>0, <1>1, <1>3, <2>1, <2>2 DEF StoreTyped, StoreInv
<1>6. Sensible'
  BY <1>0, <1>2, <1>3 DEF Sensible, StoreInv, e, Grown
<1>7. AllMeant'
  <2>1. Meant(e, nv) /\ Meant(e, shadow') BY <1>4 DEF StoreInv, AllMeant
  <2> QED BY <1>0, <1>1, <1>3, <2>1 DEF AllMeant
<1>8. Intact' BY DEF Intact
<1>9. Confined'
  <2>1. \A i \in DOMAIN ws : Store!Reach(ws[i])' = Store!Reach(ws[i]) BY <1>1 DEF Store!Reach
  <2> QED BY <1>1, <1>3, <2>1 DEF Confined, Store!AtRisk, Store!Reach
<1>10. Mirrored' BY DEF Mirrored
<1>11. Promised(goal)'
  <2>1. Ends(goal, ws, Backing')
    BY <1>0 DEF Ends, Backing, StoreInv, StoreTyped
  <2> QED BY <1>0, <1>1, <1>3, <2>1 DEF Promised, Backing
<1>12. ws = <<>> => \A r \in Store!Records : kept'[r] = new[r]
  <2> SUFFICES ASSUME ws = <<>>, NEW r \in Store!Records PROVE kept'[r] = new[r] OBVIOUS
  <2>1. \A a \in Store!Addr : goal[a] = nv[a] BY <1>0 DEF Ends
  <2>2. Store!Found(goal)[r] = Store!Found(nv)[r] BY <2>1, FoundSame, Regions
  <2> QED BY <1>0, <2>2
<1> QED BY <1>1, <1>3, <1>5, <1>6, <1>7, <1>8, <1>9, <1>10, <1>11, <1>12 DEF StoreInv

-----------------------------------------------------------------------------
(* One step of the store.                                                  *)

LEMMA WriteFacts ==
  ASSUME NEW w \in Writes
  PROVE  /\ DOMAIN w \subseteq Store!Addr /\ DOMAIN w # {}
         /\ \A a \in DOMAIN w : w[a] \in Words
BY DEF Writes

\* Every word of a write is reached by it.
LEMMA Reached ==
  ASSUME NEW w \in Writes, NEW a \in DOMAIN w PROVE a \in Store!Reach(w)
<1>1. \E c \in Store!Chunks : a \in c
  BY WriteFacts, SMT DEF Store!Chunks, Store!Addr
<1> QED BY <1>1 DEF Store!Reach

\* The writes that are left.
LEMMA PastWrites ==
  ASSUME todo \in Seq(Writes), todo # <<>>, NEW A
  PROVE  /\ Store!Past(A) \in Seq(Writes)
         /\ DOMAIN Head(todo) \subseteq A =>
              /\ Len(Store!Past(A)) = Len(todo) - 1
              /\ \A i \in DOMAIN Store!Past(A) : i + 1 \in DOMAIN todo /\ Store!Past(A)[i] = todo[i + 1]
         /\ ~(DOMAIN Head(todo) \subseteq A) =>
              /\ Len(Store!Past(A)) = Len(todo)
              /\ Store!Past(A)[1] = [a \in DOMAIN Head(todo) \ A |-> Head(todo)[a]]
              /\ Head(Store!Past(A)) = [a \in DOMAIN Head(todo) \ A |-> Head(todo)[a]]
              /\ \A i \in DOMAIN Store!Past(A) : i > 1 => Store!Past(A)[i] = todo[i]
<1> DEFINE h == Head(todo)
<1>1. h \in Writes /\ Tail(todo) \in Seq(Writes) /\ Len(Tail(todo)) = Len(todo) - 1
      /\ \A i \in 1 .. Len(todo) - 1 : Tail(todo)[i] = todo[i + 1]
  BY SMT
<1>2. CASE DOMAIN h \subseteq A
  <2>1. Store!Past(A) = Tail(todo) BY <1>2 DEF Store!Past
  <2>2. /\ DOMAIN Tail(todo) = 1 .. Len(todo) - 1
        /\ \A i \in 1 .. Len(todo) - 1 : i + 1 \in DOMAIN todo
    BY <1>1, SMT
  <2> QED BY <1>1, <1>2, <2>1, <2>2
<1>3. CASE ~(DOMAIN h \subseteq A)
  <2> DEFINE w == [a \in DOMAIN h \ A |-> h[a]]
  <2>1. w \in Writes
    <3>1. DOMAIN h \ A # {} /\ DOMAIN h \subseteq Store!Addr BY <1>1, <1>3, WriteFacts
    <3>2. \A a \in DOMAIN h \ A : h[a] \in Words BY <1>1, WriteFacts
    <3>3. w \in [DOMAIN h \ A -> Words] BY <3>2
    <3> QED BY <3>1, <3>3 DEF Writes
  <2>2. Store!Past(A) = <<w>> \o Tail(todo) BY <1>3 DEF Store!Past
  <2> HIDE DEF w
  <2>3. /\ <<w>> \o Tail(todo) \in Seq(Writes) /\ Len(<<w>> \o Tail(todo)) = Len(todo)
        /\ (<<w>> \o Tail(todo))[1] = w
        /\ \A i \in 2 .. Len(todo) : (<<w>> \o Tail(todo))[i] = todo[i]
    BY <1>1, <2>1, SMT
  <2>4. /\ \A i \in DOMAIN Store!Past(A) : i > 1 => i \in 2 .. Len(todo)
        /\ Head(Store!Past(A)) = Store!Past(A)[1]
    BY <2>2, <2>3, SMT
  <2> QED BY <1>3, <2>2, <2>3, <2>4 DEF w
<1> QED BY <1>2, <1>3

\* Each of them is, or is what is left of, one that was there.
LEMMA PastOld ==
  ASSUME todo \in Seq(Writes), todo # <<>>, NEW A, NEW i \in DOMAIN Store!Past(A)
  PROVE  \E j \in DOMAIN todo :
           /\ DOMAIN Store!Past(A)[i] \subseteq DOMAIN todo[j]
           /\ \A a \in DOMAIN Store!Past(A)[i] : Store!Past(A)[i][a] = todo[j][a]
<1> DEFINE h == Head(todo)
           p == Store!Past(A)
<1>1. h = todo[1] /\ 1 \in DOMAIN todo BY SMT
<1>2. p \in Seq(Writes) BY PastWrites
<1>3. CASE DOMAIN h \subseteq A
  <2>1. i + 1 \in DOMAIN todo /\ p[i] = todo[i + 1] BY <1>3, PastWrites
  <2> QED BY <2>1
<1>4. CASE ~(DOMAIN h \subseteq A)
  <2>1. /\ Len(p) = Len(todo) /\ p[1] = [a \in DOMAIN h \ A |-> h[a]]
        /\ \A k \in DOMAIN p : k > 1 => p[k] = todo[k]
    BY <1>4, PastWrites
  <2> HIDE DEF p
  <2>2. i \in DOMAIN todo /\ (i = 1 \/ i > 1) BY <1>2, <2>1, SMT DEF p
  <2>3. CASE i = 1 BY <1>1, <2>1, <2>3 DEF p
  <2>4. CASE i > 1
    <3>1. p[i] = todo[i] BY <2>1, <2>4 DEF p
    <3> QED BY <2>2, <3>1 DEF p
  <2> QED BY <2>2, <2>3, <2>4
<1> QED BY <1>3, <1>4

\* They end as before, if what they start from has taken what the first of them has lost.
LEMMA PastEnds ==
  ASSUME todo \in Seq(Writes), todo # <<>>, NEW A, NEW goal, NEW m, NEW n, Ends(goal, todo, m),
         \A a \in Store!Addr :
           n[a] = IF a \in A \cap DOMAIN Head(todo) THEN Head(todo)[a] ELSE m[a]
  PROVE  Ends(goal, Store!Past(A), n)
<1> DEFINE h == Head(todo)
           p == Store!Past(A)
<1>1. h = todo[1] /\ 1 \in DOMAIN todo BY SMT
<1>2. p \in Seq(Writes) BY PastWrites
<1>3. SUFFICES ASSUME NEW a \in Store!Addr
      PROVE  /\ (\A i \in DOMAIN p : a \notin DOMAIN p[i]) => goal[a] = n[a]
             /\ \A i \in DOMAIN p :
                  a \in DOMAIN p[i] /\ (\A j \in DOMAIN p : j > i => a \notin DOMAIN p[j])
                    => goal[a] = p[i][a]
  BY DEF Ends
<1>4. /\ (\A i \in DOMAIN todo : a \notin DOMAIN todo[i]) => goal[a] = m[a]
      /\ \A i \in DOMAIN todo :
           a \in DOMAIN todo[i] /\ (\A j \in DOMAIN todo : j > i => a \notin DOMAIN todo[j])
             => goal[a] = todo[i][a]
  BY DEF Ends
<1> HIDE DEF p
<1>5. CASE DOMAIN h \subseteq A
  <2>1. /\ Len(p) = Len(todo) - 1
        /\ \A i \in DOMAIN p : i + 1 \in DOMAIN todo /\ p[i] = todo[i + 1]
    BY <1>5, PastWrites DEF p
  <2>2. \A j \in DOMAIN todo : j > 1 => j - 1 \in DOMAIN p /\ todo[j] = p[j - 1]
    <3>1. \A j \in DOMAIN todo : j > 1 => j - 1 \in DOMAIN p /\ (j - 1) + 1 = j BY <1>2, <2>1, SMT
    <3> QED BY <2>1, <3>1
  <2>3. ASSUME \A i \in DOMAIN p : a \notin DOMAIN p[i] PROVE goal[a] = n[a]
    <3>1. \A j \in DOMAIN todo : j > 1 => a \notin DOMAIN todo[j] BY <2>2, <2>3
    <3>2. CASE a \in DOMAIN h BY <1>1, <1>4, <1>5, <3>1, <3>2
    <3>3. CASE a \notin DOMAIN h
      <4>1. \A j \in DOMAIN todo : j = 1 \/ j > 1 BY SMT
      <4>2. \A j \in DOMAIN todo : a \notin DOMAIN todo[j] BY <1>1, <3>1, <3>3, <4>1
      <4> QED BY <1>4, <3>3, <4>2
    <3> QED BY <3>2, <3>3
  <2>4. ASSUME NEW i \in DOMAIN p, a \in DOMAIN p[i],
               \A j \in DOMAIN p : j > i => a \notin DOMAIN p[j]
        PROVE  goal[a] = p[i][a]
    <3>1. i + 1 \in DOMAIN todo /\ p[i] = todo[i + 1] BY <2>1
    <3>2. \A j \in DOMAIN todo : j > i + 1 => j > 1 /\ j - 1 > i BY <1>2, SMT
    <3>3. \A j \in DOMAIN todo : j > i + 1 => a \notin DOMAIN todo[j] BY <2>2, <2>4, <3>2
    <3> QED BY <1>4, <2>4, <3>1, <3>3
  <2> QED BY <2>3, <2>4
<1>6. CASE ~(DOMAIN h \subseteq A)
  <2>1. /\ Len(p) = Len(todo) /\ p[1] = [x \in DOMAIN h \ A |-> h[x]]
        /\ \A i \in DOMAIN p : i > 1 => p[i] = todo[i]
    BY <1>6, PastWrites DEF p
  <2>2. DOMAIN p = DOMAIN todo /\ \A i \in DOMAIN p : i = 1 \/ i > 1 BY <1>2, <2>1, SMT
  <2>3. ASSUME \A i \in DOMAIN p : a \notin DOMAIN p[i] PROVE goal[a] = n[a]
    <3>1. \A j \in DOMAIN todo : j > 1 => a \notin DOMAIN todo[j] BY <2>1, <2>2, <2>3
    <3>2. CASE a \in DOMAIN h
      <4>1. a \in A BY <1>1, <2>1, <2>2, <2>3, <3>2
      <4>2. goal[a] = h[a] BY <1>1, <1>4, <3>1, <3>2
      <4> QED BY <3>2, <4>1, <4>2
    <3>3. CASE a \notin DOMAIN h
      <4>1. \A j \in DOMAIN todo : a \notin DOMAIN todo[j] BY <1>1, <2>2, <3>1, <3>3
      <4> QED BY <1>4, <3>3, <4>1
    <3> QED BY <3>2, <3>3
  <2>4. ASSUME NEW i \in DOMAIN p, a \in DOMAIN p[i],
               \A j \in DOMAIN p : j > i => a \notin DOMAIN p[j]
        PROVE  goal[a] = p[i][a]
    <3>1. a \in DOMAIN todo[i] /\ p[i][a] = todo[i][a]
      <4>1. CASE i = 1 BY <1>1, <2>1, <2>4, <4>1
      <4>2. CASE i > 1 BY <2>1, <2>4, <4>2
      <4> QED BY <2>2, <4>1, <4>2
    <3>2. \A j \in DOMAIN todo : j > i => j > 1 BY <1>2, SMT
    <3>3. \A j \in DOMAIN todo : j > i => a \notin DOMAIN todo[j] BY <2>1, <2>2, <2>4, <3>2
    <3> QED BY <1>4, <2>2, <3>1, <3>3
  <2> QED BY <2>3, <2>4
<1> QED BY <1>5, <1>6

\* A step that puts the words A of the write under way into the store, and no word that it
\* does not reach.
LEMMA AdvanceKeeps ==
  ASSUME StoreInv, phase = "run", todo # <<>>, NEW A, Store!Advance(A),
         UNCHANGED shadow, gone' = FALSE,
         nv' \in [Store!Addr -> Words], Meant(job.ever, nv'),
         \A a \in Store!Addr : a \notin Store!Reach(Head(todo)) => nv'[a] = nv[a],
         \A a \in Store!Addr :
           Backing'[a] = IF a \in A \cap DOMAIN Head(todo) THEN Head(todo)[a] ELSE Backing[a],
         board = "cc35x1" => \A a \in Store!Addr :
           nv'[a] = shadow[a] \/ (todo' # <<>> /\ a \in Store!Reach(Head(todo')))
  PROVE  StoreInv'
<1>1. /\ todo' = Store!Past(A) /\ kept' = IF todo' = <<>> THEN job.new ELSE kept
      /\ UNCHANGED <<board, ram, job, phase, ops, cuts>>
  BY DEF Store!Advance
<1>2. todo \in Seq(Writes) /\ 1 \in DOMAIN todo /\ Head(todo) = todo[1]
  <2>1. todo \in Seq(Writes) BY DEF StoreInv, StoreTyped
  <2> QED BY <2>1, SMT
<1>3. todo' \in Seq(Writes) BY <1>1, <1>2, PastWrites
<1>4. \A w : Store!Reach(w)' = Store!Reach(w) BY <1>1 DEF Store!Reach
<1>5. ASSUME NEW i \in DOMAIN todo'
      PROVE  \E j \in DOMAIN todo :
               /\ DOMAIN todo'[i] \subseteq DOMAIN todo[j]
               /\ \A a \in DOMAIN todo'[i] : todo'[i][a] = todo[j][a]
  BY <1>1, <1>2, PastOld
<1>6. StoreTyped'
  BY <1>1, <1>3 DEF StoreInv, StoreTyped
<1>7. Sensible' BY <1>1 DEF StoreInv, Sensible
<1>8. AllMeant'
  <2>1. ASSUME NEW i \in DOMAIN todo' PROVE Meant(job.ever, todo'[i])
    BY <1>5 DEF StoreInv, AllMeant, Meant
  <2> QED BY <1>1, <2>1 DEF StoreInv, AllMeant
<1>9. Confined'
  <2> SUFFICES ASSUME NEW i \in DOMAIN todo', NEW r \in Store!Records,
                      Store!Reach(todo'[i]) \cap Store!Region(r) # {}
               PROVE  r \in job.risk
    BY <1>1, <1>4 DEF Confined, Store!Reach
  <2>1. PICK j \in DOMAIN todo : DOMAIN todo'[i] \subseteq DOMAIN todo[j] BY <1>5
  <2>2. Store!Reach(todo'[i]) \subseteq Store!Reach(todo[j]) BY <2>1 DEF Store!Reach
  <2> QED BY <2>2 DEF StoreInv, Confined
<1>10. Mirrored' BY <1>1 DEF Mirrored, Store!Reach
<1>11. PICK goal : Promised(goal) BY DEF StoreInv
<1>12. Ends(goal, todo', Backing')
  <2> DEFINE n == Backing'
  <2>1. \A a \in Store!Addr :
          n[a] = IF a \in A \cap DOMAIN Head(todo) THEN Head(todo)[a] ELSE Backing[a]
    OBVIOUS
  <2> HIDE DEF n
  <2>2. Ends(goal, todo, Backing) BY <1>11 DEF Promised
  <2>3. Ends(goal, Store!Past(A), n) BY <1>2, <2>1, <2>2, PastEnds
  <2> QED BY <1>1, <2>3 DEF n
<1>13. Promised(goal)' BY <1>1, <1>11, <1>12 DEF Promised
<1>14. ASSUME NEW r \in Store!Records, todo' = <<>> PROVE Store!Found(nv')[r] = kept'[r]
  <2>1. \A a \in Store!Addr : goal[a] = Backing'[a] BY <1>12, <1>14 DEF Ends
  <2>2. \A a \in Store!Addr : Backing'[a] = nv'[a] BY <1>1, <1>14 DEF Backing
  <2>3. Store!Found(goal)[r] = Store!Found(nv')[r] BY <2>1, <2>2, FoundSame, Regions
  <2> QED BY <1>1, <1>11, <1>14, <2>3 DEF Promised
<1>15. ASSUME NEW r \in Store!Records, todo' # <<>>, r \notin job.risk
       PROVE  Store!Found(nv')[r] = kept'[r]
  <2>1. Store!Reach(Head(todo)) \cap Store!Region(r) = {}
    BY <1>2, <1>15 DEF StoreInv, Confined
  <2>2. \A a \in Store!Region(r) : nv'[a] = nv[a] BY <2>1, Regions
  <2>3. Store!Found(nv')[r] = Store!Found(nv)[r] BY <2>2, FoundSame
  <2> QED BY <1>1, <1>15, <2>3 DEF StoreInv, Intact
<1>16. Intact' BY <1>1, <1>14, <1>15 DEF Intact, Store!Found
<1>17. (todo = <<>> => \A r \in Store!Records : kept[r] = job.new[r])' BY <1>1
<1> QED BY <1>6, <1>7, <1>8, <1>9, <1>10, <1>13, <1>16, <1>17 DEF StoreInv

LEMMA HeadFacts ==
  ASSUME StoreInv, todo # <<>>
  PROVE  /\ Head(todo) \in Writes /\ Meant(job.ever, Head(todo))
         /\ DOMAIN Head(todo) \subseteq Store!Addr
         /\ \A a \in DOMAIN Head(todo) : a \in Store!Reach(Head(todo))
<1>1. todo \in Seq(Writes) BY DEF StoreInv, StoreTyped
<1>2. Head(todo) = todo[1] /\ 1 \in DOMAIN todo /\ Head(todo) \in Writes BY <1>1, SMT
<1>3. Meant(job.ever, Head(todo)) BY <1>2 DEF StoreInv, AllMeant
<1> QED BY <1>2, <1>3, WriteFacts, Reached

LEMMA ProgramWordKeeps == ASSUME StoreInv, Store!ProgramWord PROVE StoreInv'
<1> DEFINE h == Head(todo)
<1>1. phase = "run" /\ todo # <<>> /\ board = "tm4c" BY DEF Store!ProgramWord, Store!Writing
<1>2. h \in Writes /\ Meant(job.ever, h) /\ DOMAIN h \subseteq Store!Addr
      /\ \A a \in DOMAIN h : a \in Store!Reach(h)
  BY <1>1, HeadFacts
<1>3. PICK a \in DOMAIN h : nv' = [nv EXCEPT ![a] = h[a]] /\ Store!Advance({a})
  BY DEF Store!ProgramWord
<1>4. UNCHANGED shadow /\ UNCHANGED gone BY DEF Store!ProgramWord
<1>5. gone' = FALSE BY <1>1, <1>4 DEF StoreInv, Mirrored, StoreTyped
<1>6. nv \in [Store!Addr -> Words] /\ Meant(job.ever, nv)
  BY DEF StoreInv, StoreTyped, AllMeant
<1>7. h[a] \in Words BY <1>2, <1>3, WriteFacts
<1>8. nv' \in [Store!Addr -> Words] BY <1>2, <1>3, <1>6, <1>7
<1>9. \A x \in Store!Addr : nv'[x] = IF x = a THEN h[a] ELSE nv[x] BY <1>2, <1>3, <1>6
<1>10. Meant(job.ever, nv') BY <1>2, <1>3, <1>6, <1>8, <1>9 DEF Meant
<1>11. board' = "tm4c" BY <1>1, <1>3 DEF Store!Advance
<1>12. Backing = nv /\ Backing' = nv' BY <1>1, <1>11 DEF Backing
<1>13. \A x \in Store!Addr :
         Backing'[x] = IF x \in {a} \cap DOMAIN h THEN h[x] ELSE Backing[x]
  BY <1>3, <1>9, <1>12
<1>14. \A x \in Store!Addr : x \notin Store!Reach(h) => nv'[x] = nv[x] BY <1>2, <1>3, <1>9
<1> QED BY <1>1, <1>3, <1>4, <1>5, <1>8, <1>10, <1>13, <1>14, AdvanceKeeps

LEMMA WriteChunkKeeps == ASSUME StoreInv, Store!WriteChunk PROVE StoreInv'
<1> DEFINE h == Head(todo)
<1>1. phase = "run" /\ todo # <<>> /\ board = "cc35x1" /\ gone
  BY DEF Store!WriteChunk, Store!Writing
<1>2. h \in Writes /\ Meant(job.ever, h) /\ DOMAIN h \subseteq Store!Addr
      /\ \A a \in DOMAIN h : a \in Store!Reach(h)
  BY <1>1, HeadFacts
<1>3. PICK c \in Store!Chunks :
        /\ Store!First(c) /\ Store!Advance(c)
        /\ nv' = [a \in Store!Addr |-> IF a \in c THEN shadow[a] ELSE nv[a]]
  BY DEF Store!WriteChunk
<1>4. UNCHANGED shadow /\ gone' = FALSE BY DEF Store!WriteChunk
<1>5. /\ nv \in [Store!Addr -> Words] /\ Meant(job.ever, nv)
      /\ shadow \in [Store!Addr -> Words] /\ Meant(job.ever, shadow)
  BY DEF StoreInv, StoreTyped, AllMeant
<1>6. c \cap DOMAIN h # {} BY <1>3 DEF Store!First
<1>7. nv' \in [Store!Addr -> Words] BY <1>3, <1>5
<1>8. Meant(job.ever, nv') BY <1>3, <1>5, <1>7 DEF Meant
<1>9. Store!Reach(h) = UNION {d \in Store!Chunks : d \cap DOMAIN h # {}}
  BY <1>1 DEF Store!Reach
<1>10. c \subseteq Store!Reach(h) BY <1>6, <1>9
<1>11. \A a \in Store!Addr : a \notin Store!Reach(h) => nv'[a] = nv[a] BY <1>3, <1>10
<1>12. /\ \A a \in DOMAIN h : shadow[a] = h[a]
       /\ \A a \in Store!Addr : nv[a] = shadow[a] \/ a \in Store!Reach(h)
  BY <1>1 DEF StoreInv, Mirrored
<1>13. board' = "cc35x1" /\ todo' = Store!Past(c) BY <1>1, <1>3 DEF Store!Advance
<1>14. Backing = shadow /\ Backing' = shadow BY <1>1, <1>4, <1>13 DEF Backing
<1>15. \A a \in Store!Addr :
         Backing'[a] = IF a \in c \cap DOMAIN h THEN h[a] ELSE Backing[a]
  BY <1>12, <1>14
<1>16. ASSUME NEW a \in Store!Addr
       PROVE  nv'[a] = shadow[a] \/ (todo' # <<>> /\ a \in Store!Reach(Head(todo')))
  <2>1. CASE a \in c BY <1>3, <2>1
  <2>2. CASE a \notin c /\ nv[a] = shadow[a] BY <1>3, <2>2
  <2>3. CASE a \notin c /\ a \in Store!Reach(h)
    <3>1. PICK d \in Store!Chunks : a \in d /\ d \cap DOMAIN h # {} BY <1>9, <2>3
    <3>2. d \cap c = {} BY <2>3, <3>1, SMT DEF Store!Chunks
    <3>3. ~(DOMAIN h \subseteq c) BY <3>1, <3>2
    <3>4. todo \in Seq(Writes) BY DEF StoreInv, StoreTyped
    <3>5. /\ Len(todo') = Len(todo) /\ Head(todo') = [x \in DOMAIN h \ c |-> h[x]]
          /\ todo' \in Seq(Writes)
      BY <1>1, <1>13, <3>3, <3>4, PastWrites
    <3>6. todo' # <<>> BY <1>1, <3>4, <3>5, SMT
    <3>7. d \cap DOMAIN Head(todo') # {} BY <3>1, <3>2, <3>5
    <3> QED BY <1>1, <3>1, <3>6, <3>7 DEF Store!Reach
  <2> QED BY <1>12, <2>1, <2>2, <2>3
<1> QED BY <1>1, <1>3, <1>4, <1>7, <1>8, <1>11, <1>15, <1>16, AdvanceKeeps

LEMMA DeleteKeeps == ASSUME StoreInv, Store!DeleteChunk PROVE StoreInv'
<1> DEFINE h == Head(todo)
<1>1. /\ phase = "run" /\ todo # <<>> /\ board = "cc35x1"
      /\ gone' = TRUE /\ shadow' = Store!Over(h, shadow)
      /\ UNCHANGED <<board, ram, todo, job, kept, phase, ops, cuts>>
  BY DEF Store!DeleteChunk, Store!Writing
<1>2. h \in Writes /\ Meant(job.ever, h) /\ DOMAIN h \subseteq Store!Addr
      /\ \A a \in DOMAIN h : a \in Store!Reach(h)
  BY <1>1, HeadFacts
<1>3. PICK c \in Store!Chunks :
        Store!First(c) /\ nv' = [a \in Store!Addr |-> IF a \in c THEN Store!Zero ELSE nv[a]]
  BY DEF Store!DeleteChunk
<1>4. /\ nv \in [Store!Addr -> Words] /\ Meant(job.ever, nv)
      /\ shadow \in [Store!Addr -> Words] /\ Meant(job.ever, shadow)
      /\ todo \in Seq(Writes)
  BY DEF StoreInv, StoreTyped, AllMeant
<1>5. todo[1] = h /\ 1 \in DOMAIN todo BY <1>1, <1>4, SMT
<1>6. Store!Zero \in Words BY WordFacts DEF Words
<1>7. nv' \in [Store!Addr -> Words] BY <1>3, <1>4, <1>6
<1>8. shadow' \in [Store!Addr -> Words] BY <1>1, <1>2, <1>4, WriteFacts DEF Store!Over
<1>9. Meant(job.ever, shadow') BY <1>1, <1>2, <1>4, MeantOver
<1>10. Meant(job.ever, nv') BY <1>3, <1>4, <1>7, WordFacts, MeantPlain DEF Meant
<1>11. c \subseteq Store!Reach(h) BY <1>1, <1>3 DEF Store!Reach, Store!First
<1>12. \A w : Store!Reach(w)' = Store!Reach(w) BY <1>1 DEF Store!Reach
<1>13. StoreTyped' BY <1>1, <1>7, <1>8 DEF StoreInv, StoreTyped
<1>14. Sensible' BY <1>1 DEF StoreInv, Sensible
<1>15. AllMeant' BY <1>1, <1>9, <1>10 DEF StoreInv, AllMeant
<1>16. Confined' BY <1>1 DEF StoreInv, Confined, Store!Reach
<1>17. Intact'
  <2> SUFFICES ASSUME NEW r \in Store!Records, r \notin job.risk
               PROVE  Store!Found(nv')[r] = kept[r]
    BY <1>1 DEF Intact, Store!Found
  <2>1. Store!Reach(h) \cap Store!Region(r) = {} BY <1>5 DEF StoreInv, Confined
  <2>2. \A a \in Store!Region(r) : nv'[a] = nv[a] BY <1>3, <1>11, <2>1, Regions
  <2>3. Store!Found(nv')[r] = Store!Found(nv)[r] BY <2>2, FoundSame
  <2> QED BY <2>3 DEF StoreInv, Intact
<1>18. Mirrored'
  <2>1. \A a \in DOMAIN h : shadow'[a] = h[a] BY <1>1, <1>2 DEF Store!Over
  <2>2. ASSUME NEW a \in Store!Addr PROVE nv'[a] = shadow'[a] \/ a \in Store!Reach(h)
    <3>1. nv[a] = shadow[a] \/ a \in Store!Reach(h) BY <1>1 DEF StoreInv, Mirrored
    <3>2. a \notin DOMAIN h => shadow'[a] = shadow[a] BY <1>1 DEF Store!Over
    <3> QED BY <1>2, <1>3, <1>11, <3>1, <3>2
  <2> QED BY <1>1, <1>12, <2>1, <2>2 DEF Mirrored, Store!Reach
<1>19. PICK goal : Promised(goal) BY <1>1 DEF StoreInv
<1>20. Ends(goal, todo, shadow')
  <2>1. Ends(goal, todo, shadow) BY <1>1, <1>19 DEF Promised, Backing
  <2>2. \A a \in Store!Addr : (\A i \in DOMAIN todo : a \notin DOMAIN todo[i])
                                => shadow'[a] = shadow[a]
    BY <1>1, <1>5 DEF Store!Over
  <2> QED BY <2>1, <2>2 DEF Ends
<1>21. Promised(goal)' BY <1>1, <1>19, <1>20 DEF Promised, Backing
<1> QED BY <1>1, <1>13, <1>14, <1>15, <1>16, <1>17, <1>18, <1>21 DEF StoreInv

-----------------------------------------------------------------------------
(* The handlers, and the boot.                                             *)

\* A call, from rest.
LEMMA CallKeeps ==
  ASSUME StoreInv, Store!Ready, Store!Called,
         NEW recs, NEW ws, NEW new, NEW goal, Begins(recs, ws, new, goal)
  PROVE  StoreInv'
<1>1. phase = "run" /\ todo = <<>> /\ ops > 0 BY DEF Store!Ready
<1>2. ops' = ops - 1 /\ UNCHANGED <<board, nv, shadow, gone, kept, phase, cuts>>
  BY DEF Store!Called
<1>3. /\ gone \in BOOLEAN /\ shadow \in [Store!Addr -> Words] /\ Meant(job.ever, shadow)
      /\ DOMAIN kept = Store!Records /\ ops \in 0 .. MaxOps /\ cuts \in 0 .. MaxCuts
      /\ \A r \in Store!Records : kept[r] \in job.ever[r]
  BY DEF StoreInv, StoreTyped, AllMeant, Sensible
<1>4. ops' \in 0 .. MaxOps /\ cuts' \in 0 .. MaxCuts BY <1>1, <1>2, <1>3, RecordAssumption, SMT
<1>5. /\ ~gone /\ (board = "cc35x1" => \A a \in Store!Addr : nv[a] = shadow[a])
      /\ \A r \in Store!Records : Store!Found(nv)[r] = kept[r]
  BY <1>1, Rested
<1>6. gone' = FALSE BY <1>2, <1>3, <1>5
<1>7. /\ board' = board /\ nv' = nv /\ phase' = "run" /\ DOMAIN kept' = Store!Records
      /\ shadow' \in [Store!Addr -> Words] /\ Meant(job.ever, shadow')
      /\ board = "cc35x1" => \A a \in Store!Addr : shadow'[a] = nv[a]
      /\ \A r \in Store!Records : Store!Found(nv)[r] = kept'[r] /\ kept'[r] \in job.ever[r]
  BY <1>1, <1>2, <1>3, <1>5
<1> QED BY <1>4, <1>6, <1>7, StartKeeps

\* One record, written whole.
LEMMA SaveKeeps ==
  ASSUME StoreInv, Store!Ready, NEW r \in Store!Records, NEW f \in Store!Contents[r],
         Store!Save(r, f)
  PROVE  StoreInv'
<1> DEFINE w == Store!Whole(r, f)
           new == [kept EXCEPT ![r] = f]
           goal == Store!Over(w, nv)
<1>1. phase = "run" /\ todo = <<>> BY DEF Store!Ready
<1>2. /\ ram' = [ram EXCEPT ![r] = f] /\ Store!Start({r}, <<w>>, new) /\ Store!Called
  BY DEF Store!Save
<1>3. /\ nv \in [Store!Addr -> Words]
      /\ DOMAIN ram = Store!Records /\ DOMAIN kept = Store!Records
      /\ \A q \in Store!Records : /\ ram[q] \in Store!Contents[q]
                                  /\ kept[q] \in job.ever[q] /\ job.ever[q] \subseteq Store!Contents[q]
  BY DEF StoreInv, StoreTyped, Sensible
<1>4. /\ \A q \in Store!Records : Store!Found(nv)[q] = kept[q]
      /\ Store!Fields(nv, "names") = ram["names"]
  BY <1>1, Rested
<1>5. /\ new[r] = f /\ DOMAIN new = Store!Records
      /\ \A q \in Store!Records : q # r => new[q] = kept[q]
  BY <1>3
<1> HIDE DEF new
<1>6. f \in Grown(new)[r] BY <1>5 DEF Grown
<1>7. w \in Writes /\ DOMAIN w = Store!Region(r) /\ Meant(Grown(new), w) BY <1>6, WholeMeant
<1> HIDE DEF w
<1>8. <<w>> \in Seq(Writes) /\ DOMAIN <<w>> = {1} /\ <<w>>[1] = w BY <1>7
<1>9. goal \in [Store!Addr -> Words] BY <1>3, <1>7, WriteFacts DEF Store!Over
<1>10. \A a \in Store!Addr : goal[a] = IF a \in Store!Region(r) THEN w[a] ELSE nv[a]
  BY <1>7 DEF Store!Over
<1> HIDE DEF goal
<1>11. Ends(goal, <<w>>, nv) BY <1>7, <1>8, <1>9, <1>10 DEF Ends
<1>12. Store!Found(goal)[r] = f /\ Store!Fields(goal, r) = f
  BY <1>10, FoundWhole, Regions DEF w
<1>13. ASSUME NEW q \in Store!Records, q # r
       PROVE  Store!Found(goal)[q] = kept[q] /\ Store!Fields(goal, q) = Store!Fields(nv, q)
  <2>1. \A a \in Store!Region(q) : goal[a] = nv[a] BY <1>10, <1>13, Regions, RegionsApart
  <2> QED BY <1>4, <2>1, FoundSame, FieldsOf
<1>14. "names" \in Store!Records BY DEF Store!Records
<1>15. Store!Fields(goal, "names") = ram'["names"] BY <1>2, <1>3, <1>4, <1>12, <1>13, <1>14
<1>16. \A q \in Store!Records : Store!Found(goal)[q] = new[q] BY <1>5, <1>12, <1>13
<1>17. \A q \in Store!Records : new[q] \in Store!Contents[q] /\ ram'[q] \in Store!Contents[q]
  BY <1>2, <1>3, <1>5
<1>18. DOMAIN ram' = Store!Records /\ {r} \subseteq Store!Records BY <1>2, <1>3
<1>19. Begins({r}, <<w>>, new, goal)
  BY <1>2, <1>5, <1>7, <1>8, <1>11, <1>15, <1>16, <1>17, <1>18 DEF Begins
<1> QED BY <1>2, <1>19, CallKeeps

LEMMA ConfigSaveKeeps == ASSUME StoreInv, Store!ConfigSave PROVE StoreInv'
<1>1. PICK v \in Values : Store!Ready /\ Store!Save("mqtt", <<Store!Word(v)>>)
  BY DEF Store!ConfigSave
<1>2. "mqtt" \in Store!Records BY DEF Store!Records
<1>3. <<Store!Word(v)>> \in Store!Contents["mqtt"] BY DEF Store!Contents, Store!Setting
<1> QED BY <1>1, <1>2, <1>3, SaveKeeps

LEMMA OutputSaveKeeps == ASSUME StoreInv, Store!ConfigOutputSave PROVE StoreInv'
<1>1. PICK m \in {1, 2}, p \in Values \cup {Store!SamePair} :
        /\ Store!Ready
        /\ Store!Save("out", <<Store!Word(Store!Mode(m)), Store!Word(Store!Pair(p)), ram["out"][3]>>)
  BY DEF Store!ConfigOutputSave
<1>2. "out" \in Store!Records BY DEF Store!Records
<1>3. ram["out"][3] = Store!Zero BY <1>2, ContentsLists DEF StoreInv, StoreTyped
<1>4. Store!Word(Store!Mode(m)) \in {Store!Zero, Store!Word(1)} BY SMT DEF Store!Mode, Store!Zero
<1>5. Store!Pair(p) \in Values \cup {Store!SamePair, Store!NoPair} BY DEF Store!Pair
<1>6. <<Store!Word(Store!Mode(m)), Store!Word(Store!Pair(p)), ram["out"][3]>> \in Store!Contents["out"]
  BY <1>3, <1>4, <1>5 DEF Store!Contents
<1> QED BY <1>1, <1>2, <1>6, SaveKeeps

\* A write of one word.
LEMMA OneWrite ==
  ASSUME NEW a \in Store!Addr, NEW x \in Words
  PROVE  Store!One(a, x) \in Writes
<1>1. Store!One(a, x) \in [{a} -> Words] BY DEF Store!One
<1> QED BY <1>1 DEF Writes

\* A reset erases every record.
LEMMA FactoryResetKeeps == ASSUME StoreInv, Store!FactoryReset PROVE StoreInv'
<1> DEFINE ws == <<Store!One(Store!Base["mqtt"], Store!Zero), Store!One(Store!Base["names"], Store!Zero),
                   Store!One(Store!Base["out"], Store!Zero)>>
           goal == [a \in Store!Addr |-> IF a \in {0, 3, 7} THEN Store!Zero ELSE nv[a]]
           new == Store!Default
<1>1. Store!Ready /\ Store!Start(Store!Records, ws, new) /\ Store!Called /\ UNCHANGED ram
  BY DEF Store!FactoryReset
<1>2. /\ nv \in [Store!Addr -> Words] /\ DOMAIN ram = Store!Records
      /\ \A r \in Store!Records : /\ ram[r] \in Store!Contents[r]
                                  /\ Store!Default[r] \in Store!Contents[r]
  BY DEF StoreInv, StoreTyped, Sensible
<1>3. Store!Fields(nv, "names") = ram["names"] BY <1>1, Rested DEF Store!Ready
<1>4. Store!Zero \in Words BY WordFacts DEF Words
<1>5. 0 \in Store!Addr /\ 3 \in Store!Addr /\ 7 \in Store!Addr BY SMT DEF Store!Addr
<1>6. ws = <<Store!One(0, Store!Zero), Store!One(3, Store!Zero), Store!One(7, Store!Zero)>>
  BY StoreLayout
<1> HIDE DEF ws
<1>7. /\ ws \in Seq(Writes) /\ DOMAIN ws = {1, 2, 3}
      /\ ws[1] = Store!One(0, Store!Zero) /\ ws[2] = Store!One(3, Store!Zero)
      /\ ws[3] = Store!One(7, Store!Zero)
  <2>1. Store!One(0, Store!Zero) \in Writes BY <1>4, <1>5, OneWrite
  <2>2. Store!One(3, Store!Zero) \in Writes BY <1>4, <1>5, OneWrite
  <2>3. Store!One(7, Store!Zero) \in Writes BY <1>4, <1>5, OneWrite
  <2> QED BY <1>6, <2>1, <2>2, <2>3
<1>8. /\ DOMAIN ws[1] = {0} /\ DOMAIN ws[2] = {3} /\ DOMAIN ws[3] = {7}
      /\ ws[1][0] = Store!Zero /\ ws[2][3] = Store!Zero /\ ws[3][7] = Store!Zero
  BY <1>7 DEF Store!One
<1>9. \A i \in DOMAIN ws : Meant(Grown(new), ws[i])
  BY <1>7, <1>8, WordFacts, MeantPlain DEF Meant
<1>10. goal \in [Store!Addr -> Words] BY <1>2, <1>4
<1>11. \A a \in Store!Addr : goal[a] = IF a \in {0, 3, 7} THEN Store!Zero ELSE nv[a] OBVIOUS
<1> HIDE DEF goal
<1>12. \A a \in Store!Addr :
         /\ (\A i \in DOMAIN ws : a \notin DOMAIN ws[i]) => goal[a] = nv[a]
         /\ \A i \in DOMAIN ws : a \in DOMAIN ws[i] => goal[a] = ws[i][a]
  BY <1>7, <1>8, <1>11
<1>13. Ends(goal, ws, nv) BY <1>10, <1>12 DEF Ends
<1>14. \A r \in Store!Records : Store!Base[r] \in {0, 3, 7} /\ Store!Base[r] \in Store!Addr
  BY <1>5, StoreLayout DEF Store!Records
<1>15. \A r \in Store!Records : Store!Found(goal)[r] = new[r] BY <1>11, <1>14, WordFacts, FoundErased
<1>16. Store!Fields(goal, "names") = Store!Fields(nv, "names")
  <2>1. goal[Store!Base["names"] + 1] = nv[Store!Base["names"] + 1]
        /\ goal[Store!Base["names"] + 2] = nv[Store!Base["names"] + 2]
    BY <1>11, StoreLayout, SMT DEF Store!Addr
  <2>2. \A i \in 1 .. Store!Size["names"] :
          goal[Store!Base["names"] + i] = nv[Store!Base["names"] + i]
    BY <2>1, StoreLayout, SMT
  <2> QED BY <2>2 DEF Store!Fields
<1>17. DOMAIN new = Store!Records BY DEF Store!Default, Store!Records
<1> HIDE DEF new
<1>18. Begins(Store!Records, ws, new, goal)
  BY <1>1, <1>2, <1>3, <1>7, <1>9, <1>13, <1>15, <1>16, <1>17 DEF Begins, new
<1> QED BY <1>1, <1>18, CallKeeps

LEMMA NameSetKeeps == ASSUME StoreInv, Store!ConfigNameSet PROVE StoreInv'
<1>1. PICK i \in 1 .. 2, v \in Values :
        LET g == [ram["names"] EXCEPT ![i] = Store!Word(v)]
        IN /\ ram' = [ram EXCEPT !["names"] = g]
           /\ Store!Start({"names"},
                <<Store!One(Store!Base["names"], Store!Magic),
                  Store!One(Store!Base["names"] + i, Store!Word(v)),
                  Store!One(Store!CrcAt("names"), Store!Crc(g))>>, [kept EXCEPT !["names"] = g])
           /\ Store!Called
  BY DEF Store!ConfigNameSet
<1> DEFINE f == [ram["names"] EXCEPT ![i] = Store!Word(v)]
           ws == <<Store!One(Store!Base["names"], Store!Magic),
                   Store!One(Store!Base["names"] + i, Store!Word(v)),
                   Store!One(Store!CrcAt("names"), Store!Crc(f))>>
           new == [kept EXCEPT !["names"] = f]
           goal == [a \in Store!Addr |-> IF a = 3 THEN Store!Magic ELSE IF a = 3 + i THEN Store!Word(v)
                                         ELSE IF a = 6 THEN Store!Crc(f) ELSE nv[a]]
<1>2. /\ Store!Ready /\ Store!Called
      /\ ram' = [ram EXCEPT !["names"] = f] /\ Store!Start({"names"}, ws, new)
  BY <1>1 DEF Store!ConfigNameSet
<1>3. /\ nv \in [Store!Addr -> Words]
      /\ DOMAIN ram = Store!Records /\ DOMAIN kept = Store!Records
      /\ \A r \in Store!Records : /\ ram[r] \in Store!Contents[r]
                                  /\ kept[r] \in job.ever[r] /\ job.ever[r] \subseteq Store!Contents[r]
  BY DEF StoreInv, StoreTyped, Sensible
<1>4. /\ \A r \in Store!Records : Store!Found(nv)[r] = kept[r]
      /\ Store!Fields(nv, "names") = ram["names"]
  BY <1>2, Rested DEF Store!Ready
<1>5. "names" \in Store!Records BY DEF Store!Records
<1>6. f \in Store!Contents["names"]
  <2>0. ram["names"] \in Store!Contents["names"] BY <1>3, <1>5
  <2>1. PICK x \in Store!Setting, y \in Store!Setting : ram["names"] = <<x, y>>
    BY <2>0 DEF Store!Contents
  <2>2. Store!Word(v) \in Store!Setting BY DEF Store!Setting
  <2>3. f = <<Store!Word(v), y>> \/ f = <<x, Store!Word(v)>> BY <2>1
  <2> QED BY <2>2, <2>3 DEF Store!Contents
<1>7. /\ f[i] = Store!Word(v) /\ \A j \in 1 .. 2 : j # i => f[j] = nv[3 + j]
  <2>1. ram["names"] = [j \in 1 .. 2 |-> nv[3 + j]] BY <1>4, StoreLayout DEF Store!Fields
  <2> QED BY <2>1
<1> HIDE DEF f
<1>8. /\ new["names"] = f /\ DOMAIN new = Store!Records
      /\ \A r \in Store!Records : r # "names" => new[r] = kept[r]
  BY <1>3, <1>5
<1> HIDE DEF new
<1>9. /\ Store!Magic \in Plain /\ Store!Word(v) \in Plain /\ Store!Crc(f) \in Words /\ Plain \subseteq Words
  BY <1>5, <1>6, ContentsLists, WordFacts DEF Plain, Words
<1>10. /\ 3 \in Store!Addr /\ 3 + i \in Store!Addr /\ 6 \in Store!Addr
       /\ 3 # 3 + i /\ 3 # 6 /\ 3 + i # 6 /\ 3 + i # 10
  BY SMT DEF Store!Addr
<1>11. ws = <<Store!One(3, Store!Magic), Store!One(3 + i, Store!Word(v)), Store!One(6, Store!Crc(f))>>
  BY StoreLayout
<1> HIDE DEF ws
<1>12. /\ ws \in Seq(Writes) /\ DOMAIN ws = {1, 2, 3}
       /\ ws[1] = Store!One(3, Store!Magic) /\ ws[2] = Store!One(3 + i, Store!Word(v))
       /\ ws[3] = Store!One(6, Store!Crc(f))
  <2>1. Store!One(3, Store!Magic) \in Writes BY <1>9, <1>10, OneWrite
  <2>2. Store!One(3 + i, Store!Word(v)) \in Writes BY <1>9, <1>10, OneWrite
  <2>3. Store!One(6, Store!Crc(f)) \in Writes BY <1>9, <1>10, OneWrite
  <2> QED BY <1>11, <2>1, <2>2, <2>3
<1>13. /\ DOMAIN ws[1] = {3} /\ DOMAIN ws[2] = {3 + i} /\ DOMAIN ws[3] = {6}
       /\ ws[1][3] = Store!Magic /\ ws[2][3 + i] = Store!Word(v) /\ ws[3][6] = Store!Crc(f)
  BY <1>12 DEF Store!One
<1>14. MeantAt(Grown(new), 6, Store!Crc(f))
  <2>1. f \in Grown(new)["names"] BY <1>5, <1>8 DEF Grown
  <2>2. \A r \in Store!Records : 6 = Store!CrcAt(r) => r = "names"
    BY StoreLayout, SMT DEF Store!Records
  <2>3. Store!Crc(f).of = {f} BY DEF Store!Crc
  <2> QED BY <2>1, <2>2, <2>3 DEF MeantAt
<1>15. \A k \in DOMAIN ws : Meant(Grown(new), ws[k])
  BY <1>9, <1>12, <1>13, <1>14, MeantPlain DEF Meant
<1>16. goal \in [Store!Addr -> Words] BY <1>3, <1>9
<1>17. \A a \in Store!Addr :
         goal[a] = IF a = 3 THEN Store!Magic ELSE IF a = 3 + i THEN Store!Word(v)
                   ELSE IF a = 6 THEN Store!Crc(f) ELSE nv[a]
  OBVIOUS
<1> HIDE DEF goal
<1>18. \A a \in Store!Addr :
         /\ (\A k \in DOMAIN ws : a \notin DOMAIN ws[k]) => goal[a] = nv[a]
         /\ \A k \in DOMAIN ws : a \in DOMAIN ws[k] => goal[a] = ws[k][a]
  BY <1>10, <1>12, <1>13, <1>17
<1>19. Ends(goal, ws, nv) BY <1>16, <1>18 DEF Ends
<1>20. \A a \in Store!Region("names") : goal[a] = Store!Whole("names", f)[a]
  <2> SUFFICES ASSUME NEW a \in Store!Region("names") PROVE goal[a] = Store!Whole("names", f)[a]
    OBVIOUS
  <2>1. a \in Store!Addr /\ a \in 3 .. 6 BY <1>5, Regions, StoreLayout
  <2>2. Store!Whole("names", f)[a] =
          IF a = 3 THEN Store!Magic ELSE IF a = 6 THEN Store!Crc(f) ELSE f[a - 3]
    BY StoreLayout DEF Store!Whole
  <2>3. CASE a = 3 \/ a = 6 BY <1>10, <1>17, <2>1, <2>2, <2>3
  <2>4. CASE a # 3 /\ a # 6
    <3>1. a - 3 \in 1 .. 2 /\ 3 + (a - 3) = a /\ (a = 3 + i <=> a - 3 = i) BY <2>1, <2>4, SMT
    <3>2. f[a - 3] = IF a - 3 = i THEN Store!Word(v) ELSE nv[a] BY <1>7, <3>1
    <3> QED BY <1>17, <2>1, <2>2, <2>4, <3>1, <3>2
  <2> QED BY <2>3, <2>4
<1>21. Store!Found(goal)["names"] = f /\ Store!Fields(goal, "names") = f
  BY <1>5, <1>6, <1>20, FoundWhole
<1>22. ASSUME NEW r \in Store!Records, r # "names" PROVE Store!Found(goal)[r] = kept[r]
  <2>1. Store!Region(r) \cap Store!Region("names") = {} BY <1>5, <1>22, RegionsApart
  <2>2. 3 \in Store!Region("names") /\ 3 + i \in Store!Region("names") /\ 6 \in Store!Region("names")
    BY StoreLayout, SMT
  <2>3. \A a \in Store!Region(r) : goal[a] = nv[a] BY <1>17, <2>1, <2>2, Regions
  <2> QED BY <1>4, <2>3, FoundSame
<1>23. \A r \in Store!Records : Store!Found(goal)[r] = new[r] BY <1>8, <1>21, <1>22
<1>24. \A r \in Store!Records : new[r] \in Store!Contents[r] /\ ram'[r] \in Store!Contents[r]
  BY <1>2, <1>3, <1>6, <1>8
<1>25. DOMAIN ram' = Store!Records /\ ram'["names"] = f /\ {"names"} \subseteq Store!Records
  BY <1>2, <1>3, <1>5
<1>26. Begins({"names"}, ws, new, goal)
  BY <1>2, <1>8, <1>12, <1>15, <1>19, <1>21, <1>23, <1>24, <1>25 DEF Begins
<1> QED BY <1>2, <1>26, CallKeeps

LEMMA Joined ==
  ASSUME NEW S, NEW n \in S, NEW o \in S, NEW s, s = <<n>> \o <<o>>
  PROVE  s \in Seq(S) /\ DOMAIN s = {1, 2} /\ s[1] = n /\ s[2] = o
<1>1. <<n>> \in Seq(S) /\ <<o>> \in Seq(S) /\ Len(<<n>>) = 1 /\ Len(<<o>>) = 1 OBVIOUS
<1>2. s \in Seq(S) /\ Len(s) = 2 BY <1>1, ConcatProperties, SMT
<1>3. s[1] = n /\ s[2] = o BY <1>1, SMT
<1>4. DOMAIN s = {1, 2} BY <1>2, SMT
<1> QED BY <1>2, <1>3, <1>4

\* A boot writes back the records that are not valid, as it has found them.
LEMMA RecordsBoot == ASSUME StoreInv, Store!Boot PROVE StoreInv'
<1> DEFINE n == Store!Whole("names", Store!Loaded["names"])
           o == Store!Whole("out", Store!Loaded["out"])
           ws == Store!Heal("names") \o Store!Heal("out")
           new == Store!Loaded
           goal == [a \in Store!Addr |->
                      IF "names" \in Store!Healed /\ a \in Store!Region("names") THEN n[a]
                      ELSE IF "out" \in Store!Healed /\ a \in Store!Region("out") THEN o[a] ELSE nv[a]]
<1>1. /\ phase' = "run" /\ ram' = new /\ kept' = new /\ gone' = FALSE
      /\ shadow' = IF board = "cc35x1" THEN nv ELSE shadow
      /\ Store!Start(Store!Healed, ws, new) /\ UNCHANGED <<board, nv, ops, cuts>>
  BY DEF Store!Boot
<1>2. /\ nv \in [Store!Addr -> Words] /\ shadow \in [Store!Addr -> Words]
      /\ Meant(job.ever, nv) /\ Meant(job.ever, shadow)
      /\ ops \in 0 .. MaxOps /\ cuts \in 0 .. MaxCuts
  BY DEF StoreInv, StoreTyped, AllMeant
<1>3. /\ DOMAIN new = Store!Records
      /\ \A r \in Store!Records : /\ new[r] = Store!Found(nv)[r]
                                  /\ new[r] \in job.ever[r] /\ new[r] \in Store!Contents[r]
  BY FoundFits DEF Store!Loaded, Store!Found
<1> HIDE DEF new
<1>4. "names" \in Store!Records /\ "out" \in Store!Records BY DEF Store!Records
<1>5. \A r \in Store!Records : new[r] \in Grown(new)[r] BY DEF Grown
<1>6. n \in Writes /\ DOMAIN n = Store!Region("names") /\ Meant(Grown(new), n)
  BY <1>3, <1>4, <1>5, WholeMeant DEF new
<1>7. o \in Writes /\ DOMAIN o = Store!Region("out") /\ Meant(Grown(new), o)
  BY <1>3, <1>4, <1>5, WholeMeant DEF new
<1>8. /\ Store!Heal("names") = IF "names" \in Store!Healed THEN <<n>> ELSE <<>>
      /\ Store!Heal("out") = IF "out" \in Store!Healed THEN <<o>> ELSE <<>>
  BY DEF Store!Heal
<1> HIDE DEF n, o
<1>9. /\ ws \in Seq(Writes)
      /\ \A i \in DOMAIN ws : \/ "names" \in Store!Healed /\ ws[i] = n
                              \/ "out" \in Store!Healed /\ ws[i] = o
      /\ "names" \in Store!Healed => \E i \in DOMAIN ws : ws[i] = n
      /\ "out" \in Store!Healed => \E i \in DOMAIN ws : ws[i] = o
  <2>1. CASE "names" \in Store!Healed /\ "out" \in Store!Healed
    <3>1. ws = <<n>> \o <<o>> BY <1>8, <2>1
    <3> HIDE DEF ws
    <3>2. ws \in Seq(Writes) /\ DOMAIN ws = {1, 2} /\ ws[1] = n /\ ws[2] = o
      BY <1>6, <1>7, <3>1, Joined
    <3> QED BY <2>1, <3>2
  <2>2. CASE "names" \in Store!Healed /\ "out" \notin Store!Healed
    <3>0. <<n>> \in Seq(Writes) BY <1>6
    <3>1. ws = <<n>> BY <1>8, <2>2, <3>0, ConcatEmptySeq
    <3> HIDE DEF ws
    <3>2. ws \in Seq(Writes) /\ DOMAIN ws = {1} /\ ws[1] = n BY <1>6, <3>1
    <3> QED BY <2>2, <3>2
  <2>3. CASE "names" \notin Store!Healed /\ "out" \in Store!Healed
    <3>0. <<o>> \in Seq(Writes) BY <1>7
    <3>1. ws = <<o>> BY <1>8, <2>3, <3>0, ConcatEmptySeq
    <3> HIDE DEF ws
    <3>2. ws \in Seq(Writes) /\ DOMAIN ws = {1} /\ ws[1] = o BY <1>7, <3>1
    <3> QED BY <2>3, <3>2
  <2>4. CASE "names" \notin Store!Healed /\ "out" \notin Store!Healed
    <3>1. ws = <<>> BY <1>8, <2>4
    <3> HIDE DEF ws
    <3>2. ws \in Seq(Writes) /\ DOMAIN ws = {} BY <3>1
    <3> QED BY <2>4, <3>2
  <2> QED BY <2>1, <2>2, <2>3, <2>4
<1> HIDE DEF ws
<1>10. \A i \in DOMAIN ws : Meant(Grown(new), ws[i]) BY <1>6, <1>7, <1>9
<1>11. Store!Region("names") \cap Store!Region("out") = {} BY StoreLayout, SMT
<1>12. goal \in [Store!Addr -> Words] BY <1>2, <1>6, <1>7, WriteFacts
<1>13. \A a \in Store!Addr :
         goal[a] = IF "names" \in Store!Healed /\ a \in Store!Region("names") THEN n[a]
                   ELSE IF "out" \in Store!Healed /\ a \in Store!Region("out") THEN o[a] ELSE nv[a]
  OBVIOUS
<1> HIDE DEF goal
<1>14. \A a \in Store!Addr :
         /\ (\A i \in DOMAIN ws : a \notin DOMAIN ws[i]) => goal[a] = nv[a]
         /\ \A i \in DOMAIN ws : a \in DOMAIN ws[i] => goal[a] = ws[i][a]
  BY <1>6, <1>7, <1>9, <1>11, <1>13
<1>15. Ends(goal, ws, nv) BY <1>12, <1>14 DEF Ends
<1>16. "names" \in Store!Healed =>
         Store!Found(goal)["names"] = new["names"] /\ Store!Fields(goal, "names") = new["names"]
  <2> HAVE "names" \in Store!Healed
  <2>1. \A a \in Store!Region("names") : goal[a] = Store!Whole("names", new["names"])[a]
    BY <1>4, <1>13, Regions DEF n, new
  <2> QED BY <1>3, <1>4, <2>1, FoundWhole
<1>17. "out" \in Store!Healed => Store!Found(goal)["out"] = new["out"]
  <2> HAVE "out" \in Store!Healed
  <2>1. \A a \in Store!Region("out") : goal[a] = Store!Whole("out", new["out"])[a]
    BY <1>4, <1>11, <1>13, Regions DEF o, new
  <2> QED BY <1>3, <1>4, <2>1, FoundWhole
<1>18. ASSUME NEW r \in Store!Records, r \notin Store!Healed
       PROVE  /\ Store!Found(goal)[r] = new[r]
              /\ r = "names" => Store!Fields(goal, "names") = new["names"]
  <2>1. \A a \in Store!Region(r) :
          /\ "names" \in Store!Healed => a \notin Store!Region("names")
          /\ "out" \in Store!Healed => a \notin Store!Region("out")
    BY <1>4, <1>18, RegionsApart
  <2>2. \A a \in Store!Region(r) : goal[a] = nv[a] BY <1>13, <2>1, Regions
  <2>3. Store!Found(goal)[r] = Store!Found(nv)[r] /\ Store!Fields(goal, r) = Store!Fields(nv, r)
    BY <2>2, FoundSame, FieldsOf
  <2>4. r = "names" => Store!Found(nv)[r] = Store!Fields(nv, r)
    BY <1>18, FoundIn DEF Store!Healed
  <2> QED BY <1>3, <2>3, <2>4
<1>19. \A r \in Store!Records : Store!Found(goal)[r] = new[r]
  <2> SUFFICES ASSUME NEW r \in Store!Records PROVE Store!Found(goal)[r] = new[r] OBVIOUS
  <2>1. r \in Store!Healed => r = "names" \/ r = "out" BY DEF Store!Healed
  <2> QED BY <1>16, <1>17, <1>18, <2>1
<1>20. Store!Fields(goal, "names") = ram'["names"] BY <1>1, <1>4, <1>16, <1>18
<1>21. Store!Healed \subseteq Store!Records BY <1>4 DEF Store!Healed
<1>22. Begins(Store!Healed, ws, new, goal)
  BY <1>1, <1>3, <1>9, <1>10, <1>15, <1>19, <1>20, <1>21 DEF Begins
<1>23. /\ shadow' \in [Store!Addr -> Words] /\ Meant(job.ever, shadow')
       /\ board = "cc35x1" => \A a \in Store!Addr : shadow'[a] = nv[a]
  BY <1>1, <1>2
<1> QED BY <1>1, <1>2, <1>3, <1>22, <1>23, StartKeeps

\* A boot without the store, and a cut, leave the store as it is.
LEMMA StopKeeps ==
  ASSUME StoreInv, UNCHANGED <<board, nv, shadow, gone, todo, job, kept>>, phase' \in {"bare", "off"},
         ops' \in 0 .. MaxOps, cuts' \in 0 .. MaxCuts, DOMAIN ram' = Store!Records,
         \A r \in Store!Records : ram'[r] \in Store!Contents[r]
  PROVE  StoreInv'
<1>1. StoreTyped' BY DEF StoreInv, StoreTyped
<1>2. Sensible' /\ AllMeant' BY DEF StoreInv, Sensible, AllMeant
<1>3. Intact' BY DEF StoreInv, Intact, Store!Found, Store!Valid, Store!ValidV1, Store!V1, Store!Fields
<1>4. Confined' BY DEF StoreInv, Confined, Store!Reach
<1>5. Mirrored' BY DEF Mirrored
<1> QED BY <1>1, <1>2, <1>3, <1>4, <1>5 DEF StoreInv

LEMMA BootBareKeeps == ASSUME StoreInv, Store!BootBare PROVE StoreInv'
<1>1. /\ UNCHANGED <<board, nv, shadow, gone, todo, job, kept, ops, cuts>> /\ phase' = "bare"
      /\ ram' = [mqtt |-> Store!Default["mqtt"], names |-> <<Store!Zero, Store!Zero>>,
                 out |-> <<Store!Zero, Store!Word(Store!SamePair), Store!Zero>>]
  BY DEF Store!BootBare
<1>2. Store!Zero \in Store!Setting BY DEF Store!Zero, Store!Setting
<1>3. DOMAIN ram' = Store!Records BY <1>1 DEF Store!Records
<1>4. ram'["mqtt"] \in Store!Contents["mqtt"]
  BY <1>1 DEF StoreInv, Sensible, Store!Records
<1>5. ram'["names"] \in Store!Contents["names"] BY <1>1, <1>2 DEF Store!Contents
<1>6. ram'["out"] \in Store!Contents["out"] BY <1>1 DEF Store!Contents
<1>7. \A r \in Store!Records : ram'[r] \in Store!Contents[r]
  BY <1>4, <1>5, <1>6 DEF Store!Records
<1> QED BY <1>1, <1>3, <1>7, StopKeeps DEF StoreInv, StoreTyped

LEMMA CutKeeps == ASSUME StoreInv, Store!Cut PROVE StoreInv'
<1>1. /\ UNCHANGED <<board, nv, shadow, gone, ram, todo, job, kept, ops>> /\ phase' = "off"
      /\ cuts > 0 /\ cuts' = cuts - 1
  BY DEF Store!Cut
<1>2. cuts' \in 0 .. MaxCuts BY <1>1, RecordAssumption, SMT DEF StoreInv, StoreTyped
<1> QED BY <1>1, <1>2, StopKeeps DEF StoreInv, StoreTyped

\* The stores that a board may start with.
LEMMA RecordsInit == ASSUME Store!Init PROVE StoreInv
<1> DEFINE D == Store!Default
           e == [r \in Store!Records |-> {D[r], kept[r]}]
<1>1. /\ board \in {"tm4c", "cc35x1"} /\ shadow = [a \in Store!Addr |-> Store!Zero] /\ gone = FALSE
      /\ ram = D /\ todo = <<>>
      /\ job = [recs |-> {}, risk |-> {}, new |-> D, ever |-> e]
      /\ phase = "off" /\ ops = MaxOps /\ cuts = MaxCuts
  BY DEF Store!Init
<1>2. job.ever = e /\ job.new = D /\ job.recs = {} /\ job.risk = {} BY <1>1
<1>3. Store!Zero \in Store!Setting BY DEF Store!Zero, Store!Setting
<1>4. DOMAIN D = Store!Records BY DEF Store!Default, Store!Records
<1>5. \A r \in Store!Records : D[r] \in Store!Contents[r]
  <2>1. D["mqtt"] \in Store!Contents["mqtt"] BY <1>3 DEF Store!Default, Store!Contents
  <2>2. D["names"] \in Store!Contents["names"] BY <1>3 DEF Store!Default, Store!Contents
  <2>3. D["out"] \in Store!Contents["out"] BY DEF Store!Default, Store!Contents
  <2> QED BY <2>1, <2>2, <2>3 DEF Store!Records
<1>6. Store!Zero \in Words /\ Plain \subseteq Words BY WordFacts DEF Words
<1>7. shadow \in [Store!Addr -> Words] /\ Meant(e, shadow)
  BY <1>1, <1>6, WordFacts, MeantPlain DEF Meant
<1> HIDE DEF e
<1> SUFFICES /\ nv \in [Store!Addr -> Words] /\ Meant(e, nv) /\ DOMAIN kept = Store!Records
             /\ \A r \in Store!Records :
                  kept[r] \in Store!Contents[r] /\ Store!Found(nv)[r] = kept[r]
  <2>1. StoreTyped
    <3>1. ops \in 0 .. MaxOps /\ cuts \in 0 .. MaxCuts BY <1>1, RecordAssumption, SMT
    <3>2. todo \in Seq(Writes) BY <1>1
    <3>3. DOMAIN job.ever = Store!Records BY <1>2 DEF e
    <3> QED BY <1>1, <1>2, <1>4, <1>5, <1>7, <3>1, <3>2, <3>3 DEF StoreTyped
  <2>2. Sensible BY <1>2, <1>5 DEF Sensible, e
  <2>3. DOMAIN todo = {} BY <1>1
  <2>4. AllMeant BY <1>2, <1>7, <2>3 DEF AllMeant
  <2>5. Intact /\ Confined /\ Mirrored BY <1>1, <2>3 DEF Intact, Confined, Mirrored
  <2> QED BY <1>1, <2>1, <2>2, <2>4, <2>5 DEF StoreInv
<1>8. CASE /\ nv = [a \in Store!Addr |-> IF board = "tm4c" THEN Store!Word(3) ELSE Store!Zero]
           /\ kept = D
  <2>1. Store!Word(3) \in Plain BY DEF Plain
  <2>2. \A a \in Store!Addr : nv[a] \in Plain /\ nv[a] # Store!Magic
    <3>1. Store!Word(3).is = 3 /\ Store!Magic.is = 9 BY DEF Store!Word, Store!Magic
    <3>2. Store!Word(3) # Store!Magic BY <3>1
    <3> QED BY <1>8, <2>1, <3>2, WordFacts
  <2>3. nv \in [Store!Addr -> Words] /\ Meant(e, nv) BY <1>6, <1>8, <2>2, MeantPlain DEF Meant
  <2>4. \A r \in Store!Records : Store!Found(nv)[r] = D[r] BY <2>2, FoundErased, Regions
  <2> QED BY <1>4, <1>5, <1>8, <2>3, <2>4
<1>9. ASSUME NEW p \in Values, nv = Store!Older(p),
             kept = [D EXCEPT !["out"] = <<Store!Word(1), Store!Word(p), Store!Zero>>]
      PROVE  /\ nv \in [Store!Addr -> Words] /\ Meant(e, nv) /\ DOMAIN kept = Store!Records
             /\ \A r \in Store!Records :
                  kept[r] \in Store!Contents[r] /\ Store!Found(nv)[r] = kept[r]
  <2> DEFINE f == <<Store!Word(1), Store!Word(p)>>
             n == Store!Whole("names", D["names"])
             q == Store!Whole("mqtt", D["mqtt"])
             o == [a \in Store!Addr |-> CASE a = 7 -> Store!Magic [] a = 8 -> Store!Word(1)
                                          [] a = 9 -> Store!Word(p) [] a = 10 -> Store!Crc(f)
                                          [] OTHER -> Store!Zero]
  <2>1. "mqtt" \in Store!Records /\ "names" \in Store!Records /\ "out" \in Store!Records
    BY DEF Store!Records
  <2>2. /\ DOMAIN kept = Store!Records /\ kept["out"] = <<Store!Word(1), Store!Word(p), Store!Zero>>
        /\ kept["mqtt"] = D["mqtt"] /\ kept["names"] = D["names"]
    BY <1>4, <1>9, <2>1
  <2>3. kept["out"] \in Store!Contents["out"] BY <2>2 DEF Store!Contents
  <2>4. nv = Store!Over(q, Store!Over(n, o))
    <3>1. /\ Store!Base["out"] = 7 /\ Store!Base["out"] + 1 = 8 /\ Store!Base["out"] + 2 = 9
          /\ Store!Base["out"] + 3 = 10
      BY StoreLayout, SMT
    <3> QED BY <1>9, <3>1 DEF Store!Older
  <2>5. /\ Store!Word(1) \in Plain /\ Store!Word(p) \in Plain /\ f \in Seq(Plain)
        /\ Store!Crc(f) \in Words
    <3>1. Store!Word(1) \in Plain /\ Store!Word(p) \in Plain BY DEF Plain
    <3>2. f \in Seq(Plain) BY <3>1
    <3> QED BY <3>1, <3>2 DEF Words
  <2>6. \A r \in Store!Records : D[r] \in e[r] /\ kept[r] \in e[r] BY DEF e
  <2>7. q \in Writes /\ DOMAIN q = Store!Region("mqtt") /\ Meant(e, q)
    BY <1>5, <2>1, <2>6, WholeMeant
  <2>8. n \in Writes /\ DOMAIN n = Store!Region("names") /\ Meant(e, n)
    BY <1>5, <2>1, <2>6, WholeMeant
  <2>9. MeantAt(e, 10, Store!Crc(f))
    <3>1. \A r \in Store!Records : 10 # Store!CrcAt(r) BY StoreLayout, SMT DEF Store!Records
    <3>2. Store!Crc(f).of = {f} BY DEF Store!Crc
    <3>3. Store!Migrated(f) = kept["out"] BY <2>2 DEF Store!Migrated
    <3> QED BY <2>1, <2>6, <3>1, <3>2, <3>3 DEF MeantAt
  <2>10. \A a \in Store!Addr :
           o[a] = CASE a = 7 -> Store!Magic [] a = 8 -> Store!Word(1)
                    [] a = 9 -> Store!Word(p) [] a = 10 -> Store!Crc(f)
                    [] OTHER -> Store!Zero
    OBVIOUS
  <2>11. DOMAIN o = Store!Addr OBVIOUS
  <2> HIDE DEF f, n, q, o
  <2>12. ASSUME NEW a \in Store!Addr PROVE o[a] \in Words /\ MeantAt(e, a, o[a])
    <3>1. o[a] \in Plain \/ (a = 10 /\ o[a] = Store!Crc(f)) BY <2>5, <2>10, WordFacts
    <3> QED BY <1>6, <2>5, <2>9, <3>1, MeantPlain
  <2>13. Meant(e, o) BY <2>11, <2>12 DEF Meant
  <2>14. Meant(e, Store!Over(n, o)) /\ DOMAIN Store!Over(n, o) = Store!Addr
    BY <2>8, <2>11, <2>13, MeantOver DEF Store!Over
  <2>15. Meant(e, nv) BY <2>4, <2>7, <2>14, MeantOver
  <2>16. \A a \in Store!Addr : nv[a] = IF a \in Store!Region("mqtt") THEN q[a]
                                       ELSE IF a \in Store!Region("names") THEN n[a] ELSE o[a]
    BY <2>4, <2>7, <2>8 DEF Store!Over
  <2>17. nv \in [Store!Addr -> Words]
    <3>1. DOMAIN nv = Store!Addr /\ nv = [a \in Store!Addr |-> nv[a]] BY <2>4 DEF Store!Over
    <3>2. \A a \in Store!Addr : nv[a] \in Words BY <2>7, <2>8, <2>12, <2>16, WriteFacts
    <3> QED BY <3>1, <3>2
  <2>18. Store!Found(nv)["mqtt"] = kept["mqtt"]
    <3>1. \A a \in Store!Region("mqtt") : nv[a] = Store!Whole("mqtt", D["mqtt"])[a]
      BY <2>1, <2>16, Regions DEF q
    <3> QED BY <1>5, <2>1, <2>2, <3>1, FoundWhole
  <2>19. Store!Found(nv)["names"] = kept["names"]
    <3>1. \A a \in Store!Region("names") : nv[a] = Store!Whole("names", D["names"])[a]
      BY <2>1, <2>16, Regions, RegionsApart DEF n
    <3> QED BY <1>5, <2>1, <2>2, <3>1, FoundWhole
  <2>20. /\ nv[7] = Store!Magic /\ nv[8] = Store!Word(1) /\ nv[9] = Store!Word(p)
         /\ nv[10] = Store!Crc(f) /\ nv[11] = Store!Zero
    <3>1. \A a \in 7 .. 11 : a \in Store!Addr /\ a \notin Store!Region("mqtt") /\ a \notin Store!Region("names")
      BY StoreLayout, SMT DEF Store!Addr
    <3>2. \A a \in 7 .. 11 : nv[a] = o[a] BY <2>16, <3>1
    <3> QED BY <2>10, <3>1, <3>2, SMT
  <2>21. Store!Found(nv)["out"] = kept["out"]
    <3>1. Store!Base["out"] = 7 /\ Store!CrcAt("out") = 11 BY StoreLayout
    <3>2. ~Store!Valid(nv, "out") BY <2>20, <3>1, WordFacts DEF Store!Valid
    <3>3. Store!Base["out"] + 1 = 8 /\ Store!Base["out"] + 2 = 9 /\ Store!Base["out"] + 3 = 10
      BY <3>1, SMT
    <3>4. Store!V1(nv) = f BY <2>20, <3>3 DEF Store!V1, f
    <3>5. Store!ValidV1(nv) BY <2>20, <3>1, <3>3, <3>4 DEF Store!ValidV1
    <3>6. Store!Migrated(f) = kept["out"] BY <2>2 DEF Store!Migrated, f
    <3> QED BY <2>1, <3>2, <3>4, <3>5, <3>6, FoundIn
  <2>22. \A r \in Store!Records : kept[r] \in Store!Contents[r] /\ Store!Found(nv)[r] = kept[r]
    BY <1>5, <2>1, <2>2, <2>3, <2>18, <2>19, <2>21 DEF Store!Records
  <2> QED BY <2>2, <2>15, <2>17, <2>22
<1> QED BY <1>8, <1>9 DEF Store!Init

LEMMA StoreNext == StoreInv /\ [Next]_vars => StoreInv'
<1> SUFFICES ASSUME StoreInv, [Next]_vars PROVE StoreInv' OBVIOUS
<1>1. CASE UNCHANGED storeVars
  <2>1. StoreTyped' /\ Sensible' /\ AllMeant' /\ Confined' /\ Mirrored'
    BY <1>1 DEF storeVars, StoreInv, StoreTyped, Sensible, AllMeant, Confined, Mirrored, Store!Reach
  <2>2. Intact'
    BY <1>1 DEF storeVars, StoreInv, Intact, Store!Found, Store!Valid, Store!ValidV1, Store!V1, Store!Fields
  <2>3. ASSUME NEW goal, Promised(goal) PROVE Promised(goal)'
    <3>1. /\ Ends(goal, todo, Backing) /\ Store!Fields(goal, "names") = ram["names"]
          /\ \A r \in Store!Records : Store!Found(goal)[r] = job.new[r]
      BY <2>3 DEF Promised
    <3>2. Ends(goal, todo, Backing)' BY <1>1, <3>1 DEF storeVars, Ends, Backing
    <3>3. (Store!Fields(goal, "names") = ram["names"])' BY <1>1, <3>1 DEF storeVars
    <3>4. (\A r \in Store!Records : Store!Found(goal)[r] = job.new[r])'
      BY <1>1, <3>1 DEF storeVars
    <3> QED BY <3>2, <3>3, <3>4 DEF Promised
  <2> QED BY <1>1, <2>1, <2>2, <2>3 DEF storeVars, StoreInv
<1>2. CASE Store!Next
  BY <1>2, ConfigSaveKeeps, OutputSaveKeeps, NameSetKeeps, FactoryResetKeeps, RecordsBoot,
     BootBareKeeps, CutKeeps, ProgramWordKeeps, DeleteKeeps, WriteChunkKeeps
  DEF Store!Next
<1> QED BY <1>1, <1>2 DEF Next, OnTm, OnCc, OnStore, vars

\* Every variable of the two firmware updates and of the records keeps its range, for images
\* and chunks of any length, flash of any size, settings of any kind, and any number of
\* browsers, saves and power failures.
THEOREM Ranges == Spec => []TypeOK
<1>1. Init => TmInv /\ CcInv /\ StoreInv BY TmStarts, CcStarts, RecordsInit DEF Init
<1>2. TmInv /\ CcInv /\ StoreInv => TypeOK BY TmShows, StoreShows DEF CcInv, TypeOK
<1> QED BY <1>1, <1>2, TmNext, CcSteps, StoreNext, PTL DEF Spec

\* What a boot finds of each record is what the last save that came to its end made of it, or
\* - if a save of it, or of a neighbour in its chunk, was cut - its defaults or what one save
\* or other meant: PalStorageWrite and ConfigInit on both boards, cut at any word or chunk.
THEOREM RecordsKept == Spec => Durable
<1>1. Init => StoreInv BY RecordsInit DEF Init
<1>2. ASSUME StoreInv, [Next]_vars
      PROVE  [Store!Boots => \A r \in Store!Records :
                \/ ram'[r] = kept[r]
                \/ Store!Unfinished /\ r \in job.risk /\ ram'[r] \in job.ever[r]]_storeVars
  <2> SUFFICES ASSUME ~UNCHANGED storeVars, Store!Boots, NEW r \in Store!Records
               PROVE  \/ ram'[r] = kept[r]
                      \/ Store!Unfinished /\ r \in job.risk /\ ram'[r] \in job.ever[r]
    OBVIOUS
  <2>1. Store!Next BY <1>2 DEF Next, OnTm, OnCc, OnStore, vars
  <2>2. Store!Boot
    BY <2>1 DEF Store!Next, Store!Boots, Store!BootBare, Store!ConfigSave, Store!ConfigOutputSave,
       Store!ConfigNameSet, Store!FactoryReset, Store!Ready, Store!ProgramWord, Store!DeleteChunk,
       Store!WriteChunk, Store!Writing, Store!Cut
  <2>3. ram'[r] = Store!Found(nv)[r] BY <2>2 DEF Store!Boot, Store!Loaded
  <2>4. ram'[r] \in job.ever[r] BY <2>2, <1>2, FoundFits DEF Store!Boot
  <2>5. todo = <<>> \/ r \notin job.risk => Store!Found(nv)[r] = kept[r]
    BY <1>2 DEF StoreInv, Intact
  <2> QED BY <2>3, <2>4, <2>5 DEF Store!Unfinished
<1> QED BY <1>1, <1>2, StoreNext, PTL DEF Spec, Durable, Store!Durable, Store!vars, storeVars
=============================================================================
