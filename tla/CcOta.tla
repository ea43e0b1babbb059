------------------------------- MODULE CcOta -------------------------------
(***************************************************************************)
(* Firmware update of the CC35x1 (platform/cc35x1/webui_platform.c): the   *)
(* POST callbacks that feed an image to the PSA firmware update service    *)
(* into the slot that is not running, and the trial of the new image after *)
(* the reboot (main.c).  The service, the bootloader and lwIP's HTTP       *)
(* server are external: modelled as the code uses and describes them.      *)
(*                                                                         *)
(* A chunk arrives in two parts.  A connection that drops ends its POST    *)
(* early, which the callback cannot tell from a complete one.  Browser "a" *)
(* is the one that keeps trying; "b" interferes.                           *)
(***************************************************************************)
EXTENDS Integers

CONSTANTS
  Last,      \* number of the last chunk of "a"'s image
  LastB,     \* and of "b"'s
  MaxFaults  \* dropped connections, requests of "b", resets that go wrong

VARIABLES
  up,      \* the upload state of webui_platform.c
  post,    \* the POST in progress (g_pPostConn, g_bChunkDup, g_bChunkLast)
  slot,    \* what the service says of the two vendor slots, and their images
  primary, \* the slot that runs
  protected, \* the running image was committed by an accept
  main,    \* main.c: reset request, bTrialChecked
  sent,    \* the chunk "a" sends
  told,    \* what "a" was told last: nothing, "ok", "failed"
  faults

vars == <<up, post, slot, primary, protected, main, sent, told, faults>>

Slots == {1, 2}
States == {"READY", "WRITING", "CANDIDATE", "STAGED", "FAILED", "TRIAL", "REJECTED", "UPDATED"}
Blocking == {"STAGED", "TRIAL", "REJECTED", "FAILED"}
LastOf(b) == IF b = "a" THEN Last ELSE LastB
Top == IF LastB > Last THEN LastB ELSE Last
Idle == [by |-> "none", seq |-> 0, dup |-> FALSE, last |-> FALSE, left |-> 0]

\* next, abort and started as in the code; pos parts were fed, all of them "a"'s and
\* in their order while whole; swap is g_bOtaRebootPending.
Fresh == [next |-> 0, abort |-> FALSE, started |-> FALSE, pos |-> 0, whole |-> TRUE,
          swap |-> FALSE, target |-> 0]

TypeOK ==
  /\ up.next \in 0 .. Top + 1 /\ up.pos \in 0 .. 2 * (Last + 1) /\ up.target \in Slots \cup {0}
  /\ post \in [by : {"none", "a", "b"}, seq : 0 .. Top, dup : BOOLEAN, last : BOOLEAN,
               left : 0 .. 2]
  /\ slot \in [Slots -> [st : States, img : {"old", "new", "bad", "none"}]]
  /\ primary \in Slots /\ protected \in BOOLEAN
  /\ main \in [reset : BOOLEAN, checked : BOOLEAN]
  /\ sent \in 0 .. Last /\ told \in {"nothing", "ok", "failed"} /\ faults \in 0 .. MaxFaults

Init ==
  /\ up = Fresh /\ post = Idle
  /\ protected \in BOOLEAN
  /\ slot = [s \in Slots |->
       IF s = 1 THEN [st |-> "UPDATED", img |-> "old"]
       ELSE [st |-> IF protected THEN "FAILED" ELSE "READY", img |-> "none"]]
  /\ primary = 1
  /\ main = [reset |-> FALSE, checked |-> FALSE]
  /\ sent = 0 /\ told = "nothing" /\ faults = MaxFaults

Fault == faults > 0 /\ faults' = faults - 1
NoFault == UNCHANGED faults

-----------------------------------------------------------------------------
(* The service.                                                            *)

Other(s) == 3 - s
With(s, st) == [slot EXCEPT ![s].st = st]
Blocked(sl, t) == \E s \in Slots \ {t} : sl[s].st \in Blocking

\* psa_fwu_cancel: an unfinished image is dropped; other states are left alone.
Cancelled(sl, t) == IF sl[t].st \in {"WRITING", "CANDIDATE"} THEN [sl EXCEPT ![t].st = "FAILED"] ELSE sl

\* psa_fwu_clean after what it takes to get there: the slot is empty and READY.
Cleaned(sl, t) == [sl EXCEPT ![t] = [st |-> "READY", img |-> "none"]]

-----------------------------------------------------------------------------
(* The POST callbacks.                                                     *)

\* Bug: a new upload goes on counting where the last one stopped.
BugPrepareKeepsSeq ==
  LET t == Other(primary)
  IN /\ slot' = IF slot[t].st = "READY" THEN slot ELSE Cleaned(slot, t)
     /\ up' = [Fresh EXCEPT !.target = IF Blocked(slot, t) THEN 0 ELSE t,
                            !.abort = Blocked(slot, t), !.next = up.next]

\* Bug: a slot whose last upload failed is not cleaned.
BugPrepareLeavesFailed ==
  LET t == Other(primary)
  IN /\ slot' = IF slot[t].st \in {"READY", "FAILED"} THEN slot ELSE Cleaned(slot, t)
     /\ up' = [Fresh EXCEPT !.target = IF slot'[t].st = "READY" THEN t ELSE 0,
                            !.abort = slot'[t].st # "READY" \/ Blocked(slot, t)]

\* OtaPrepareTarget: the slot that does not run is cleaned; the upload is refused
\* when the running one is not committed.
PrepareTarget ==
  LET t == Other(primary)
  IN /\ slot' = IF slot[t].st = "READY" THEN slot ELSE Cleaned(slot, t)
     /\ up' = [Fresh EXCEPT !.target = IF Blocked(slot, t) THEN 0 ELSE t,
                            !.abort = Blocked(slot, t)]

\* httpd_post_begin of chunk s, when chunk 0 has been dealt with.  A new POST takes
\* over from one that is still being received.
Accepts(b, s, u) ==
  post' = IF ~u.abort /\ s <= u.next
          THEN [by |-> b, seq |-> s, dup |-> s < u.next, last |-> s = LastOf(b), left |-> 2]
          ELSE post

\* A chunk that is not a repeated one may be more than the slot has room for, unless
\* nothing but "a"'s image has gone into it.
TooMuch(b, s) == s = up.next /\ (b = "b" \/ ~up.whole)

PostBegin(b, s) ==
  /\ \/ s = 0 /\ PrepareTarget
     \/ s # 0 /\ up' = [up EXCEPT !.abort = up.abort \/ s > up.next] /\ UNCHANGED slot
     \/ s # 0 /\ TooMuch(b, s) /\ up' = [up EXCEPT !.abort = TRUE] /\ UNCHANGED slot
  /\ Accepts(b, s, up')
  /\ UNCHANGED <<primary, protected, main, sent>>

\* "a" sends its chunk, first the chunk 0 of a new upload; a refusal is final.
Send ==
  /\ post.by # "a" /\ told = "nothing" /\ slot[primary].img # "new"
  /\ PostBegin("a", sent)
  /\ told' = IF post'.by = "a" THEN "nothing" ELSE "failed"
  /\ NoFault

Meddle(s) == Fault /\ PostBegin("b", s) /\ UNCHANGED told

\* OtaFeed: the manifest, in the first part, starts the slot; then the image.
Fits == up.whole /\ post.by = "a" /\ up.pos = 2 * post.seq + (2 - post.left)
First == up.pos = 0 /\ up.whole /\ post.seq = 0 /\ post.left = 2
Starts == ~up.started /\ First /\ slot[up.target].st = "READY"
Writes == up.started /\ slot[up.target].st = "WRITING"
Fed == [up EXCEPT !.pos = IF Fits THEN up.pos + 1 ELSE up.pos, !.whole = Fits]
Feed ==
  \/ /\ Starts
     /\ up' = [Fed EXCEPT !.started = TRUE]
     /\ slot' = [slot EXCEPT ![up.target] = [st |-> "WRITING", img |-> "bad"]]
  \/ /\ Writes
     /\ up' = Fed /\ UNCHANGED slot
  \/ /\ ~Starts /\ ~Writes
     /\ up' = [Fed EXCEPT !.abort = TRUE]
     /\ slot' = Cancelled(slot, up.target)

\* httpd_post_receive_data.
PostData ==
  /\ post.left > 0
  /\ post' = [post EXCEPT !.left = post.left - 1]
  /\ \/ (up.abort \/ post.dup) /\ UNCHANGED <<up, slot>>
     \/ ~up.abort /\ ~post.dup /\ Feed
  /\ NoFault /\ UNCHANGED <<primary, protected, main, sent, told>>

\* OtaFinalize; the service may notice at once that an image is not whole.
Whole == up.whole /\ up.pos = 2 * (Last + 1)
Installs == slot[up.target].st = "WRITING" /\ ~Blocked(slot, up.target)

Finalize ==
  LET u == [up EXCEPT !.next = up.next + 1]
  IN \/ /\ Installs
        /\ slot' = [slot EXCEPT ![up.target] =
                      [st |-> "STAGED", img |-> IF Whole THEN "new" ELSE "bad"]]
        /\ up' = [u EXCEPT !.swap = TRUE]
        /\ main' = [main EXCEPT !.reset = TRUE]
     \/ /\ ~Installs \/ ~Whole
        /\ slot' = Cancelled(slot, up.target)
        /\ up' = [u EXCEPT !.abort = TRUE]
        /\ UNCHANGED main

\* httpd_post_finished, when all has arrived or the connection has dropped.
Ended ==
  /\ post.by # "none" /\ post' = Idle
  /\ \/ up.abort /\ UNCHANGED <<up, slot, main>>
     \/ ~up.abort /\ post.dup /\ UNCHANGED <<up, slot, main>>
     \/ ~up.abort /\ ~post.dup /\ ~post.last
        /\ up' = [up EXCEPT !.next = up.next + 1] /\ UNCHANGED <<slot, main>>
     \/ ~up.abort /\ ~post.dup /\ post.last /\ Finalize
  /\ UNCHANGED <<primary, protected>>

\* The answer: the verdict page for the last chunk, otherwise just an answer.
Answer ==
  /\ post.left = 0 /\ Ended
  /\ \/ /\ post.by = "a" /\ sent < Last
        /\ sent' = sent + 1 /\ UNCHANGED told
     \/ /\ post.by = "a" /\ sent = Last
        /\ sent' = 0 /\ told' = IF up'.abort THEN "failed" ELSE "ok"
     \/ /\ post.by = "b" /\ UNCHANGED <<sent, told>>
  /\ NoFault

\* The connection drops; the browser sends the chunk again.
Drop == Fault /\ Ended /\ UNCHANGED <<sent, told>>

\* The user starts over after a failure.
Retry ==
  /\ told = "failed" /\ told' = "nothing" /\ sent' = 0
  /\ UNCHANGED <<up, post, slot, primary, protected, main, faults>>

-----------------------------------------------------------------------------
(* Reboot, bootloader and trial (docs/CC3551_FWU_ab_swap_e2e.md says what  *)
(* the bootloader was seen to do).                                         *)

\* A trial that was not accepted is rolled back, a staged image that is signed is
\* tried.  Away from a committed image only a power cycle swaps, and not into a trial.
Swapped(hard) ==
  LET t == Other(primary)
      st == slot[t].st
  IN \/ /\ slot[primary].st = "TRIAL" /\ slot[t].img = "old"
        /\ primary' = t /\ slot' = With(primary, "REJECTED")
     \/ /\ slot[primary].st # "TRIAL" /\ st = "STAGED" /\ slot[t].img = "new"
        /\ ~protected \/ hard
        /\ primary' = t /\ slot' = With(t, IF protected THEN "STAGED" ELSE "TRIAL")
     \/ /\ slot[primary].st # "TRIAL" /\ st = "STAGED" /\ slot[t].img # "new"
        /\ slot' = With(t, "FAILED") /\ UNCHANGED primary
     \/ /\ IF slot[primary].st = "TRIAL" THEN slot[t].img # "old"
           ELSE st # "STAGED" \/ (slot[t].img = "new" /\ protected /\ ~hard)
        /\ UNCHANGED <<primary, slot>>

Booted == up' = Fresh /\ post' = Idle /\ main' = [reset |-> FALSE, checked |-> FALSE]

\* The 300 ms pause of main.c is over: WebPlatformFinalizeReboot.
Reboot ==
  /\ main.reset /\ Booted /\ Swapped(FALSE) /\ NoFault
  /\ UNCHANGED <<protected, sent, told>>

\* The power fails, or the user switches it off and on: after a failed upload, as the
\* page says, or when the old version still runs.
Outage == Fault /\ Swapped(TRUE) /\ Booted /\ UNCHANGED <<protected, sent, told>>

PowerCycle ==
  /\ \/ told = "failed"
     \/ told = "ok" /\ main.checked /\ ~main.reset /\ slot[primary].img # "new"
  /\ Swapped(TRUE) /\ Booted
  /\ told' = "nothing" /\ sent' = 0 /\ NoFault /\ UNCHANGED protected

\* WebPlatformOtaTrialAccept, once the board has an address; the accept may fail.
TrialAccept ==
  /\ ~main.checked /\ ~main.reset
  /\ \/ /\ \/ slot[primary].st # "TRIAL" /\ NoFault
           \/ slot[primary].st = "TRIAL" /\ Fault
        /\ main' = [main EXCEPT !.checked = TRUE]
        /\ UNCHANGED <<up, post, slot, protected>>
     \/ /\ slot[primary].st = "TRIAL"
        /\ slot' = [s \in Slots |-> IF s = primary THEN [slot[s] EXCEPT !.st = "UPDATED"]
                                    ELSE [st |-> "FAILED", img |-> "none"]]
        /\ protected' = TRUE /\ Booted /\ NoFault
  /\ UNCHANGED <<primary, sent, told>>

Calm ==
  faults > 0 /\ faults' = 0 /\ UNCHANGED <<up, post, slot, primary, protected, main, sent, told>>

Next ==
  \/ Send \/ PostData \/ Answer \/ Drop \/ Retry \/ Reboot \/ PowerCycle \/ Outage
  \/ TrialAccept \/ Calm \/ \E s \in 0 .. LastB : Meddle(s)

Spec == Init /\ [][Next]_vars

FairSpec ==
  /\ Spec
  /\ WF_vars(Send) /\ WF_vars(PostData) /\ WF_vars(Answer) /\ WF_vars(Retry)
  /\ WF_vars(Reboot) /\ SF_vars(PowerCycle) /\ WF_vars(TrialAccept) /\ WF_vars(Calm)

-----------------------------------------------------------------------------
(* Properties.                                                             *)

\* An upload that is told that it succeeded has its image staged and the reboot asked
\* for, whatever was sent again, dropped or sent by another browser.
Verdict ==
  [][told' = "ok" /\ told = "nothing" => slot'[Other(primary)].st = "STAGED" /\ main'.reset]_vars

\* Once nothing goes wrong any more, the browser that keeps trying gets its image to
\* run for good.
Recovers == <>[](slot[primary].img = "new")

\* main.c:458-460: a new image that does not get as far as an address "is rolled back
\* to the previous slot by the bootloader".  It must still be there.
Fallback == slot[primary].st = "TRIAL" => slot[Other(primary)].img = "old"
=============================================================================
