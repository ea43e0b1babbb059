--------------------------- MODULE NetworkProofs ---------------------------
(***************************************************************************)
(* The Wi-Fi roles (NetWifi) and the SNTP client (Sntp) in the composition *)
(* of the network, for any number of faults, requests and waiting events:  *)
(* lwIP never has the interfaces of both roles, an address is believed in  *)
(* only over a link, and every variable keeps its range.  The first holds  *)
(* until a Forget is carried out in the role of the access point; the run  *)
(* NetWifi_v_roles shows what happens then.                                *)
(***************************************************************************)
EXTENDS Network, SequenceTheorems, TLAPS

-----------------------------------------------------------------------------
(* What the main task may have to do: which step follows which, and which  *)
(* may be the last one.                                                    *)

Steps ==
  {"staRoleUp", "connect", "staLeave", "disconnect", "linkDown", "staRoleDown", "staRemove",
   "scan", "apRoleUp", "apLinkUp", "apDown", "join", "arm", "serve"}

Follows(x, y) ==
  \/ x = "staRoleUp" /\ y \in {"scan", "connect"}
  \/ x = "scan" /\ y = "staLeave"
  \/ x = "staLeave" /\ y = "disconnect"
  \/ x = "disconnect" /\ y = "linkDown"
  \/ x = "linkDown" /\ y = "staRoleDown"
  \/ x = "staRoleDown" /\ y = "staRemove"
  \/ x = "staRemove" /\ y = "apRoleUp"
  \/ x = "apRoleUp" /\ y = "apLinkUp"
  \/ x = "apLinkUp" /\ y = "serve"
  \/ x = "apDown" /\ y = "staRoleUp"
  \/ x = "connect" /\ y \in {"join", "arm"}
  \/ x = "join" /\ y = "serve"

Last == {"apLinkUp", "connect", "arm", "serve"}

Chain(t) == t \in Seq(Steps) /\ \A i \in 1 .. Len(t) - 1 : Follows(t[i], t[i + 1])

Plan(t) == Chain(t) /\ (t # <<>> => t[Len(t)] \in Last)

\* The next step; between two turns there is none.
Here(t) == IF t = <<>> THEN "turn" ELSE t[1]

-----------------------------------------------------------------------------
(* The inductive invariant.                                                *)

Leaving == {"disconnect", "linkDown", "staRoleDown", "staRemove"}

\* What holds before step h.
Place(h) ==
  /\ (ap <=> (role = "AP" \/ h = "apLinkUp")) \/ strayed
  /\ sta.added => role = "STA" \/ h \in Leaving
  /\ h \in Leaving \cup {"apLinkUp"} => role = "NONE"
  /\ h = "apRoleUp" => role = "NONE" \/ (role = "AP" /\ strayed)
  /\ h \in {"staRoleUp", "connect", "scan", "staLeave", "join", "arm"} => role # "AP" \/ strayed
  /\ h \in Leaving \ {"disconnect"} => nwp.joined = "none" /\ nwp.trying = "none"
  /\ h \in {"staRoleDown", "staRemove"} => ~ip

Interfaces ==
  /\ role \in {"NONE", "STA", "AP"} /\ ap \in BOOLEAN /\ ip \in BOOLEAN /\ strayed \in BOOLEAN
  /\ sta \in [added : BOOLEAN, link : BOOLEAN]
  /\ nwp = [joined |-> nwp.joined, trying |-> nwp.trying, events |-> nwp.events]

IInv == Interfaces /\ Plan(todo) /\ Place(Here(todo)) /\ (ip => sta.added /\ sta.link)

-----------------------------------------------------------------------------
(* The plans.                                                              *)

LEMMA ChainConcat ==
  ASSUME NEW a, NEW b, Chain(a), Chain(b), a # <<>>, b # <<>>, Follows(a[Len(a)], b[1])
  PROVE  Chain(a \o b) /\ (a \o b)[1] = a[1] /\ (a \o b)[Len(a \o b)] = b[Len(b)] /\ a \o b # <<>>
<1>1. /\ a \in Seq(Steps) /\ b \in Seq(Steps) /\ Len(a) \in Nat \ {0} /\ Len(b) \in Nat \ {0}
  BY EmptySeq DEF Chain
<1> DEFINE c == a \o b
<1>2. /\ c \in Seq(Steps) /\ Len(c) = Len(a) + Len(b)
      /\ \A i \in 1 .. Len(a) + Len(b) : c[i] = IF i <= Len(a) THEN a[i] ELSE b[i - Len(a)]
  BY <1>1, ConcatProperties
<1> HIDE DEF c
<1>3. \A i \in 1 .. Len(c) - 1 : Follows(c[i], c[i + 1])
  <2> SUFFICES ASSUME NEW i \in 1 .. Len(c) - 1 PROVE Follows(c[i], c[i + 1]) OBVIOUS
  <2>1. CASE i < Len(a)
    <3>1. c[i] = a[i] /\ c[i + 1] = a[i + 1] /\ i \in 1 .. Len(a) - 1 BY <1>1, <1>2, <2>1
    <3> QED BY <3>1 DEF Chain
  <2>2. CASE i = Len(a)
    <3>1. c[i] = a[Len(a)] /\ c[i + 1] = b[1] BY <1>1, <1>2, <2>2
    <3> QED BY <3>1
  <2>3. CASE i > Len(a)
    <3>1. /\ c[i] = b[i - Len(a)] /\ c[i + 1] = b[i - Len(a) + 1]
          /\ i - Len(a) \in 1 .. Len(b) - 1
      BY <1>1, <1>2, <2>3
    <3> QED BY <3>1 DEF Chain
  <2> QED BY <1>1, <2>1, <2>2, <2>3
<1>4. c[1] = a[1] /\ c[Len(c)] = b[Len(b)] /\ c # <<>>
  BY <1>1, <1>2
<1>5. Chain(c) BY <1>2, <1>3 DEF Chain
<1> QED BY <1>4, <1>5 DEF c

\* A rest of a plan is a plan.
LEMMA RestPlan ==
  ASSUME NEW t, Plan(t), NEW k \in 2 .. Len(t) + 1
  PROVE  /\ Plan(SubSeq(t, k, Len(t)))
         /\ SubSeq(t, k, Len(t)) = <<>> <=> k = Len(t) + 1
         /\ k <= Len(t) => SubSeq(t, k, Len(t))[1] = t[k]
<1>1. t \in Seq(Steps) /\ Len(t) \in Nat BY DEF Plan, Chain
<1> DEFINE s == SubSeq(t, k, Len(t))
<1>2. /\ s \in Seq(Steps) /\ Len(s) = Len(t) - k + 1
      /\ \A i \in 1 .. Len(t) - k + 1 : s[i] = t[k + i - 1]
  BY <1>1
<1> HIDE DEF s
<1>3. \A i \in 1 .. Len(s) - 1 : Follows(s[i], s[i + 1])
  <2> SUFFICES ASSUME NEW i \in 1 .. Len(s) - 1 PROVE Follows(s[i], s[i + 1]) OBVIOUS
  <2>1. /\ s[i] = t[k + i - 1] /\ s[i + 1] = t[(k + i - 1) + 1]
        /\ k + i - 1 \in 1 .. Len(t) - 1
    BY <1>1, <1>2
  <2> QED BY <2>1 DEF Plan, Chain
<1>4. s = <<>> <=> Len(s) = 0 BY <1>2, EmptySeq
<1>5. s = <<>> <=> k = Len(t) + 1 BY <1>1, <1>2, <1>4
<1>6. k <= Len(t) => s[1] = t[k] /\ s[Len(s)] = t[Len(t)] /\ t # <<>> BY <1>1, <1>2
<1>7. Plan(s) BY <1>1, <1>2, <1>3, <1>5, <1>6 DEF Plan, Chain
<1> QED BY <1>5, <1>6, <1>7 DEF s

\* The plans of the code.
LEMMA Turns ==
  /\ Plan(Wifi!ToAp) /\ Wifi!ToAp # <<>> /\ Wifi!ToAp[1] = "staRoleUp"
  /\ Wifi!ToAp[Len(Wifi!ToAp)] = "apLinkUp"
  /\ Plan(Wifi!ToSta) /\ Wifi!ToSta # <<>> /\ Wifi!ToSta[1] = "apDown"
  /\ Plan(<<"connect">>)
<1> DEFINE up == <<"staRoleUp", "scan">>
           leave == <<"staLeave", "disconnect", "linkDown", "staRoleDown", "staRemove">>
           setup == <<"apRoleUp", "apLinkUp">>
           down == <<"apDown">>
           join == <<"staRoleUp", "connect">>
           arm == <<"arm">>
<1>1. /\ Chain(up) /\ up # <<>> /\ up[1] = "staRoleUp" /\ up[Len(up)] = "scan"
      /\ Chain(setup) /\ setup # <<>> /\ setup[1] = "apRoleUp" /\ setup[Len(setup)] = "apLinkUp"
      /\ Chain(down) /\ down # <<>> /\ down[1] = "apDown" /\ down[Len(down)] = "apDown"
      /\ Chain(join) /\ join # <<>> /\ join[1] = "staRoleUp" /\ join[Len(join)] = "connect"
      /\ Chain(arm) /\ arm # <<>> /\ arm[1] = "arm" /\ arm[Len(arm)] = "arm"
  BY DEF Chain, Steps, Follows
<1>2. Chain(leave) /\ leave # <<>> /\ leave[1] = "staLeave" /\ leave[Len(leave)] = "staRemove"
  BY DEF Chain, Steps, Follows
<1>3. /\ Wifi!ToAp = (up \o leave) \o setup /\ Wifi!ToSta = (down \o join) \o arm
  BY DEF Wifi!ToAp, Wifi!ScanSteps, Wifi!StaDownSteps, Wifi!ApUpSteps, Wifi!ToSta,
         Wifi!ApDownSteps, Wifi!StaUpSteps
<1>4. Plan(<<"connect">>) BY DEF Plan, Chain, Steps, Last
<1> HIDE DEF up, leave, setup, down, join, arm
<1>5. /\ Follows(up[Len(up)], leave[1]) /\ Follows(leave[Len(leave)], setup[1])
      /\ Follows(down[Len(down)], join[1]) /\ Follows(join[Len(join)], arm[1])
  BY <1>1, <1>2 DEF Follows
<1> DEFINE a == up \o leave
           s == down \o join
<1>6. Chain(a) /\ a # <<>> /\ a[1] = up[1] /\ a[Len(a)] = leave[Len(leave)]
  BY <1>1, <1>2, <1>5, ChainConcat
<1>7. Chain(s) /\ s # <<>> /\ s[1] = down[1] /\ s[Len(s)] = join[Len(join)]
  BY <1>1, <1>5, ChainConcat
<1> HIDE DEF a, s
<1> DEFINE toAp == a \o setup
           toSta == s \o arm
<1>8. Chain(toAp) /\ toAp # <<>> /\ toAp[1] = a[1] /\ toAp[Len(toAp)] = setup[Len(setup)]
  BY <1>1, <1>5, <1>6, ChainConcat
<1>9. Chain(toSta) /\ toSta # <<>> /\ toSta[1] = s[1] /\ toSta[Len(toSta)] = arm[Len(arm)]
  BY <1>1, <1>5, <1>7, ChainConcat
<1> HIDE DEF toAp, toSta
<1>10. Wifi!ToAp = toAp /\ Wifi!ToSta = toSta BY <1>3 DEF toAp, toSta, a, s
<1>11. /\ toAp[1] = "staRoleUp" /\ toAp[Len(toAp)] = "apLinkUp" /\ toSta[1] = "apDown"
       /\ toSta[Len(toSta)] = "arm"
  BY <1>1, <1>6, <1>7, <1>8, <1>9
<1>12. Plan(toAp) /\ Plan(toSta) BY <1>8, <1>9, <1>11 DEF Plan, Last
<1> QED BY <1>4, <1>8, <1>9, <1>10, <1>11, <1>12

\* At boot the board serves the setup page when it has joined a network, or given up.
LEMMA Boots ==
  /\ Plan(Wifi!ToAp \o <<"serve">>) /\ Here(Wifi!ToAp \o <<"serve">>) = "staRoleUp"
  /\ Plan((Wifi!StaUpSteps \o <<"join">>) \o <<"serve">>)
  /\ Here((Wifi!StaUpSteps \o <<"join">>) \o <<"serve">>) = "staRoleUp"
<1> DEFINE a == Wifi!ToAp
           up == Wifi!StaUpSteps
           join == <<"join">>
           serve == <<"serve">>
<1>1. /\ Chain(a) /\ a # <<>> /\ a[1] = "staRoleUp" /\ a[Len(a)] = "apLinkUp"
  BY Turns DEF Plan
<1>2. /\ Chain(up) /\ up # <<>> /\ up[1] = "staRoleUp" /\ up[Len(up)] = "connect"
      /\ Chain(join) /\ join # <<>> /\ join[1] = "join" /\ join[Len(join)] = "join"
      /\ Chain(serve) /\ serve # <<>> /\ serve[1] = "serve" /\ serve[Len(serve)] = "serve"
  BY DEF Chain, Steps, Follows, Wifi!StaUpSteps
<1> HIDE DEF a, up, join, serve
<1>3. /\ Follows(a[Len(a)], serve[1]) /\ Follows(up[Len(up)], join[1])
      /\ Follows(join[Len(join)], serve[1])
  BY <1>1, <1>2 DEF Follows
<1> DEFINE u == up \o join
<1>4. Chain(u) /\ u # <<>> /\ u[1] = up[1] /\ u[Len(u)] = join[Len(join)]
  BY <1>2, <1>3, ChainConcat
<1> HIDE DEF u
<1> DEFINE b == a \o serve
           s == u \o serve
<1>5. Chain(b) /\ b # <<>> /\ b[1] = a[1] /\ b[Len(b)] = serve[Len(serve)]
  BY <1>1, <1>2, <1>3, ChainConcat
<1>6. Chain(s) /\ s # <<>> /\ s[1] = u[1] /\ s[Len(s)] = serve[Len(serve)]
  BY <1>2, <1>3, <1>4, ChainConcat
<1> HIDE DEF b, s
<1>7. /\ Plan(b) /\ Here(b) = "staRoleUp" /\ Plan(s) /\ Here(s) = "staRoleUp"
  BY <1>1, <1>2, <1>4, <1>5, <1>6 DEF Plan, Last, Here
<1> QED BY <1>7 DEF b, s, a, u, up, join, serve

LEMMA Lengths ==
  \A n \in Nat \ {0} : (n = 1 \/ 1 < n) /\ (1 < n => n = 2 \/ 2 < n)
OBVIOUS

\* A step done leaves a plan; what comes next is told by the step.
LEMMA Advance ==
  ASSUME Plan(todo), NEW s, Wifi!At(s), Wifi!Done
  PROVE  /\ Here(todo) = s /\ Plan(todo')
         /\ s \in Last => todo' = <<>> \/ (s # "serve" /\ Follows(s, Here(todo')))
         /\ s \notin Last => todo' # <<>> /\ Follows(s, Here(todo'))
<1>1. todo \in Seq(Steps) /\ todo # <<>> /\ Len(todo) \in Nat \ {0} /\ s = todo[1]
  BY EmptySeq DEF Plan, Chain, Wifi!At
<1>2. todo' = SubSeq(todo, 2, Len(todo)) BY <1>1 DEF Wifi!Done
<1>3. 2 \in 2 .. Len(todo) + 1 BY <1>1
<1>4. /\ Plan(todo')
      /\ todo' = <<>> <=> 2 = Len(todo) + 1
      /\ 2 <= Len(todo) => todo'[1] = todo[2]
  BY <1>2, <1>3, RestPlan
<1>5. CASE Len(todo) = 1
  <2>1. s \in Last /\ todo' = <<>> BY <1>1, <1>4, <1>5 DEF Plan
  <2> QED BY <1>1, <1>4, <2>1 DEF Here
<1>6. CASE 1 < Len(todo)
  <2>1. todo' # <<>> /\ Here(todo') = todo[2] BY <1>1, <1>4, <1>6 DEF Here
  <2>2. Follows(todo[1], todo[1 + 1]) BY <1>1, <1>6 DEF Plan, Chain
  <2>3. Follows(s, Here(todo')) /\ s # "serve" BY <1>1, <2>1, <2>2 DEF Follows
  <2> QED BY <1>1, <1>4, <2>1, <2>3 DEF Here
<1>7. Len(todo) = 1 \/ 1 < Len(todo) BY <1>1, Lengths
<1> QED BY <1>5, <1>6, <1>7

\* A role that is not there is not taken down.
LEMMA SkipLeave ==
  ASSUME Plan(todo), todo # <<>>, todo[1] = "staLeave"
  PROVE  Plan(SubSeq(todo, 6, Len(todo))) /\ Here(SubSeq(todo, 6, Len(todo))) = "apRoleUp"
<1>1. todo \in Seq(Steps) /\ Len(todo) \in Nat \ {0} BY EmptySeq DEF Plan, Chain
<1> DEFINE More(i) == i < Len(todo) /\ Follows(todo[i], todo[i + 1])
<1>2. ASSUME NEW i \in 1 .. Len(todo), todo[i] \notin Last PROVE More(i)
  <2>1. i # Len(todo) BY <1>1, <1>2 DEF Plan
  <2>2. i \in 1 .. Len(todo) - 1 BY <1>1, <2>1
  <2> QED BY <2>2, <1>1 DEF Plan, Chain
<1>3. 1 < Len(todo) /\ todo[2] = "disconnect"
  <2>1. More(1) BY <1>1, <1>2 DEF Last
  <2> QED BY <2>1 DEF Follows
<1>4. 2 < Len(todo) /\ todo[3] = "linkDown"
  <2>1. More(2) BY <1>1, <1>2, <1>3 DEF Last
  <2> QED BY <2>1, <1>3 DEF Follows
<1>5. 3 < Len(todo) /\ todo[4] = "staRoleDown"
  <2>1. More(3) BY <1>1, <1>2, <1>4 DEF Last
  <2> QED BY <2>1, <1>4 DEF Follows
<1>6. 4 < Len(todo) /\ todo[5] = "staRemove"
  <2>1. More(4) BY <1>1, <1>2, <1>5 DEF Last
  <2> QED BY <2>1, <1>5 DEF Follows
<1>7. 5 < Len(todo) /\ todo[6] = "apRoleUp"
  <2>1. More(5) BY <1>1, <1>2, <1>6 DEF Last
  <2> QED BY <2>1, <1>6 DEF Follows
<1>8. 6 \in 2 .. Len(todo) + 1 /\ 6 # Len(todo) + 1 /\ 6 <= Len(todo) BY <1>1, <1>7
<1> QED BY <1>7, <1>8, RestPlan DEF Here

\* A role that does not come up has no link.
LEMMA SkipAp ==
  ASSUME Plan(todo), todo # <<>>, todo[1] = "apRoleUp"
  PROVE  /\ Plan(SubSeq(todo, 3, Len(todo)))
         /\ Here(SubSeq(todo, 3, Len(todo))) \in {"serve", "turn"}
<1>1. todo \in Seq(Steps) /\ Len(todo) \in Nat \ {0} BY EmptySeq DEF Plan, Chain
<1>2. 1 < Len(todo)
  <2>1. Len(todo) # 1 BY <1>1 DEF Plan, Last
  <2> QED BY <1>1, <2>1, Lengths
<1>3. todo[2] = "apLinkUp"
  <2>1. Follows(todo[1], todo[1 + 1]) BY <1>1, <1>2 DEF Plan, Chain
  <2> QED BY <2>1 DEF Follows
<1>4. 3 \in 2 .. Len(todo) + 1 BY <1>1, <1>2
<1>5. CASE Len(todo) = 2
  <2>1. 3 = Len(todo) + 1 BY <1>5
  <2> QED BY <1>4, <2>1, RestPlan DEF Here
<1>6. CASE 2 < Len(todo)
  <2>1. Follows(todo[2], todo[2 + 1]) BY <1>1, <1>6 DEF Plan, Chain
  <2>2. todo[3] = "serve" BY <1>3, <2>1 DEF Follows
  <2>3. 3 # Len(todo) + 1 /\ 3 <= Len(todo) BY <1>1, <1>6
  <2> QED BY <1>4, <2>2, <2>3, RestPlan DEF Here
<1>7. Len(todo) = 2 \/ 2 < Len(todo) BY <1>1, <1>2, Lengths
<1> QED BY <1>5, <1>6, <1>7

\* A board that could not join a network lets the user provision it.
LEMMA GiveUp ==
  ASSUME Plan(todo), todo # <<>>, todo[1] = "join"
  PROVE  Plan(Wifi!ToAp \o Tail(todo)) /\ Here(Wifi!ToAp \o Tail(todo)) = "staRoleUp"
<1>1. todo \in Seq(Steps) /\ Len(todo) \in Nat \ {0} BY EmptySeq DEF Plan, Chain
<1>2. 1 < Len(todo)
  <2>1. Len(todo) # 1 BY <1>1 DEF Plan, Last
  <2> QED BY <1>1, <2>1, Lengths
<1>3. todo[2] = "serve"
  <2>1. Follows(todo[1], todo[1 + 1]) BY <1>1, <1>2 DEF Plan, Chain
  <2> QED BY <2>1 DEF Follows
<1> DEFINE t == Tail(todo)
           a == Wifi!ToAp
<1>4. t = SubSeq(todo, 2, Len(todo)) BY <1>1
<1>5. 2 \in 2 .. Len(todo) + 1 /\ 2 # Len(todo) + 1 /\ 2 <= Len(todo) BY <1>1, <1>2
<1>6. Plan(t) /\ t # <<>> /\ t[1] = "serve" BY <1>3, <1>4, <1>5, RestPlan
<1>7. Chain(a) /\ a # <<>> /\ a[1] = "staRoleUp" /\ a[Len(a)] = "apLinkUp"
  BY Turns DEF Plan
<1>8. Chain(t) /\ Follows(a[Len(a)], t[1]) /\ t[Len(t)] \in Last
  BY <1>6, <1>7 DEF Follows, Plan
<1> HIDE DEF t, a
<1> DEFINE c == a \o t
<1>9. Chain(c) /\ c[1] = a[1] /\ c[Len(c)] = t[Len(t)] /\ c # <<>>
  BY <1>6, <1>7, <1>8, ChainConcat
<1> HIDE DEF c
<1>10. Plan(c) /\ Here(c) = "staRoleUp" BY <1>7, <1>8, <1>9 DEF Plan, Here
<1> QED BY <1>10 DEF c, t, a

-----------------------------------------------------------------------------
(* The main task.                                                          *)

\* What a step of the main task starts from.
LEMMA Begun ==
  ASSUME IInv, NEW s, Wifi!At(s)
  PROVE  Plan(todo) /\ todo # <<>> /\ todo[1] = s /\ Here(todo) = s /\ Place(s)
<1>1. Plan(todo) /\ todo # <<>> /\ Head(todo) = s BY DEF IInv, Wifi!At
<1>2. todo[1] = s BY <1>1 DEF Plan, Chain
<1> QED BY <1>1, <1>2 DEF IInv, Here

LEMMA StaRoleUpStep ==
  ASSUME IInv, Wifi!StaRoleUp PROVE IInv'
<1>1. Here(todo) = "staRoleUp" /\ Place("staRoleUp")
  BY Begun DEF Wifi!StaRoleUp
<1>2. Plan(todo') /\ Here(todo') \in {"scan", "connect"}
  BY Advance DEF Wifi!StaRoleUp, IInv, Last, Follows
<1>3. strayed' = strayed /\ ap' = ap /\ nwp' = nwp /\ ip' = ip
  BY DEF Wifi!StaRoleUp, Wifi!local
<1>4. \/ role' = role /\ sta' = sta
      \/ role # "STA" /\ role' = "STA" /\ sta' = [added |-> TRUE, link |-> FALSE]
      \/ role # "STA" /\ role' = role /\ sta' = [added |-> FALSE, link |-> FALSE]
  BY <1>3 DEF Wifi!StaRoleUp, IInv, Interfaces
<1>5. role # "STA" => ~ sta.added /\ ~ ip BY <1>1 DEF Place, Leaving, IInv
<1>6. Interfaces' /\ (ip => sta.added /\ sta.link)'
  <2>1. Interfaces /\ (ip => sta.added /\ sta.link) BY DEF IInv
  <2>2. sta' \in [added : BOOLEAN, link : BOOLEAN]
    <3>1. /\ [added |-> TRUE, link |-> FALSE] \in [added : BOOLEAN, link : BOOLEAN]
          /\ [added |-> FALSE, link |-> FALSE] \in [added : BOOLEAN, link : BOOLEAN]
      OBVIOUS
    <3>2. sta \in [added : BOOLEAN, link : BOOLEAN] BY <2>1 DEF Interfaces
    <3>3. \/ sta' = sta
          \/ sta' = [added |-> TRUE, link |-> FALSE]
          \/ sta' = [added |-> FALSE, link |-> FALSE]
      BY <1>4
    <3> HIDE DEF Interfaces
    <3> QED BY <3>1, <3>2, <3>3
  <2>3. role' \in {"NONE", "STA", "AP"} BY <1>4, <2>1 DEF Interfaces
  <2>4. ip' => sta'.added /\ sta'.link BY <1>3, <1>4, <1>5, <2>1
  <2>5. /\ ap' \in BOOLEAN /\ ip' \in BOOLEAN /\ strayed' \in BOOLEAN
        /\ nwp' = [joined |-> nwp'.joined, trying |-> nwp'.trying, events |-> nwp'.events]
    BY <1>3, <2>1 DEF Interfaces
  <2> QED BY <2>2, <2>3, <2>4, <2>5 DEF Interfaces
<1>7. Place(Here(todo))'
  BY <1>1, <1>2, <1>3, <1>4, <1>5 DEF Place, Leaving
<1> QED BY <1>1, <1>2, <1>3, <1>6, <1>7 DEF IInv

LEMMA ConnectStep ==
  ASSUME IInv, Wifi!Connect PROVE IInv'
<1>1. Here(todo) = "connect" /\ Place("connect")
  BY Begun DEF Wifi!Connect
<1>2. Plan(todo') /\ Here(todo') \in {"join", "arm", "turn"}
  BY Advance DEF Wifi!Connect, IInv, Last, Follows, Here
<1>3. role' = role /\ sta' = sta /\ ap' = ap /\ ip' = ip /\ strayed' = strayed
  BY DEF Wifi!Connect, Wifi!lwip, Wifi!local
<1>4. nwp' = [joined |-> nwp'.joined, trying |-> nwp'.trying, events |-> nwp'.events]
  BY DEF Wifi!Connect, IInv, Interfaces
<1>5. Place(Here(todo))' BY <1>1, <1>2, <1>3 DEF Place, Leaving
<1> QED BY <1>1, <1>2, <1>3, <1>4, <1>5 DEF IInv, Interfaces

LEMMA StaLeaveStep ==
  ASSUME IInv, Wifi!StaLeave PROVE IInv'
<1>1. /\ Plan(todo) /\ todo # <<>> /\ todo[1] = "staLeave"
      /\ Place("staLeave")
  BY Begun DEF Wifi!StaLeave
<1>2. sta' = sta /\ ap' = ap /\ strayed' = strayed /\ nwp' = nwp
  BY DEF Wifi!StaLeave, Wifi!local
<1>3. CASE role = "STA"
  <2>1. role' = "NONE" /\ ip' = FALSE BY <1>3 DEF Wifi!StaLeave
  <2>2. Plan(todo') /\ Here(todo') = "disconnect"
    BY <1>3, Advance DEF Wifi!StaLeave, IInv, Last, Follows
  <2> QED BY <1>1, <1>2, <1>3, <2>1, <2>2 DEF IInv, Interfaces, Place, Leaving
<1>4. CASE role # "STA"
  <2>1. role' = role /\ ip' = ip BY <1>4 DEF Wifi!StaLeave
  <2>2. Plan(todo') /\ Here(todo') = "apRoleUp" BY <1>1, <1>4, SkipLeave DEF Wifi!StaLeave
  <2>3. ~ sta.added /\ (role = "NONE" \/ (role = "AP" /\ strayed))
    BY <1>1, <1>4 DEF IInv, Interfaces, Place, Leaving
  <2> QED BY <1>1, <1>2, <2>1, <2>2, <2>3 DEF IInv, Interfaces, Place, Leaving
<1> QED BY <1>3, <1>4

LEMMA DisconnectStep ==
  ASSUME IInv, Wifi!Disconnect PROVE IInv'
<1>1. Place("disconnect") BY Begun DEF Wifi!Disconnect
<1>2. Plan(todo') /\ Here(todo') = "linkDown"
  BY Advance DEF Wifi!Disconnect, IInv, Last, Follows
<1>3. role' = role /\ sta' = sta /\ ap' = ap /\ ip' = ip /\ strayed' = strayed
  BY DEF Wifi!Disconnect, Wifi!lwip, Wifi!local
<1>4. /\ nwp' = [joined |-> nwp'.joined, trying |-> nwp'.trying, events |-> nwp'.events]
      /\ nwp'.joined = "none" /\ nwp'.trying = "none"
  BY DEF Wifi!Disconnect
<1> QED BY <1>1, <1>2, <1>3, <1>4 DEF IInv, Interfaces, Place, Leaving

\* The link goes down with the address.
LEMMA NoLinkNoIp ==
  ASSUME IInv, Wifi!LinkDown
  PROVE  /\ sta' \in [added : BOOLEAN, link : BOOLEAN] /\ sta'.added = sta.added
         /\ ip' = FALSE
<1>1. sta' = [sta EXCEPT !.link = FALSE] BY DEF Wifi!LinkDown
<1>2. sta \in [added : BOOLEAN, link : BOOLEAN] /\ (ip => sta.link) /\ ip \in BOOLEAN
  BY DEF IInv, Interfaces
<1>3. ip' = (ip /\ ~ sta.link) BY DEF Wifi!LinkDown
<1>4. ip' = FALSE BY <1>2, <1>3
<1> QED BY <1>1, <1>2, <1>4

LEMMA LinkDownStep ==
  ASSUME IInv, Wifi!StaLinkDown PROVE IInv'
<1>1. Place("linkDown") BY Begun DEF Wifi!StaLinkDown
<1>2. Plan(todo') /\ Here(todo') = "staRoleDown"
  BY Advance DEF Wifi!StaLinkDown, IInv, Last, Follows
<1>3. role' = role /\ ap' = ap /\ strayed' = strayed /\ nwp' = nwp
  BY DEF Wifi!StaLinkDown, Wifi!local
<1>4. sta' \in [added : BOOLEAN, link : BOOLEAN] /\ sta'.added = sta.added /\ ip' = FALSE
  BY NoLinkNoIp DEF Wifi!StaLinkDown
<1> QED BY <1>1, <1>2, <1>3, <1>4 DEF IInv, Interfaces, Place, Leaving

LEMMA RoleDownStep ==
  ASSUME IInv, Wifi!StaRoleDown PROVE IInv'
<1>1. Place("staRoleDown") BY Begun DEF Wifi!StaRoleDown
<1>2. Plan(todo') /\ Here(todo') = "staRemove"
  BY Advance DEF Wifi!StaRoleDown, IInv, Last, Follows
<1>3. role' = role /\ sta' = sta /\ ap' = ap /\ ip' = ip /\ strayed' = strayed
  BY DEF Wifi!StaRoleDown, Wifi!lwip, Wifi!local
<1>4. nwp = [joined |-> nwp.joined, trying |-> nwp.trying, events |-> nwp.events]
  BY DEF IInv, Interfaces
<1>5. nwp' = [joined |-> "none", trying |-> "none", events |-> nwp.events]
  BY <1>4 DEF Wifi!StaRoleDown
<1>6. /\ nwp' = [joined |-> nwp'.joined, trying |-> nwp'.trying, events |-> nwp'.events]
      /\ nwp'.joined = "none" /\ nwp'.trying = "none"
  BY <1>5
<1> QED BY <1>1, <1>2, <1>3, <1>6 DEF IInv, Interfaces, Place, Leaving

LEMMA RemoveStep ==
  ASSUME IInv, Wifi!StaRemove PROVE IInv'
<1>1. Place("staRemove") BY Begun DEF Wifi!StaRemove
<1>2. Plan(todo') /\ Here(todo') = "apRoleUp"
  BY Advance DEF Wifi!StaRemove, IInv, Last, Follows
<1>3. role' = role /\ ap' = ap /\ ip' = ip /\ strayed' = strayed /\ nwp' = nwp
  BY DEF Wifi!StaRemove, Wifi!local
<1>4. sta' \in [added : BOOLEAN, link : BOOLEAN] /\ sta'.added = FALSE
  BY DEF Wifi!StaRemove, IInv, Interfaces
<1> QED BY <1>1, <1>2, <1>3, <1>4 DEF IInv, Interfaces, Place, Leaving

LEMMA ScanStep ==
  ASSUME IInv, Wifi!Scan PROVE IInv'
<1>1. Place("scan") BY Begun DEF Wifi!Scan
<1>2. Plan(todo') /\ Here(todo') = "staLeave"
  BY Advance DEF Wifi!Scan, IInv, Last, Follows
<1>3. role' = role /\ sta' = sta /\ ap' = ap /\ ip' = ip /\ strayed' = strayed /\ nwp' = nwp
  BY DEF Wifi!Scan, Wifi!lwip, Wifi!local
<1> QED BY <1>1, <1>2, <1>3 DEF IInv, Interfaces, Place, Leaving

LEMMA ApRoleUpStep ==
  ASSUME IInv, Wifi!ApRoleUp PROVE IInv'
<1>1. /\ Plan(todo) /\ todo # <<>> /\ todo[1] = "apRoleUp"
      /\ Place("apRoleUp")
  BY Begun DEF Wifi!ApRoleUp
<1>2. /\ ~ sta.added /\ (role = "NONE" \/ (role = "AP" /\ strayed))
      /\ role = "NONE" => ap = FALSE \/ strayed
  BY <1>1 DEF IInv, Interfaces, Place, Leaving
<1>3. sta' = sta /\ ip' = ip /\ strayed' = strayed /\ nwp' = nwp /\ role' = role
  BY DEF Wifi!ApRoleUp, Wifi!local
<1>4. CASE role # "AP" /\ Wifi!Done /\ ap' = TRUE
  <2>1. Plan(todo') /\ Here(todo') = "apLinkUp"
    BY <1>4, Advance DEF Wifi!ApRoleUp, IInv, Last, Follows
  <2> QED BY <1>1, <1>2, <1>3, <1>4, <2>1 DEF IInv, Interfaces, Place, Leaving
<1>5. CASE todo' = SubSeq(todo, 3, Len(todo)) /\ ap' = ap
  <2>1. Plan(todo') /\ Here(todo') \in {"serve", "turn"} BY <1>1, <1>5, SkipAp
  <2> QED BY <1>1, <1>2, <1>3, <1>5, <2>1 DEF IInv, Interfaces, Place, Leaving
<1> QED BY <1>4, <1>5 DEF Wifi!ApRoleUp

LEMMA ApLinkUpStep ==
  ASSUME IInv, Wifi!ApLinkUp PROVE IInv'
<1>1. Place("apLinkUp") BY Begun DEF Wifi!ApLinkUp
<1>2. Plan(todo') /\ Here(todo') \in {"serve", "turn"}
  BY Advance DEF Wifi!ApLinkUp, IInv, Last, Follows, Here
<1>3. role = "NONE" /\ ~ sta.added /\ (ap = TRUE \/ strayed)
  BY <1>1 DEF IInv, Interfaces, Place, Leaving
<1>4. role' = "AP" /\ sta' = sta /\ ap' = ap /\ ip' = ip /\ strayed' = strayed /\ nwp' = nwp
  BY DEF Wifi!ApLinkUp, Wifi!lwip, Wifi!local
<1> QED BY <1>1, <1>2, <1>3, <1>4 DEF IInv, Interfaces, Place, Leaving

LEMMA ApDownStep ==
  ASSUME IInv, Wifi!ApDown PROVE IInv'
<1>1. Place("apDown") BY Begun DEF Wifi!ApDown
<1>2. Plan(todo') /\ Here(todo') = "staRoleUp"
  BY Advance DEF Wifi!ApDown, IInv, Last, Follows
<1>3. sta' = sta /\ ip' = ip /\ strayed' = strayed /\ nwp' = nwp
  BY DEF Wifi!ApDown, Wifi!local
<1>4. CASE role = "AP"
  <2>1. role' = "NONE" /\ ap' = FALSE BY <1>4 DEF Wifi!ApDown
  <2> QED BY <1>1, <1>2, <1>3, <1>4, <2>1 DEF IInv, Interfaces, Place, Leaving
<1>5. CASE role # "AP"
  <2>1. role' = role /\ ap' = ap BY <1>5 DEF Wifi!ApDown
  <2> QED BY <1>1, <1>2, <1>3, <1>5, <2>1 DEF IInv, Interfaces, Place, Leaving
<1> QED BY <1>4, <1>5

LEMMA JoinStep ==
  ASSUME IInv, Wifi!Join PROVE IInv'
<1>1. /\ Plan(todo) /\ todo # <<>> /\ todo[1] = "join" /\ Place("join")
  BY Begun DEF Wifi!Join
<1>2. role' = role /\ sta' = sta /\ ap' = ap /\ ip' = ip /\ strayed' = strayed /\ nwp' = nwp
  BY DEF Wifi!Join, Wifi!lwip
<1>3. Plan(todo') /\ Here(todo') \in {"serve", "staRoleUp"}
  <2>1. CASE Wifi!Done BY <2>1, Advance DEF Wifi!Join, IInv, Last, Follows
  <2>2. CASE todo' = Wifi!ToAp \o Tail(todo) BY <1>1, <2>2, GiveUp
  <2> QED BY <2>1, <2>2 DEF Wifi!Join
<1> QED BY <1>1, <1>2, <1>3 DEF IInv, Interfaces, Place, Leaving

LEMMA LastStep ==
  ASSUME IInv, Wifi!Serve \/ Wifi!Arm PROVE IInv'
<1>1. PICK s \in {"serve", "arm"} : Wifi!At(s) /\ Wifi!Done BY DEF Wifi!Serve, Wifi!Arm
<1>2. Place(s) BY <1>1, Begun
<1>3. Plan(todo') /\ Here(todo') = "turn"
  BY <1>1, Advance DEF IInv, Last, Follows, Here
<1>4. role' = role /\ sta' = sta /\ ap' = ap /\ ip' = ip /\ strayed' = strayed /\ nwp' = nwp
  BY DEF Wifi!Serve, Wifi!Arm, Wifi!lwip
<1> QED BY <1>1, <1>2, <1>3, <1>4 DEF IInv, Interfaces, Place, Leaving

-----------------------------------------------------------------------------
(* The turns, the requests, the events and the network.                    *)

LEMMA TurnStep ==
  ASSUME IInv,
         Wifi!Provision \/ Wifi!Forget \/ Wifi!Seen \/ Wifi!Retry \/ Wifi!StartTiming
           \/ Wifi!Fallback
  PROVE  IInv'
<1>1. Wifi!Turn
  BY DEF Wifi!Provision, Wifi!Forget, Wifi!Seen, Wifi!Retry, Wifi!StartTiming,
         Wifi!Fallback, Wifi!NoIp
<1>2. role' = role /\ sta' = sta /\ ap' = ap /\ ip' = ip /\ nwp' = nwp /\ todo = <<>>
  BY <1>1 DEF Wifi!Turn, Wifi!lwip
<1>3. /\ Interfaces /\ (ip => sta.added /\ sta.link) /\ Place("turn") /\ Plan(todo)
  BY <1>2 DEF IInv, Here
<1>4. ASSUME strayed' \in BOOLEAN PROVE Interfaces' /\ (ip => sta.added /\ sta.link)'
  BY <1>2, <1>3, <1>4 DEF Interfaces
<1>a. strayed \in BOOLEAN BY <1>3 DEF Interfaces
<1>5. CASE Wifi!Provision
  <2>1. todo' = Wifi!ToSta /\ strayed' = strayed BY <1>5 DEF Wifi!Provision
  <2>2. Plan(todo') /\ Here(todo') = "apDown" BY <2>1, Turns DEF Here
  <2> QED BY <1>2, <1>3, <1>4, <1>a, <2>1, <2>2 DEF IInv, Place, Leaving
<1>6. CASE Wifi!Forget
  <2>1. todo' = Wifi!ToAp /\ strayed' = (strayed \/ role = "AP") BY <1>6 DEF Wifi!Forget
  <2>2. Plan(todo') /\ Here(todo') = "staRoleUp" BY <2>1, Turns DEF Here
  <2> QED BY <1>2, <1>3, <1>4, <1>a, <2>1, <2>2 DEF IInv, Place, Leaving
<1>7. CASE Wifi!Fallback
  <2>1. todo' = Wifi!ToAp /\ strayed' = strayed /\ role # "AP"
    BY <1>7 DEF Wifi!Fallback, Wifi!NoIp
  <2>2. Plan(todo') /\ Here(todo') = "staRoleUp" BY <2>1, Turns DEF Here
  <2> QED BY <1>2, <1>3, <1>4, <1>a, <2>1, <2>2 DEF IInv, Place, Leaving
<1>8. CASE Wifi!Retry
  <2>1. todo' = <<"connect">> /\ strayed' = strayed /\ role = "STA"
    BY <1>8 DEF Wifi!Retry, Wifi!NoIp, Wifi!local
  <2>2. Plan(todo') /\ Here(todo') = "connect" BY <2>1, Turns DEF Here
  <2> QED BY <1>2, <1>3, <1>4, <1>a, <2>1, <2>2 DEF IInv, Place, Leaving
<1>9. CASE Wifi!Seen \/ Wifi!StartTiming
  <2>1. todo' = todo /\ strayed' = strayed BY <1>9 DEF Wifi!Seen, Wifi!StartTiming
  <2> QED BY <1>2, <1>3, <1>4, <1>a, <2>1 DEF IInv, Place, Leaving, Here
<1> QED BY <1>5, <1>6, <1>7, <1>8, <1>9

LEMMA RequestStep ==
  ASSUME IInv, Wifi!Request PROVE IInv'
<1>1. /\ role' = role /\ sta' = sta /\ ap' = ap /\ ip' = ip /\ nwp' = nwp /\ todo' = todo
      /\ strayed' = strayed
  BY DEF Wifi!Request, Wifi!lwip
<1> QED BY <1>1 DEF IInv, Interfaces, Place, Leaving

\* What leaves the roles alone, and begins no attempt, leaves the plan in place.
LEMMA Aside ==
  ASSUME IInv, role' = role, ap' = ap, todo' = todo, strayed' = strayed,
         sta' \in [added : BOOLEAN, link : BOOLEAN], sta'.added = sta.added,
         ip' \in BOOLEAN, ip' => sta'.added /\ sta'.link,
         ip' => ip \/ nwp.joined # "none",
         nwp' = [joined |-> nwp'.joined, trying |-> nwp'.trying, events |-> nwp'.events],
         nwp.joined = "none" /\ nwp.trying = "none"
           => nwp'.joined = "none" /\ nwp'.trying = "none"
  PROVE  IInv'
BY DEF IInv, Interfaces, Place, Leaving

LEMMA EventStep ==
  ASSUME IInv, Wifi!TakeEvent \/ Wifi!ActOnEvent PROVE IInv'
<1>1. /\ Interfaces /\ (ip => sta.added /\ sta.link) BY DEF IInv
<1>2. CASE Wifi!TakeEvent
  <2>1. /\ role' = role /\ sta' = sta /\ ap' = ap /\ ip' = ip /\ strayed' = strayed /\ todo' = todo
    BY <1>2 DEF Wifi!TakeEvent, Wifi!lwip, Wifi!local
  <2>2. /\ nwp' = [joined |-> nwp'.joined, trying |-> nwp'.trying, events |-> nwp'.events]
        /\ nwp'.joined = nwp.joined /\ nwp'.trying = nwp.trying
    BY <1>1, <1>2 DEF Wifi!TakeEvent, Interfaces
  <2> QED BY <1>1, <2>1, <2>2, Aside DEF Interfaces
<1>3. CASE Wifi!ActOnEvent
  <2>1. role' = role /\ ap' = ap /\ strayed' = strayed /\ todo' = todo /\ nwp' = nwp
    BY <1>3 DEF Wifi!ActOnEvent, Wifi!local
  <2>2. CASE sta' = [sta EXCEPT !.link = TRUE] /\ ip' = ip
    <3>1. /\ sta' \in [added : BOOLEAN, link : BOOLEAN] /\ sta'.added = sta.added
          /\ sta'.link = TRUE
      BY <1>1, <2>2 DEF Interfaces
    <3> QED BY <1>1, <2>1, <2>2, <3>1, Aside DEF Interfaces
  <2>3. CASE Wifi!LinkDown
    <3>1. /\ sta' \in [added : BOOLEAN, link : BOOLEAN] /\ sta'.added = sta.added
          /\ ip' = FALSE
      BY <2>3, NoLinkNoIp
    <3> QED BY <1>1, <2>1, <3>1, Aside DEF Interfaces
  <2> QED BY <1>3, <2>2, <2>3 DEF Wifi!ActOnEvent, Wifi!LinkCallback
<1> QED BY <1>2, <1>3

LEMMA NwpStep ==
  ASSUME IInv, Wifi!NwpConnects \/ Wifi!Lease \/ Wifi!LinkLost \/ Wifi!Calm PROVE IInv'
<1>1. /\ Interfaces /\ (ip => sta.added /\ sta.link) BY DEF IInv
<1>2. role' = role /\ sta' = sta /\ ap' = ap /\ strayed' = strayed /\ todo' = todo
  BY DEF Wifi!NwpConnects, Wifi!Lease, Wifi!LinkLost, Wifi!Calm, Wifi!NwpOnly, Wifi!lwip,
         Wifi!local
<1>3. CASE Wifi!Lease
  <2>1. ip' = TRUE /\ sta.added /\ sta.link /\ nwp.joined # "none" /\ nwp' = nwp
    BY <1>3 DEF Wifi!Lease
  <2> QED BY <1>1, <1>2, <2>1, Aside DEF Interfaces
<1>4. CASE Wifi!Calm
  <2>1. ip' = ip /\ nwp' = nwp BY <1>4 DEF Wifi!Calm, Wifi!lwip
  <2> QED BY <1>1, <1>2, <2>1, Aside DEF Interfaces
<1>5. CASE Wifi!NwpConnects
  <2>1. ip' = ip /\ nwp.trying # "none" BY <1>5 DEF Wifi!NwpConnects
  <2>2. nwp' = [joined |-> nwp'.joined, trying |-> nwp'.trying, events |-> nwp'.events]
    <3>1. CASE nwp.trying = "good" BY <1>5, <3>1 DEF Wifi!NwpConnects
    <3>2. CASE nwp.trying # "good"
      <4>1. nwp' = [nwp EXCEPT !.trying = "none"] BY <1>5, <3>2 DEF Wifi!NwpConnects
      <4> QED BY <1>1, <4>1 DEF Interfaces
    <3> QED BY <3>1, <3>2
  <2> QED BY <1>1, <1>2, <2>1, <2>2, Aside DEF Interfaces
<1>6. CASE Wifi!LinkLost
  <2>1. ip' = ip /\ nwp.joined # "none" BY <1>6 DEF Wifi!LinkLost
  <2>2. nwp' = [joined |-> nwp'.joined, trying |-> nwp'.trying, events |-> nwp'.events]
    <3>1. PICK es : nwp' = [nwp EXCEPT !.joined = "none", !.events = es]
      BY <1>6 DEF Wifi!LinkLost
    <3> QED BY <1>1, <3>1 DEF Interfaces
  <2> QED BY <1>1, <1>2, <2>1, <2>2, Aside DEF Interfaces
<1> QED BY <1>3, <1>4, <1>5, <1>6

-----------------------------------------------------------------------------
(* The theorems about the roles.                                           *)

LEMMA Starts == ASSUME Init PROVE IInv
<1>1. Wifi!Init BY DEF Init
<1>2. Plan(todo) /\ Here(todo) = "staRoleUp" BY <1>1, Boots DEF Wifi!Init
<1>3. /\ role = "NONE" /\ sta = [added |-> FALSE, link |-> FALSE] /\ ap = FALSE /\ ip = FALSE
      /\ strayed = FALSE /\ nwp = [joined |-> "none", trying |-> "none", events |-> <<>>]
  BY <1>1 DEF Wifi!Init
<1>4. Interfaces BY <1>3 DEF Interfaces
<1> QED BY <1>2, <1>3, <1>4 DEF IInv, Place, Leaving

LEMMA Steady ==
  ASSUME IInv, [Next]_vars PROVE IInv'
<1>1. CASE OnWifi(Wifi!Next)
  <2>1. Wifi!Next BY <1>1 DEF OnWifi
  <2>2. CASE Wifi!MainStep
    BY <2>2, StaRoleUpStep, ConnectStep, StaLeaveStep, DisconnectStep, LinkDownStep,
       RoleDownStep, RemoveStep, ScanStep, ApRoleUpStep, ApLinkUpStep, ApDownStep, JoinStep,
       LastStep
       DEF Wifi!MainStep
  <2> QED BY <2>1, <2>2, TurnStep, RequestStep, EventStep, NwpStep DEF Wifi!Next
<1>2. CASE OnNtp(Ntp!Next) \/ UNCHANGED vars
  <2>1. /\ role' = role /\ sta' = sta /\ ap' = ap /\ ip' = ip /\ nwp' = nwp /\ todo' = todo
        /\ strayed' = strayed
    BY <1>2 DEF OnNtp, vars, wifiVars
  <2> QED BY <2>1 DEF IInv, Interfaces, Place, Leaving, Here, Plan, Chain
<1> QED BY <1>1, <1>2 DEF Next

LEMMA Shows == ASSUME IInv PROVE Wifi!OneInterface /\ Wifi!IpTruth
<1>1. ap => ~ sta.added \/ strayed
  BY DEF IInv, Interfaces, Place, Leaving
<1> QED BY <1>1 DEF IInv, Wifi!OneInterface, Wifi!MutuallyExclusive, Wifi!IpTruth

\* lwIP never has the interfaces of both roles: the station's is removed before the access
\* point's is added, and the other way round, whatever event, lease, failed role or request
\* of the setup page comes between the steps of a switch (net_wifi.c, main.c).  It ends
\* with the first Forget that main.c:555 carries out in the role of the access point.
THEOREM RolesExclude == Spec => []OneInterface
<1>1. Init => IInv BY Starts
<1>2. IInv /\ [Next]_vars => IInv' BY Steady
<1>3. IInv => OneInterface BY Shows DEF OneInterface
<1> QED BY <1>1, <1>2, <1>3, PTL DEF Spec

\* g_iIpAcquired is set only while the station's interface is there and its link is up,
\* whenever a lease, a late event, a role switch and a Forget in any role meet (net_wifi.c).
THEOREM AddressHasLink == Spec => []IpTruth
<1>1. Init => IInv BY Starts
<1>2. IInv /\ [Next]_vars => IInv' BY Steady
<1>3. IInv => IpTruth BY Shows DEF IpTruth
<1> QED BY <1>1, <1>2, <1>3, PTL DEF Spec

-----------------------------------------------------------------------------
(* The ranges.  The roles: what the main task has to do is a plan, and no  *)
(* plan is longer than the longest way through Follows.                    *)

\* How many steps can be left, this one counted.
Rank(x) ==
  CASE x = "apDown" -> 11
    [] x = "staRoleUp" -> 10
    [] x = "scan" -> 9
    [] x = "staLeave" -> 8
    [] x = "disconnect" -> 7
    [] x = "linkDown" -> 6
    [] x = "staRoleDown" -> 5
    [] x = "staRemove" -> 4
    [] x \in {"apRoleUp", "connect"} -> 3
    [] x \in {"apLinkUp", "join"} -> 2
    [] x \in {"arm", "serve"} -> 1

Events == {"connect", "disconnect"}

\* The types of NetWifi!TypeOK, but for the length of todo, and the events.
Roles ==
  /\ role \in {"NONE", "STA", "AP"}
  /\ sta \in [added : BOOLEAN, link : BOOLEAN] /\ ap \in BOOLEAN /\ ip \in BOOLEAN
  /\ nwp \in [joined : Wifi!Nets, trying : Wifi!Nets, events : Seq(Events)]
  /\ Len(nwp.events) <= MaxEvents /\ ev \in Events \cup {"none"} /\ lastIp \in Wifi!Nets

Choices ==
  /\ creds \in Wifi!Nets /\ had \in BOOLEAN /\ timing \in BOOLEAN /\ ~(had /\ timing)
  /\ httpd \in BOOLEAN /\ req \in Wifi!Nets \cup {"forget"}
  /\ faults \in 0 .. MaxFaults /\ requests \in 0 .. MaxRequests
  /\ strayed \in BOOLEAN

WifiInv == Roles /\ Choices /\ Plan(todo)

LEMMA Ranks ==
  /\ \A x \in Steps : Rank(x) \in 1 .. 11
  /\ \A x, y \in Steps : Follows(x, y) => Rank(y) <= Rank(x) - 1
<1>1. ASSUME NEW x \in Steps PROVE Rank(x) \in 1 .. 11 BY DEF Steps, Rank
<1>2. ASSUME NEW x \in Steps, NEW y \in Steps, Follows(x, y) PROVE Rank(y) <= Rank(x) - 1
  BY <1>2 DEF Steps, Follows, Rank
<1> QED BY <1>1, <1>2

LEMMA PlanIsShort == ASSUME NEW t, Plan(t) PROVE Len(t) <= 11
<1>1. t \in Seq(Steps) /\ Len(t) \in Nat /\ \A i \in 1 .. Len(t) - 1 : Follows(t[i], t[i + 1])
  BY DEF Plan, Chain
<1> DEFINE R(i) == Rank(t[i])
<1>2. \A i \in 1 .. Len(t) : R(i) \in 1 .. 11 BY <1>1, Ranks
<1>3. ASSUME NEW i \in 1 .. Len(t) - 1 PROVE R(i + 1) <= R(i) - 1
  <2>1. t[i] \in Steps /\ t[i + 1] \in Steps /\ Follows(t[i], t[i + 1]) BY <1>1
  <2> QED BY <2>1, Ranks
<1> HIDE DEF R
<1>4. ASSUME Len(t) > 11 PROVE FALSE
  <2>1. /\ R(2) <= R(1) - 1 /\ R(3) <= R(2) - 1 /\ R(4) <= R(3) - 1 /\ R(5) <= R(4) - 1
        /\ R(6) <= R(5) - 1 /\ R(7) <= R(6) - 1
    BY <1>1, <1>3, <1>4
  <2>2. /\ R(8) <= R(7) - 1 /\ R(9) <= R(8) - 1 /\ R(10) <= R(9) - 1 /\ R(11) <= R(10) - 1
        /\ R(12) <= R(11) - 1
    BY <1>1, <1>3, <1>4
  <2>3. /\ R(1) \in 1 .. 11 /\ R(2) \in 1 .. 11 /\ R(3) \in 1 .. 11 /\ R(4) \in 1 .. 11
        /\ R(5) \in 1 .. 11 /\ R(6) \in 1 .. 11
    BY <1>1, <1>2, <1>4
  <2>4. /\ R(7) \in 1 .. 11 /\ R(8) \in 1 .. 11 /\ R(9) \in 1 .. 11 /\ R(10) \in 1 .. 11
        /\ R(11) \in 1 .. 11 /\ R(12) \in 1 .. 11
    BY <1>1, <1>2, <1>4
  <2> QED BY <2>1, <2>2, <2>3, <2>4
<1> QED BY <1>1, <1>4

\* A step of the main task leaves a plan, and so does a turn.
LEMMA PlanKept == ASSUME Plan(todo), Wifi!Next PROVE Plan(todo')
<1>1. ASSUME NEW s, Wifi!At(s), Wifi!Done PROVE Plan(todo') BY <1>1, Advance
<1>2. ASSUME NEW s, Wifi!At(s) PROVE todo # <<>> /\ todo[1] = s
  BY <1>2 DEF Wifi!At, Plan, Chain
<1>3. CASE Wifi!MainStep
  <2>1. CASE Wifi!StaLeave
    <3>1. CASE role = "STA" BY <1>1, <2>1, <3>1 DEF Wifi!StaLeave
    <3>2. CASE role # "STA"
      <4>1. todo # <<>> /\ todo[1] = "staLeave" BY <1>2, <2>1 DEF Wifi!StaLeave
      <4> QED BY <2>1, <3>2, <4>1, SkipLeave DEF Wifi!StaLeave
    <3> QED BY <3>1, <3>2
  <2>2. CASE Wifi!ApRoleUp
    <3>1. todo # <<>> /\ todo[1] = "apRoleUp" BY <1>2, <2>2 DEF Wifi!ApRoleUp
    <3>2. CASE Wifi!Done BY <1>1, <2>2, <3>2 DEF Wifi!ApRoleUp
    <3>3. CASE todo' = SubSeq(todo, 3, Len(todo)) BY <3>1, <3>3, SkipAp
    <3> QED BY <2>2, <3>2, <3>3 DEF Wifi!ApRoleUp
  <2>3. CASE Wifi!Join
    <3>1. todo # <<>> /\ todo[1] = "join" BY <1>2, <2>3 DEF Wifi!Join
    <3>2. CASE Wifi!Done BY <1>1, <2>3, <3>2 DEF Wifi!Join
    <3>3. CASE todo' = Wifi!ToAp \o Tail(todo) BY <3>1, <3>3, GiveUp
    <3> QED BY <2>3, <3>2, <3>3 DEF Wifi!Join
  <2>4. CASE Wifi!StaRoleUp BY <1>1, <2>4 DEF Wifi!StaRoleUp
  <2>5. CASE Wifi!Connect BY <1>1, <2>5 DEF Wifi!Connect
  <2>6. CASE Wifi!Disconnect BY <1>1, <2>6 DEF Wifi!Disconnect
  <2>7. CASE Wifi!StaLinkDown BY <1>1, <2>7 DEF Wifi!StaLinkDown
  <2>8. CASE Wifi!StaRoleDown BY <1>1, <2>8 DEF Wifi!StaRoleDown
  <2>9. CASE Wifi!StaRemove BY <1>1, <2>9 DEF Wifi!StaRemove
  <2>10. CASE Wifi!Scan BY <1>1, <2>10 DEF Wifi!Scan
  <2>11. CASE Wifi!ApLinkUp BY <1>1, <2>11 DEF Wifi!ApLinkUp
  <2>12. CASE Wifi!ApDown BY <1>1, <2>12 DEF Wifi!ApDown
  <2>13. CASE Wifi!Serve BY <1>1, <2>13 DEF Wifi!Serve
  <2>14. CASE Wifi!Arm BY <1>1, <2>14 DEF Wifi!Arm
  <2> QED BY <1>3, <2>1, <2>2, <2>3, <2>4, <2>5, <2>6, <2>7, <2>8, <2>9, <2>10, <2>11,
             <2>12, <2>13, <2>14
          DEF Wifi!MainStep
<1>4. CASE Wifi!Provision \/ Wifi!Forget \/ Wifi!Retry \/ Wifi!Fallback
  <2>1. todo' \in {Wifi!ToSta, Wifi!ToAp, <<"connect">>}
    BY <1>4 DEF Wifi!Provision, Wifi!Forget, Wifi!Retry, Wifi!Fallback
  <2> QED BY <2>1, Turns
<1>5. CASE \/ Wifi!Seen \/ Wifi!StartTiming \/ Wifi!Request \/ Wifi!TakeEvent
           \/ Wifi!ActOnEvent \/ Wifi!NwpConnects \/ Wifi!Lease \/ Wifi!LinkLost \/ Wifi!Calm
  <2>1. todo' = todo
    BY <1>5 DEF Wifi!Seen, Wifi!StartTiming, Wifi!Request, Wifi!TakeEvent, Wifi!ActOnEvent,
         Wifi!NwpConnects, Wifi!Lease, Wifi!LinkLost, Wifi!Calm, Wifi!NwpOnly
  <2> QED BY <2>1
<1> QED BY <1>3, <1>4, <1>5 DEF Wifi!Next

\* The steps of the roles, and of the station.
LEMMA MainRoles ==
  ASSUME Roles, Wifi!MainStep
  PROVE  /\ role' \in {"NONE", "STA", "AP"} /\ sta' \in [added : BOOLEAN, link : BOOLEAN]
         /\ ap' \in BOOLEAN /\ ip' \in BOOLEAN /\ ev' = ev /\ lastIp' = lastIp
<1>1. /\ role \in {"NONE", "STA", "AP"} /\ sta \in [added : BOOLEAN, link : BOOLEAN]
      /\ ap \in BOOLEAN /\ ip \in BOOLEAN
  BY DEF Roles
<1>2. ev' = ev /\ lastIp' = lastIp
  BY DEF Wifi!MainStep, Wifi!StaRoleUp, Wifi!Connect, Wifi!StaLeave, Wifi!Disconnect,
       Wifi!StaLinkDown, Wifi!StaRoleDown, Wifi!StaRemove, Wifi!Scan, Wifi!ApRoleUp,
       Wifi!ApLinkUp, Wifi!ApDown, Wifi!Join, Wifi!Serve, Wifi!Arm, Wifi!lwip
<1>3. CASE Wifi!StaRoleUp
  <2>1. ap' = ap /\ ip' = ip /\ role' \in {role, "STA"} BY <1>3 DEF Wifi!StaRoleUp
  <2>2. /\ [added |-> TRUE, link |-> FALSE] \in [added : BOOLEAN, link : BOOLEAN]
        /\ [added |-> FALSE, link |-> FALSE] \in [added : BOOLEAN, link : BOOLEAN]
    OBVIOUS
  <2>3. \/ sta' = sta
        \/ sta' = [added |-> TRUE, link |-> FALSE]
        \/ sta' = [added |-> FALSE, link |-> FALSE]
    BY <1>3 DEF Wifi!StaRoleUp
  <2>4. sta' \in [added : BOOLEAN, link : BOOLEAN] BY <1>1, <2>2, <2>3
  <2> QED BY <1>1, <1>2, <2>1, <2>4
<1>4. CASE Wifi!StaLinkDown
  <2>1. role' = role /\ ap' = ap BY <1>4 DEF Wifi!StaLinkDown
  <2>2. sta' = [sta EXCEPT !.link = FALSE] /\ ip' = (ip /\ ~ sta.link)
    BY <1>4 DEF Wifi!StaLinkDown, Wifi!LinkDown
  <2> QED BY <1>1, <1>2, <2>1, <2>2
<1>5. CASE Wifi!StaRemove
  <2>1. role' = role /\ ap' = ap /\ ip' = ip /\ sta' = [sta EXCEPT !.added = FALSE]
    BY <1>5 DEF Wifi!StaRemove
  <2> QED BY <1>1, <1>2, <2>1
<1>6. CASE Wifi!StaLeave \/ Wifi!ApRoleUp \/ Wifi!ApDown \/ Wifi!ApLinkUp
  <2>1. /\ sta' = sta /\ role' \in {role, "NONE", "AP"}
        /\ ip' = ip \/ ip' = FALSE
        /\ ap' = ap \/ ap' = TRUE \/ ap' = FALSE
    BY <1>6 DEF Wifi!StaLeave, Wifi!ApRoleUp, Wifi!ApDown, Wifi!ApLinkUp, Wifi!lwip
  <2> QED BY <1>1, <1>2, <2>1
<1>7. CASE Wifi!Connect \/ Wifi!Disconnect \/ Wifi!StaRoleDown \/ Wifi!Scan \/ Wifi!Join
             \/ Wifi!Serve \/ Wifi!Arm
  <2>1. sta' = sta /\ role' = role /\ ip' = ip /\ ap' = ap
    BY <1>7 DEF Wifi!Connect, Wifi!Disconnect, Wifi!StaRoleDown, Wifi!Scan, Wifi!Join,
         Wifi!Serve, Wifi!Arm, Wifi!lwip
  <2> QED BY <1>1, <1>2, <2>1
<1> QED BY <1>3, <1>4, <1>5, <1>6, <1>7 DEF Wifi!MainStep

\* An event is raised when it finds room, and lost when it does not.
LEMMA RaisedFits ==
  ASSUME Roles, NEW e \in Events
  PROVE  Wifi!Raised(e) \in Seq(Events) /\ Len(Wifi!Raised(e)) <= MaxEvents
<1>1. nwp.events \in Seq(Events) /\ Len(nwp.events) <= MaxEvents /\ Len(nwp.events) \in Nat
  BY DEF Roles
<1>2. CASE Len(nwp.events) < MaxEvents
  <2>1. Wifi!Raised(e) = Append(nwp.events, e) BY <1>2 DEF Wifi!Raised
  <2>2. /\ Append(nwp.events, e) \in Seq(Events)
        /\ Len(Append(nwp.events, e)) = Len(nwp.events) + 1
    BY <1>1
  <2> QED BY <1>1, <1>2, <2>1, <2>2, BoundsAssumption
<1>3. CASE ~(Len(nwp.events) < MaxEvents) BY <1>1, <1>3 DEF Wifi!Raised
<1> QED BY <1>2, <1>3

NwpTypes ==
  nwp \in [joined : Wifi!Nets, trying : Wifi!Nets, events : Seq(Events)]
    /\ Len(nwp.events) <= MaxEvents

LEMMA NwpTyped ==
  ASSUME NEW j \in Wifi!Nets, NEW t \in Wifi!Nets, NEW es \in Seq(Events),
         Len(es) <= MaxEvents, nwp' = [joined |-> j, trying |-> t, events |-> es]
  PROVE  NwpTypes'
BY DEF NwpTypes

LEMMA NwpKept == ASSUME Roles, Choices, Wifi!Next PROVE NwpTypes'
<1> DEFINE j == nwp.joined
           t == nwp.trying
           es == nwp.events
<1>1. /\ NwpTypes /\ j \in Wifi!Nets /\ t \in Wifi!Nets /\ es \in Seq(Events)
      /\ Len(es) <= MaxEvents /\ nwp = [joined |-> j, trying |-> t, events |-> es]
  BY DEF Roles, NwpTypes
<1>2. \A e \in Events : Wifi!Raised(e) \in Seq(Events) /\ Len(Wifi!Raised(e)) <= MaxEvents
  BY RaisedFits
<1>3. "none" \in Wifi!Nets /\ "good" \in Wifi!Nets /\ creds \in Wifi!Nets
      /\ "connect" \in Events /\ "disconnect" \in Events
  BY DEF Wifi!Nets, Wifi!Networks, Choices, Events
<1>4. CASE Wifi!Connect
  <2>1. CASE nwp' = nwp BY <1>1, <2>1 DEF NwpTypes
  <2>2. CASE nwp' = [nwp EXCEPT !.trying = creds,
                                !.joined = IF j = creds THEN creds ELSE "none",
                                !.events = IF j \notin {creds, "none"}
                                           THEN Wifi!Raised("disconnect") ELSE es]
    <3> DEFINE k == IF j = creds THEN creds ELSE "none"
               fs == IF j \notin {creds, "none"} THEN Wifi!Raised("disconnect") ELSE es
    <3>1. nwp' = [joined |-> k, trying |-> creds, events |-> fs] BY <1>1, <2>2
    <3>2. k \in Wifi!Nets /\ fs \in Seq(Events) /\ Len(fs) <= MaxEvents BY <1>1, <1>2, <1>3
    <3> HIDE DEF k, fs
    <3> QED BY <1>3, <3>1, <3>2, NwpTyped
  <2> QED BY <1>4, <2>1, <2>2 DEF Wifi!Connect
<1>5. CASE Wifi!Disconnect
  <2> DEFINE fs == IF j # "none" THEN Wifi!Raised("disconnect") ELSE es
  <2>1. nwp' = [joined |-> "none", trying |-> "none", events |-> fs]
    BY <1>5 DEF Wifi!Disconnect
  <2>2. fs \in Seq(Events) /\ Len(fs) <= MaxEvents BY <1>1, <1>2, <1>3
  <2> HIDE DEF fs
  <2> QED BY <1>3, <2>1, <2>2, NwpTyped
<1>6. CASE Wifi!StaRoleDown
  <2>1. nwp' = [joined |-> "none", trying |-> "none", events |-> es]
    BY <1>1, <1>6 DEF Wifi!StaRoleDown
  <2> QED BY <1>1, <1>3, <2>1, NwpTyped
<1>7. CASE Wifi!TakeEvent
  <2>1. /\ nwp' = [joined |-> j, trying |-> t, events |-> Tail(es)] /\ es # <<>>
    BY <1>1, <1>7 DEF Wifi!TakeEvent
  <2>2. Tail(es) \in Seq(Events) /\ Len(Tail(es)) = Len(es) - 1 /\ Len(es) \in Nat
    BY <1>1, <2>1
  <2>3. Len(Tail(es)) <= MaxEvents BY <1>1, <2>2, BoundsAssumption
  <2> HIDE DEF j, t, es
  <2> QED BY <1>1, <2>1, <2>2, <2>3, NwpTyped
<1>8. CASE Wifi!NwpConnects
  <2>1. CASE nwp' = [joined |-> "good", trying |-> "none", events |-> Wifi!Raised("connect")]
    BY <1>2, <1>3, <2>1, NwpTyped
  <2>2. CASE nwp' = [nwp EXCEPT !.trying = "none"]
    <3>1. nwp' = [joined |-> j, trying |-> "none", events |-> es] BY <1>1, <2>2
    <3> HIDE DEF j, t, es
    <3> QED BY <1>1, <1>3, <3>1, NwpTyped
  <2> QED BY <1>8, <2>1, <2>2 DEF Wifi!NwpConnects
<1>9. CASE Wifi!LinkLost
  <2>1. nwp' = [joined |-> "none", trying |-> t, events |-> Wifi!Raised("disconnect")]
    BY <1>1, <1>9 DEF Wifi!LinkLost
  <2> HIDE DEF j, t, es
  <2> QED BY <1>1, <1>2, <1>3, <2>1, NwpTyped
<1>10. CASE nwp' = nwp BY <1>1, <1>10 DEF NwpTypes
<1>11. ASSUME Wifi!MainStep,
              ~ Wifi!Connect, ~ Wifi!Disconnect, ~ Wifi!StaRoleDown
       PROVE  nwp' = nwp
  BY <1>11 DEF Wifi!MainStep, Wifi!StaRoleUp, Wifi!StaLeave, Wifi!StaLinkDown,
       Wifi!StaRemove, Wifi!Scan, Wifi!ApRoleUp, Wifi!ApLinkUp, Wifi!ApDown, Wifi!Join,
       Wifi!Serve, Wifi!Arm
<1>12. ASSUME ~ Wifi!MainStep, ~ Wifi!TakeEvent, ~ Wifi!NwpConnects, ~ Wifi!LinkLost
       PROVE  nwp' = nwp
  BY <1>12 DEF Wifi!Next, Wifi!Provision, Wifi!Forget, Wifi!Seen, Wifi!Retry,
       Wifi!StartTiming, Wifi!Fallback, Wifi!NoIp, Wifi!Turn, Wifi!Request, Wifi!ActOnEvent,
       Wifi!Lease, Wifi!Calm
<1> QED BY <1>4, <1>5, <1>6, <1>7, <1>8, <1>9, <1>10, <1>11, <1>12

LEMMA RolesKept == ASSUME Roles, Choices, Wifi!Next PROVE Roles'
<1>1. NwpTypes' BY NwpKept
<1>2. /\ role \in {"NONE", "STA", "AP"} /\ sta \in [added : BOOLEAN, link : BOOLEAN]
      /\ ap \in BOOLEAN /\ ip \in BOOLEAN /\ ev \in Events \cup {"none"}
      /\ lastIp \in Wifi!Nets /\ nwp.joined \in Wifi!Nets /\ nwp.events \in Seq(Events)
  BY DEF Roles
<1>3. CASE Wifi!MainStep
  <2>1. /\ role' \in {"NONE", "STA", "AP"} /\ sta' \in [added : BOOLEAN, link : BOOLEAN]
        /\ ap' \in BOOLEAN /\ ip' \in BOOLEAN /\ ev' = ev /\ lastIp' = lastIp
    BY <1>3, MainRoles
  <2> QED BY <1>1, <1>2, <2>1 DEF Roles, NwpTypes
<1>4. CASE Wifi!ActOnEvent
  <2>1. role' = role /\ ap' = ap /\ lastIp' = lastIp /\ ev' = "none"
    BY <1>4 DEF Wifi!ActOnEvent
  <2>2. /\ sta' \in [added : BOOLEAN, link : BOOLEAN] /\ ip' \in BOOLEAN
    <3>1. CASE sta' = [sta EXCEPT !.link = TRUE] /\ ip' = ip BY <1>2, <3>1
    <3>2. CASE Wifi!LinkDown BY <1>2, <3>2 DEF Wifi!LinkDown
    <3> QED BY <1>4, <3>1, <3>2 DEF Wifi!ActOnEvent, Wifi!LinkCallback
  <2> QED BY <1>1, <1>2, <2>1, <2>2 DEF Roles, NwpTypes
<1>5. CASE Wifi!TakeEvent
  <2>1. role' = role /\ ap' = ap /\ lastIp' = lastIp /\ sta' = sta /\ ip' = ip
    BY <1>5 DEF Wifi!TakeEvent, Wifi!lwip
  <2>2. Head(nwp.events) \in Events BY <1>2, <1>5 DEF Wifi!TakeEvent
  <2>3. ev' \in Events \cup {"none"} BY <1>5, <2>2 DEF Wifi!TakeEvent
  <2> QED BY <1>1, <1>2, <2>1, <2>3 DEF Roles, NwpTypes
<1>6. CASE Wifi!Lease
  <2>1. role' = role /\ ap' = ap /\ lastIp' = nwp.joined /\ sta' = sta /\ ip' = TRUE /\ ev' = ev
    BY <1>6 DEF Wifi!Lease, Wifi!NwpOnly
  <2> QED BY <1>1, <1>2, <2>1 DEF Roles, NwpTypes
<1>7. CASE \/ Wifi!Provision \/ Wifi!Forget \/ Wifi!Seen \/ Wifi!Retry \/ Wifi!StartTiming
           \/ Wifi!Fallback \/ Wifi!Request \/ Wifi!NwpConnects \/ Wifi!LinkLost \/ Wifi!Calm
  <2>1. role' = role /\ ap' = ap /\ lastIp' = lastIp /\ sta' = sta /\ ip' = ip /\ ev' = ev
    BY <1>7 DEF Wifi!Provision, Wifi!Forget, Wifi!Seen, Wifi!Retry, Wifi!StartTiming,
         Wifi!Fallback, Wifi!NoIp, Wifi!Turn, Wifi!Request, Wifi!NwpConnects, Wifi!LinkLost,
         Wifi!Calm, Wifi!NwpOnly, Wifi!lwip
  <2> QED BY <1>1, <1>2, <2>1 DEF Roles, NwpTypes
<1> QED BY <1>3, <1>4, <1>5, <1>6, <1>7 DEF Wifi!Next

\* A counter that is not at its end goes down by one.
LEMMA Counts ==
  ASSUME NEW n \in Nat, NEW f \in 0 .. n, f > 0 PROVE f - 1 \in 0 .. n
OBVIOUS

LEMMA FaultsKept ==
  ASSUME faults \in 0 .. MaxFaults, Wifi!Fault \/ Wifi!NoFault \/ faults' = 0
  PROVE  faults' \in 0 .. MaxFaults
<1>1. CASE Wifi!Fault BY <1>1, Counts, BoundsAssumption DEF Wifi!Fault
<1>2. CASE Wifi!NoFault BY <1>2 DEF Wifi!NoFault
<1>3. CASE faults' = 0 BY <1>3, BoundsAssumption
<1> QED BY <1>1, <1>2, <1>3

LEMMA StrayedKept == ASSUME strayed \in BOOLEAN, Wifi!Next PROVE strayed' \in BOOLEAN
<1>1. CASE Wifi!Forget
  <2>1. strayed' = (strayed \/ role = "AP") BY <1>1 DEF Wifi!Forget
  <2>2. CASE role = "AP" BY <2>1, <2>2
  <2>3. CASE role # "AP"
    <3>1. strayed = TRUE \/ strayed = FALSE OBVIOUS
    <3> QED BY <2>1, <2>3, <3>1
  <2> QED BY <2>2, <2>3
<1>2. ASSUME Wifi!MainStep PROVE strayed' = strayed
  BY <1>2 DEF Wifi!MainStep, Wifi!StaRoleUp, Wifi!Connect, Wifi!StaLeave, Wifi!Disconnect,
       Wifi!StaLinkDown, Wifi!StaRoleDown, Wifi!StaRemove, Wifi!Scan, Wifi!ApRoleUp,
       Wifi!ApLinkUp, Wifi!ApDown, Wifi!Join, Wifi!Serve, Wifi!Arm, Wifi!local
<1>3. ASSUME ~ Wifi!Forget PROVE strayed' = strayed
  BY <1>2, <1>3 DEF Wifi!Next, Wifi!Provision, Wifi!Seen, Wifi!Retry, Wifi!StartTiming,
       Wifi!Fallback, Wifi!NoIp, Wifi!Request, Wifi!TakeEvent, Wifi!ActOnEvent,
       Wifi!NwpConnects, Wifi!Lease, Wifi!LinkLost, Wifi!NwpOnly, Wifi!Calm, Wifi!local
<1>4. CASE ~ Wifi!Forget BY <1>3, <1>4
<1> QED BY <1>1, <1>4

LEMMA ChoicesKept == ASSUME Choices, Wifi!Next PROVE Choices'
<1>1. /\ creds \in Wifi!Nets /\ had \in BOOLEAN /\ timing \in BOOLEAN /\ ~(had /\ timing)
      /\ httpd \in BOOLEAN /\ req \in Wifi!Nets \cup {"forget"}
      /\ faults \in 0 .. MaxFaults /\ requests \in 0 .. MaxRequests
  BY DEF Choices
<1>12. strayed' \in BOOLEAN BY StrayedKept DEF Choices
<1>2. /\ "none" \in Wifi!Nets /\ \A n \in Wifi!Networks : n \in Wifi!Nets
  BY DEF Wifi!Nets
<1>3. faults' \in 0 .. MaxFaults
  <2>1. Wifi!Fault \/ Wifi!NoFault \/ faults' = 0
    <3>1. ASSUME Wifi!MainStep PROVE Wifi!Fault \/ Wifi!NoFault
      BY <3>1 DEF Wifi!MainStep, Wifi!StaRoleUp, Wifi!Connect, Wifi!StaLeave, Wifi!Disconnect,
           Wifi!StaLinkDown, Wifi!StaRoleDown, Wifi!StaRemove, Wifi!Scan, Wifi!ApRoleUp,
           Wifi!ApLinkUp, Wifi!ApDown, Wifi!Join, Wifi!Serve, Wifi!Arm
    <3> QED BY <3>1 DEF Wifi!Next, Wifi!Provision, Wifi!Forget, Wifi!Seen, Wifi!Retry,
          Wifi!StartTiming, Wifi!Fallback, Wifi!NoIp, Wifi!Turn, Wifi!Request,
          Wifi!TakeEvent, Wifi!ActOnEvent, Wifi!NwpConnects, Wifi!Lease, Wifi!LinkLost,
          Wifi!Calm
  <2> QED BY <1>1, <2>1, FaultsKept
<1>4. CASE Wifi!Request
  <2>1. requests' \in 0 .. MaxRequests BY <1>1, <1>4, Counts, BoundsAssumption DEF Wifi!Request
  <2>2. req' \in Wifi!Nets \cup {"forget"} BY <1>2, <1>4 DEF Wifi!Request
  <2> QED BY <1>1, <1>3, <1>4, <2>1, <2>2 DEF Choices, Wifi!Request
<1>5. CASE Wifi!Calm
  <2>1. requests' \in 0 .. MaxRequests BY <1>5, BoundsAssumption DEF Wifi!Calm
  <2> QED BY <1>1, <1>3, <1>5, <2>1 DEF Choices, Wifi!Calm
<1>6. CASE Wifi!Provision \/ Wifi!Forget
  <2>1. /\ creds' \in Wifi!Nets /\ req' = "none" /\ UNCHANGED <<had, timing, httpd, requests>>
    BY <1>2, <1>6 DEF Wifi!Provision, Wifi!Forget
  <2> QED BY <1>1, <1>2, <1>3, <1>12, <2>1 DEF Choices
<1>7. CASE Wifi!Join \/ Wifi!Serve \/ Wifi!Arm
  <2>1. /\ creds' = creds \/ creds' = "none"
        /\ httpd' = httpd \/ httpd' = TRUE
        /\ UNCHANGED <<req, requests>>
    BY <1>7 DEF Wifi!Join, Wifi!Serve, Wifi!Arm
  <2>2. UNCHANGED <<had, timing>> \/ (had' = FALSE /\ timing' = FALSE)
    BY <1>7 DEF Wifi!Join, Wifi!Serve, Wifi!Arm
  <2>3. had' \in BOOLEAN /\ timing' \in BOOLEAN /\ ~(had' /\ timing')
    <3>1. CASE UNCHANGED <<had, timing>> BY <1>1, <3>1
    <3>2. CASE had' = FALSE /\ timing' = FALSE BY <3>2
    <3> QED BY <2>2, <3>1, <3>2
  <2>4. creds' \in Wifi!Nets BY <1>1, <1>2, <2>1
  <2>5. httpd' \in BOOLEAN
    <3>1. CASE httpd' = httpd BY <1>1, <3>1
    <3>2. CASE httpd' = TRUE BY <3>2
    <3> QED BY <2>1, <3>1, <3>2
  <2> QED BY <1>1, <1>3, <1>12, <2>1, <2>3, <2>4, <2>5 DEF Choices
<1>8. CASE Wifi!Seen \/ Wifi!StartTiming \/ Wifi!Fallback
  <2>1. UNCHANGED <<creds, httpd, req, requests>>
    BY <1>8 DEF Wifi!Seen, Wifi!StartTiming, Wifi!Fallback
  <2>2. \/ had' = TRUE /\ timing' = FALSE
        \/ ~ had /\ timing' = TRUE /\ had' = had
        \/ timing' = FALSE /\ had' = had
    BY <1>8 DEF Wifi!Seen, Wifi!StartTiming, Wifi!Fallback
  <2>3. had' \in BOOLEAN /\ timing' \in BOOLEAN /\ ~(had' /\ timing')
    <3>1. CASE had' = TRUE /\ timing' = FALSE BY <3>1
    <3>2. CASE ~ had /\ timing' = TRUE /\ had' = had BY <1>1, <3>2
    <3>3. CASE timing' = FALSE /\ had' = had BY <1>1, <3>3
    <3> QED BY <2>2, <3>1, <3>2, <3>3
  <2> QED BY <1>1, <1>3, <1>12, <2>1, <2>3 DEF Choices
<1>9. CASE UNCHANGED <<creds, had, timing, httpd, req, requests>>
  BY <1>1, <1>3, <1>9, <1>12 DEF Choices
<1>10. ASSUME Wifi!MainStep, ~ Wifi!Join, ~ Wifi!Serve, ~ Wifi!Arm
       PROVE  UNCHANGED <<creds, had, timing, httpd, req, requests>>
  BY <1>10 DEF Wifi!MainStep, Wifi!StaRoleUp, Wifi!Connect, Wifi!StaLeave, Wifi!Disconnect,
       Wifi!StaLinkDown, Wifi!StaRoleDown, Wifi!StaRemove, Wifi!Scan, Wifi!ApRoleUp,
       Wifi!ApLinkUp, Wifi!ApDown, Wifi!local
<1>11. ASSUME Wifi!Retry \/ Wifi!TakeEvent \/ Wifi!ActOnEvent \/ Wifi!NwpConnects
                \/ Wifi!Lease \/ Wifi!LinkLost
       PROVE  UNCHANGED <<creds, had, timing, httpd, req, requests>>
  BY <1>11 DEF Wifi!Retry, Wifi!TakeEvent, Wifi!ActOnEvent, Wifi!NwpConnects, Wifi!Lease,
       Wifi!LinkLost, Wifi!NwpOnly, Wifi!local
<1> QED BY <1>4, <1>5, <1>6, <1>7, <1>8, <1>9, <1>10, <1>11 DEF Wifi!Next

LEMMA WifiStarts == ASSUME Init PROVE WifiInv
<1>1. Wifi!Init BY DEF Init
<1>2. Plan(todo) BY <1>1, Boots DEF Wifi!Init
<1>3. nwp = [joined |-> "none", trying |-> "none", events |-> <<>>] /\ Len(<<>>) = 0
  BY <1>1 DEF Wifi!Init
<1>4. NwpTypes
  <2>1. "none" \in Wifi!Nets /\ <<>> \in Seq(Events) BY DEF Wifi!Nets
  <2>2. nwp.events = <<>> BY <1>3
  <2>3. Len(nwp.events) <= MaxEvents BY <1>3, <2>2, BoundsAssumption
  <2> QED BY <1>3, <2>1, <2>3 DEF NwpTypes
<1>5. sta \in [added : BOOLEAN, link : BOOLEAN] BY <1>1 DEF Wifi!Init
<1>6. Roles BY <1>1, <1>4, <1>5 DEF Roles, NwpTypes, Wifi!Init, Wifi!Nets
<1>7. faults \in 0 .. MaxFaults /\ requests \in 0 .. MaxRequests
  <2>1. faults = MaxFaults /\ requests = MaxRequests BY <1>1 DEF Wifi!Init
  <2> QED BY <2>1, BoundsAssumption
<1>8. Choices BY <1>1, <1>7 DEF Choices, Wifi!Init, Wifi!Nets
<1> QED BY <1>2, <1>6, <1>8 DEF WifiInv

LEMMA WifiSteps == ASSUME WifiInv, [Next]_vars PROVE WifiInv'
<1>1. CASE OnWifi(Wifi!Next)
  BY <1>1, PlanKept, RolesKept, ChoicesKept DEF WifiInv, OnWifi
<1>2. CASE OnNtp(Ntp!Next) \/ UNCHANGED vars
  <2>1. UNCHANGED wifiVars BY <1>2 DEF OnNtp, vars
  <2> QED BY <2>1 DEF WifiInv, Roles, Choices, wifiVars
<1> QED BY <1>1, <1>2 DEF Next

\* The SNTP client.  The main loop's call of SntpInit begins with the timer at nothing and
\* the timer stands still until it ends; so does a handler's call on the TM4C, which nothing
\* interrupts.  On the CC35x1 the main loop ticks meanwhile, but no reply synchronises the
\* client under a handler's call.
NtpInv ==
  /\ Ntp!TypeOK /\ (main => elapsed = 0)
  /\ web /\ board = "tm4c" => elapsed = 0
  /\ web /\ board = "cc35x1" => st # "SYNCED"

Timely ==
  elapsed < Ntp!Limit(st) \/ (st = "WAIT_REPLY" /\ board = "cc35x1" /\ elapsed < RetryAfter)

LEMMA Limits ==
  /\ Ntp!Limit("IDLE") = RetryAfter /\ Ntp!Limit("DNS_PENDING") = RetryAfter
  /\ Ntp!Limit("WAIT_REPLY") = ReplyAfter /\ Ntp!Limit("SYNCED") = ResyncAfter
  /\ RetryAfter \in Nat \ {0} /\ ReplyAfter \in Nat \ {0} /\ ResyncAfter \in Nat \ {0}
BY TimersAssumption DEF Ntp!Limit

\* The types of Ntp!TypeOK.
Client ==
  /\ st \in {"IDLE", "DNS_PENDING", "WAIT_REPLY", "SYNCED"} /\ elapsed \in Nat
  /\ pcb \in BOOLEAN /\ addr \in Ntp!Maybe /\ server \in Servers /\ source \in Ntp!Maybe
  /\ lookups \in [Servers -> 0 .. MaxLookups] /\ asked \subseteq Servers
  /\ board \in {"tm4c", "cc35x1"} /\ main \in BOOLEAN /\ web \in BOOLEAN
  /\ ntpFaults \in 0 .. NtpFaults

LEMMA NtpParts == Ntp!TypeOK <=> Client /\ Timely
BY DEF Ntp!TypeOK, Client, Timely

\* A timer that begins is in time.
LEMMA InTime ==
  ASSUME Client', elapsed' = 0 PROVE Timely'
<1>1. st' \in {"IDLE", "DNS_PENDING", "WAIT_REPLY", "SYNCED"} BY DEF Client
<1>2. Ntp!Limit(st') \in Nat \ {0} BY <1>1, Limits
<1>3. 0 < Ntp!Limit(st') BY <1>2
<1> QED BY <1>3 DEF Timely

LEMMA NtpFaultsKept ==
  ASSUME ntpFaults \in 0 .. NtpFaults, Ntp!Fault \/ Ntp!NoFault \/ ntpFaults' = 0
  PROVE  ntpFaults' \in 0 .. NtpFaults
<1>1. CASE Ntp!Fault BY <1>1, Counts, BoundsAssumption DEF Ntp!Fault
<1>2. CASE Ntp!NoFault BY <1>2 DEF Ntp!NoFault
<1>3. CASE ntpFaults' = 0 BY <1>3, BoundsAssumption
<1> QED BY <1>1, <1>2, <1>3

LEMMA LookupsKept ==
  ASSUME Client, NEW s \in Servers,
         \/ lookups[s] < MaxLookups /\ lookups' = [lookups EXCEPT ![s] = lookups[s] + 1]
         \/ lookups[s] > 0 /\ lookups' = [lookups EXCEPT ![s] = lookups[s] - 1]
         \/ UNCHANGED lookups
  PROVE  lookups' \in [Servers -> 0 .. MaxLookups]
<1>1. /\ lookups \in [Servers -> 0 .. MaxLookups] /\ lookups[s] \in 0 .. MaxLookups
      /\ MaxLookups \in Nat
  BY BoundsAssumption DEF Client
<1>2. CASE lookups[s] < MaxLookups /\ lookups' = [lookups EXCEPT ![s] = lookups[s] + 1]
  <2>1. lookups[s] + 1 \in 0 .. MaxLookups BY <1>1, <1>2
  <2> QED BY <1>1, <1>2, <2>1
<1>3. CASE lookups[s] > 0 /\ lookups' = [lookups EXCEPT ![s] = lookups[s] - 1]
  <2>1. lookups[s] - 1 \in 0 .. MaxLookups BY <1>1, <1>3
  <2> QED BY <1>1, <1>3, <2>1
<1> QED BY <1>1, <1>2, <1>3

\* The lookup of SntpInit.
LEMMA AskKept ==
  ASSUME Client, Ntp!Ask(server)
  PROVE  /\ elapsed' = elapsed /\ pcb' = pcb
         /\ st' = st \/ st' = "WAIT_REPLY"
         /\ addr' \in Ntp!Maybe /\ asked' \subseteq Servers
         /\ lookups' \in [Servers -> 0 .. MaxLookups]
         /\ ntpFaults' \in 0 .. NtpFaults
<1>1. /\ server \in Servers /\ addr \in Ntp!Maybe /\ asked \subseteq Servers
      /\ ntpFaults \in 0 .. NtpFaults
  BY DEF Client
<1>2. elapsed' = elapsed /\ pcb' = pcb /\ (st' = st \/ st' = "WAIT_REPLY")
  BY DEF Ntp!Ask
<1>3. addr' \in Ntp!Maybe /\ asked' \subseteq Servers
  BY <1>1 DEF Ntp!Ask, Ntp!Send, Ntp!Silent, Ntp!Maybe
<1>4. lookups' \in [Servers -> 0 .. MaxLookups]
  <2>1. \/ lookups[server] < MaxLookups
             /\ lookups' = [lookups EXCEPT ![server] = lookups[server] + 1]
        \/ UNCHANGED lookups
    BY DEF Ntp!Ask
  <2> QED BY <1>1, <2>1, LookupsKept
<1>5. ntpFaults' \in 0 .. NtpFaults
  <2>1. Ntp!Fault \/ Ntp!NoFault BY DEF Ntp!Ask
  <2> QED BY <1>1, <2>1, NtpFaultsKept
<1> QED BY <1>2, <1>3, <1>4, <1>5

LEMMA AskedKept ==
  ASSUME NtpInv, Ntp!MainAsk \/ Ntp!WebAsk PROVE NtpInv'
<1>1. Client /\ Timely BY NtpParts DEF NtpInv
<1>2. /\ server' = server /\ source' = source /\ board' = board
      /\ main' \in BOOLEAN /\ web' \in BOOLEAN /\ Ntp!Ask(server)
      /\ (main' => main) /\ (web' => web)
  <2>1. main \in BOOLEAN /\ web \in BOOLEAN BY <1>1 DEF Client
  <2>2. CASE Ntp!MainAsk
    <3>1. main' = FALSE /\ web' = web BY <2>2 DEF Ntp!MainAsk
    <3>2. main' \in BOOLEAN /\ web' \in BOOLEAN BY <2>1, <3>1
    <3>3. (main' => main) /\ (web' => web) BY <3>1
    <3>4. server' = server /\ source' = source /\ board' = board /\ Ntp!Ask(server)
      BY <2>2 DEF Ntp!MainAsk
    <3> QED BY <3>2, <3>3, <3>4
  <2>3. CASE Ntp!WebAsk
    <3>1. web' = FALSE /\ main' = main BY <2>3 DEF Ntp!WebAsk
    <3>2. main' \in BOOLEAN /\ web' \in BOOLEAN BY <2>1, <3>1
    <3>3. (main' => main) /\ (web' => web) BY <3>1
    <3>4. server' = server /\ source' = source /\ board' = board /\ Ntp!Ask(server)
      BY <2>3 DEF Ntp!WebAsk
    <3> QED BY <3>2, <3>3, <3>4
  <2> QED BY <2>2, <2>3
<1>3. /\ elapsed' = elapsed /\ pcb' = pcb /\ (st' = st \/ st' = "WAIT_REPLY")
      /\ addr' \in Ntp!Maybe /\ asked' \subseteq Servers
      /\ lookups' \in [Servers -> 0 .. MaxLookups] /\ ntpFaults' \in 0 .. NtpFaults
  BY <1>1, <1>2, AskKept
<1>4. Client' BY <1>1, <1>2, <1>3 DEF Client
<1>5. Timely'
  <2>1. CASE elapsed = 0 BY <1>3, <1>4, <2>1, InTime
  <2>2. CASE elapsed # 0
    <3>1. web /\ board = "cc35x1" /\ st # "SYNCED"
      BY <1>1, <2>2 DEF NtpInv, Ntp!MainAsk, Ntp!WebAsk, Client
    <3>2. elapsed < RetryAfter \/ (st = "WAIT_REPLY" /\ elapsed < ReplyAfter)
      <4>1. CASE st \in {"IDLE", "DNS_PENDING"} BY <1>1, <4>1, Limits DEF Timely
      <4>2. CASE st = "WAIT_REPLY" BY <1>1, <4>2, Limits DEF Timely
      <4> QED BY <1>1, <3>1, <4>1, <4>2 DEF Client
    <3>3. CASE st' = "WAIT_REPLY" BY <1>2, <1>3, <3>1, <3>2, <3>3, Limits DEF Timely
    <3>4. CASE st' = st BY <1>1, <1>2, <1>3, <3>4 DEF Timely
    <3> QED BY <1>3, <3>3, <3>4
  <2> QED BY <2>1, <2>2
<1>6. Ntp!TypeOK' BY <1>4, <1>5, NtpParts, PTL
<1> QED BY <1>2, <1>3, <1>6 DEF NtpInv

LEMMA TickKept == ASSUME NtpInv, Ntp!Tick, ~ Ntp!Interrupted PROVE NtpInv'
<1>1. /\ Client /\ Timely /\ ~ main /\ (web => board = "cc35x1" /\ st # "SYNCED")
  BY NtpParts DEF NtpInv, Ntp!Tick, Ntp!Interrupted, Client
<1>2. /\ addr' = addr /\ asked' = asked /\ server' = server /\ source' = source
      /\ lookups' = lookups /\ board' = board /\ web' = web
  BY DEF Ntp!Tick, Ntp!Silent
<1>3. ASSUME st' \in {"IDLE", "DNS_PENDING", "WAIT_REPLY", "SYNCED"}, elapsed' \in Nat,
             pcb' \in BOOLEAN, main' \in BOOLEAN, ntpFaults' \in 0 .. NtpFaults
      PROVE  Client'
  BY <1>1, <1>2, <1>3 DEF Client
<1>4. ASSUME Client', Timely', main' => elapsed' = 0, web => st' # "SYNCED" PROVE NtpInv'
  <2>1. web' => board' = "cc35x1" /\ st' # "SYNCED" BY <1>1, <1>2, <1>4
  <2>2. Ntp!TypeOK' BY <1>4, NtpParts, PTL
  <2> QED BY <1>4, <2>1, <2>2 DEF NtpInv
<1>5. /\ st \in {"IDLE", "DNS_PENDING", "WAIT_REPLY", "SYNCED"} /\ elapsed \in Nat
      /\ pcb \in BOOLEAN /\ main \in BOOLEAN /\ ntpFaults \in 0 .. NtpFaults
  BY <1>1 DEF Client
<1>6. CASE Ntp!Waits
  <2>1. /\ st' = st /\ pcb' = pcb /\ main' = main /\ elapsed' = elapsed + 1
        /\ ntpFaults' = ntpFaults /\ ~(elapsed + 1 >= Ntp!Limit(st))
    BY <1>6 DEF Ntp!Waits, Ntp!NoFault, Ntp!Due
  <2>2. Client' BY <1>3, <1>5, <2>1
  <2>3. Ntp!Limit(st) \in Nat BY <1>5, Limits
  <2>4. elapsed + 1 < Ntp!Limit(st) BY <1>5, <2>1, <2>3
  <2>5. Timely' BY <2>1, <2>4 DEF Timely
  <2> QED BY <1>1, <1>4, <2>1, <2>2, <2>5
<1>7. CASE Ntp!GivesUp
  <2>1. /\ st' = "IDLE" /\ elapsed' = 0 /\ pcb' = pcb /\ main' = main /\ ntpFaults' = ntpFaults
    BY <1>7 DEF Ntp!GivesUp, Ntp!NoFault
  <2>2. Client' BY <1>3, <1>5, <2>1
  <2> QED BY <1>4, <2>1, <2>2, InTime
<1>8. CASE Ntp!Again
  <2>1. /\ elapsed' = 0 /\ main' = pcb'
        /\ Ntp!Fault \/ Ntp!NoFault
        /\ st' = "DNS_PENDING" \/ st' = st
        /\ pcb' = TRUE \/ pcb' = pcb
    BY <1>8 DEF Ntp!Again, Ntp!Begin
  <2>2. ntpFaults' \in 0 .. NtpFaults BY <1>5, <2>1, NtpFaultsKept
  <2>3. pcb' \in BOOLEAN
    <3>1. CASE pcb' = TRUE BY <3>1
    <3>2. CASE pcb' = pcb BY <1>5, <3>2
    <3> QED BY <2>1, <3>1, <3>2
  <2>4. main' \in BOOLEAN BY <2>1, <2>3
  <2>5. Client' BY <1>3, <1>5, <2>1, <2>2, <2>3, <2>4
  <2>6. web => st' # "SYNCED" BY <1>1, <2>1
  <2> QED BY <1>4, <2>1, <2>5, <2>6, InTime
<1> QED BY <1>6, <1>7, <1>8 DEF Ntp!Tick

\* The thread of lwIP: what begins there begins with the timer at nothing.
LEMMA ThreadKept ==
  ASSUME NtpInv, NEW s \in Servers,
         Ntp!Configure(s) \/ Ntp!DnsAnswer(s) \/ Ntp!Reply(s)
  PROVE  NtpInv'
<1>1. Client BY NtpParts DEF NtpInv
<1>2. elapsed' = 0 /\ main' = main /\ board' = board /\ ~ web
  BY DEF Ntp!Configure, Ntp!DnsAnswer, Ntp!Reply, Ntp!Runs, Ntp!Rest, Ntp!Found
<1>3. s \in Ntp!Maybe BY DEF Ntp!Maybe
<1>4. ASSUME Client', web' => st' = "DNS_PENDING" PROVE NtpInv'
  <2>1. Timely' BY <1>2, <1>4, InTime
  <2>2. Ntp!TypeOK' BY <1>4, <2>1, NtpParts, PTL
  <2>3. web' => st' # "SYNCED" BY <1>4
  <2> QED BY <1>2, <2>2, <2>3 DEF NtpInv
<1>5. CASE Ntp!Configure(s)
  <2>1. /\ server' = s /\ pcb' = TRUE /\ st' = "DNS_PENDING" /\ Ntp!Fault /\ web' = TRUE
        /\ addr' = addr /\ asked' = asked /\ source' = source /\ lookups' = lookups
    BY <1>5 DEF Ntp!Configure, Ntp!Silent, Ntp!Fault
  <2>2. ntpFaults' \in 0 .. NtpFaults BY <1>1, <2>1, NtpFaultsKept DEF Client
  <2>3. Client' BY <1>1, <1>2, <2>1, <2>2 DEF Client
  <2> QED BY <1>4, <2>1, <2>3
<1>6. CASE Ntp!DnsAnswer(s)
  <2>1. /\ pcb' = pcb /\ source' = source /\ server' = server /\ web' = web
        /\ st' \in {"WAIT_REPLY", "IDLE"} /\ (Ntp!Fault \/ Ntp!NoFault)
        /\ addr' \in {addr, s} /\ asked' \in {asked, asked \cup {s}}
    BY <1>6 DEF Ntp!DnsAnswer, Ntp!Found, Ntp!Send, Ntp!Silent, Ntp!Rest
  <2>2. ntpFaults' \in 0 .. NtpFaults BY <1>1, <2>1, NtpFaultsKept DEF Client
  <2>3. lookups' \in [Servers -> 0 .. MaxLookups]
    BY <1>1, <1>6, LookupsKept DEF Ntp!DnsAnswer
  <2>4. Client' BY <1>1, <1>2, <1>3, <2>1, <2>2, <2>3 DEF Client
  <2>5. ~ web' BY <1>2, <2>1
  <2> QED BY <1>4, <2>4, <2>5
<1>7. CASE Ntp!Reply(s)
  <2>1. /\ pcb' = pcb /\ addr' = addr /\ lookups' = lookups /\ server' = server /\ web' = web
        /\ st' \in {"SYNCED", "DNS_PENDING"} /\ (Ntp!Fault \/ Ntp!NoFault)
        /\ source' \in {source, s} /\ asked' = asked \ {s}
    BY <1>7 DEF Ntp!Reply, Ntp!Rest
  <2>2. ntpFaults' \in 0 .. NtpFaults BY <1>1, <2>1, NtpFaultsKept DEF Client
  <2>3. Client' BY <1>1, <1>2, <1>3, <2>1, <2>2 DEF Client
  <2>4. ~ web' BY <1>2, <2>1
  <2> QED BY <1>4, <2>3, <2>4
<1> QED BY <1>5, <1>6, <1>7

LEMMA AsideKept ==
  ASSUME NtpInv,
         Ntp!Calm \/ \E s \in Servers : Ntp!Restore(s) \/ Ntp!Lose(s)
  PROVE  NtpInv'
<1>1. Client /\ Timely BY NtpParts DEF NtpInv
<1>2. /\ st' = st /\ elapsed' = elapsed /\ pcb' = pcb /\ addr' = addr /\ source' = source
      /\ board' = board /\ main' = main /\ web' = web
  BY DEF Ntp!Calm, Ntp!Restore, Ntp!Lose, Ntp!Rest
<1>3. /\ server' \in Servers /\ asked' \subseteq Servers /\ (Ntp!Fault \/ ntpFaults' = 0)
  BY <1>1 DEF Ntp!Calm, Ntp!Restore, Ntp!Lose, Ntp!Rest, Client
<1>4. lookups' \in [Servers -> 0 .. MaxLookups]
  <2>1. CASE Ntp!Calm \/ \E s \in Servers : Ntp!Restore(s)
    <3>1. lookups' = lookups BY <2>1 DEF Ntp!Calm, Ntp!Restore
    <3> QED BY <1>1, <3>1 DEF Client
  <2>2. ASSUME NEW s \in Servers, Ntp!Lose(s) PROVE lookups' \in [Servers -> 0 .. MaxLookups]
    BY <1>1, <2>2, LookupsKept DEF Ntp!Lose
  <2> QED BY <2>1, <2>2
<1>5. ntpFaults' \in 0 .. NtpFaults BY <1>1, <1>3, NtpFaultsKept DEF Client
<1>6. Client' BY <1>1, <1>2, <1>3, <1>4, <1>5 DEF Client
<1>7. Timely' BY <1>1, <1>2 DEF Timely
<1>8. Ntp!TypeOK' BY <1>6, <1>7, NtpParts, PTL
<1> QED BY <1>2, <1>8 DEF NtpInv

LEMMA NtpSteps == ASSUME NtpInv, [Next]_vars PROVE NtpInv'
<1>1. CASE OnNtp(Ntp!Next)
  BY <1>1, TickKept, AskedKept, ThreadKept, AsideKept DEF OnNtp, Ntp!Next
<1>2. CASE OnWifi(Wifi!Next) \/ UNCHANGED vars
  <2>1. UNCHANGED ntpVars BY <1>2 DEF OnWifi, vars
  <2> QED BY <2>1 DEF NtpInv, Ntp!TypeOK, ntpVars
<1> QED BY <1>1, <1>2 DEF Next

LEMMA NtpStarts == ASSUME Init PROVE NtpInv
<1>1. Ntp!Init BY DEF Init
<1>2. elapsed = 0 /\ web = FALSE /\ st \in {"DNS_PENDING", "IDLE"} BY <1>1 DEF Ntp!Init
<1>3. 0 \in 0 .. MaxLookups /\ ntpFaults \in 0 .. NtpFaults
  BY <1>1, BoundsAssumption DEF Ntp!Init
<1>4. pcb \in BOOLEAN /\ main \in BOOLEAN BY <1>1 DEF Ntp!Init
<1>5. lookups \in [Servers -> 0 .. MaxLookups] BY <1>1, <1>3 DEF Ntp!Init
<1>6. Client
  <2>1. /\ addr = "none" /\ source = "none" /\ server \in Servers /\ asked = {}
        /\ board \in {"tm4c", "cc35x1"}
    BY <1>1 DEF Ntp!Init
  <2>2. addr \in Ntp!Maybe /\ source \in Ntp!Maybe /\ asked \subseteq Servers
    BY <2>1 DEF Ntp!Maybe
  <2>3. elapsed \in Nat /\ web \in BOOLEAN BY <1>2
  <2> QED BY <1>2, <1>3, <1>4, <1>5, <2>1, <2>2, <2>3 DEF Client
<1>7. Timely
  <2>1. Ntp!Limit(st) = RetryAfter /\ RetryAfter \in Nat \ {0} BY <1>2, Limits
  <2>2. 0 < RetryAfter BY <2>1
  <2>3. elapsed < Ntp!Limit(st) BY <1>2, <2>1, <2>2
  <2> QED BY <2>3 DEF Timely
<1>8. Ntp!TypeOK BY <1>6, <1>7, NtpParts
<1> QED BY <1>2, <1>8 DEF NtpInv

\* Every variable of the roles and of the client keeps its range, for any number of faults,
\* requests, waiting events and lookups and for any timers, and with Forget pressed at any
\* time: the main task never has more to do than one way through its switches (main.c), the
\* fallback is never timed for a link that has worked, and no state of the SNTP client
\* outlasts its timeout, whichever of its two callers SntpInit is cut in
\* (sntp_client.c).
THEOREM NetworkRanges == Spec => []TypeOK
<1>1. Init => WifiInv /\ NtpInv BY WifiStarts, NtpStarts
<1>2. WifiInv /\ [Next]_vars => WifiInv' BY WifiSteps
<1>3. NtpInv /\ [Next]_vars => NtpInv' BY NtpSteps
<1>4. WifiInv /\ NtpInv => TypeOK
  <2> SUFFICES ASSUME WifiInv, NtpInv PROVE TypeOK OBVIOUS
  <2>1. Len(todo) <= 11 BY PlanIsShort DEF WifiInv
  <2>2. nwp.joined \in Wifi!Nets /\ nwp.trying \in Wifi!Nets BY DEF WifiInv, Roles
  <2>3. Wifi!TypeOK BY <2>1, <2>2 DEF WifiInv, Roles, Choices, Events, Wifi!TypeOK
  <2> QED BY <2>3 DEF NtpInv, TypeOK
<1> QED BY <1>1, <1>2, <1>3, <1>4, PTL DEF Spec
=============================================================================
