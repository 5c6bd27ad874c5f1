------------------------- MODULE WifiConnectProofs -------------------------
(***************************************************************************)
(* Proofs about WifiConnect for every number of applications' networks,    *)
(* access points, check threads and polls, when the applications use the   *)
(* library the way its lock can serve: one thread makes the calls, and     *)
(* RK_wifi_connect_with_bssid, whose error path releases a lock it does    *)
(* not hold, is not among them.  The last part proves that WifiConnect     *)
(* implements the safety part of ConnectService, and takes from it that    *)
(* no attempt ends untold.                                                 *)
(***************************************************************************)
EXTENDS WifiConnectService, TLAPS

SerialCallers ==
  /\ \A a, b \in Apps : a = b
  /\ "with_bssid" \notin Calls

-----------------------------------------------------------------------------
(* Types of the supplicant record and of the commands on it.               *)

\* Queueing an event keeps the record's type and the networks.
LEMMA RaiseType ==
  ASSUME NEW s \in SupType, NEW e \in EventTypes
  PROVE  /\ Raise(s, e) \in SupType
         /\ Raise(s, e).nets = s.nets
PROOF
  <1>1. Append(s.events, e) \in Seq(EventTypes)
    BY DEF SupType
  <1> QED BY <1>1 DEF SupType, Raise

\* Losing the association keeps the type and the networks.
LEMMA DisconnectType ==
  ASSUME NEW s \in SupType
  PROVE  /\ Disconnect(s) \in SupType
         /\ Disconnect(s).nets = s.nets
PROOF
  <1>1. Append(s.events, "DISCONNECTED") \in Seq(EventTypes)
    BY DEF SupType, EventTypes
  <1> QED BY <1>1 DEF SupType, Disconnect, IdOrNone

\* disable_network keeps the type and which networks are known.
LEMMA DisableType ==
  ASSUME NEW s \in SupType, NEW S \in SUBSET Ids
  PROVE  /\ disable(s, S) \in SupType
         /\ \A i \in Ids : /\ disable(s, S).nets[i].known = s.nets[i].known
                           /\ disable(s, S).nets[i] \in Net
PROOF
  <1> DEFINE f == [i \in Ids |-> IF i \in S THEN [s.nets[i] EXCEPT !.enabled = FALSE]
                                 ELSE s.nets[i]]
             t == [s EXCEPT !.nets = f]
  <1>1. \A i \in Ids : f[i] \in Net /\ f[i].known = s.nets[i].known
    BY DEF SupType, Net
  <1>2. f \in [Ids -> Net]
    BY <1>1
  <1>3. t \in SupType /\ t.nets = f
    BY <1>2 DEF SupType
  <1>4. disable(s, S) = IF s.assoc \in S THEN Disconnect(t) ELSE t
    BY DEF disable
  <1>5. disable(s, S) \in SupType /\ disable(s, S).nets = f
    BY <1>3, <1>4, DisconnectType
  <1> QED BY <1>1, <1>5

\* Writing one network of the table keeps the type.
LEMMA SetNetType ==
  ASSUME NEW s \in SupType, NEW id \in Ids, NEW n \in Net
  PROVE  /\ [s EXCEPT !.nets[id] = n] \in SupType
         /\ [s EXCEPT !.nets[id] = n].nets = [s.nets EXCEPT ![id] = n]
PROOF
  BY DEF SupType

\* remove_network keeps the type, makes its network unknown and leaves the
\* others known.
LEMMA RemoveType ==
  ASSUME NEW s \in SupType, NEW id \in Ids
  PROVE  /\ remove(s, id) \in SupType
         /\ ~remove(s, id).nets[id].known
         /\ \A i \in Ids \ {id} : remove(s, id).nets[i].known = s.nets[i].known
PROOF
  <1> DEFINE d == disable(s, {id})
  <1>1. d \in SupType /\ \A i \in Ids : d.nets[i].known = s.nets[i].known
    BY DisableType
  <1>2. Absent \in Net
    BY DEF Absent, Net
  <1>3. remove(s, id) = [d EXCEPT !.nets[id] = Absent]
    BY DEF remove
  <1> HIDE DEF d
  <1>4. d.nets \in [Ids -> Net]
    BY <1>1 DEF SupType
  <1>5. /\ remove(s, id) \in SupType
        /\ remove(s, id).nets = [d.nets EXCEPT ![id] = Absent]
    BY <1>1, <1>2, <1>3, SetNetType
  <1> QED BY <1>1, <1>4, <1>5 DEF Absent

\* enable_network keeps the type and which networks are known.
LEMMA EnableOneType ==
  ASSUME NEW s \in SupType, NEW id \in Ids
  PROVE  /\ [s EXCEPT !.nets[id].enabled = TRUE] \in SupType
         /\ \A i \in Ids : [s EXCEPT !.nets[id].enabled = TRUE].nets[i].known
                               = s.nets[i].known
PROOF
  <1> DEFINE n == [s.nets[id] EXCEPT !.enabled = TRUE]
  <1>1. s.nets[id] \in Net /\ s.nets \in [Ids -> Net]
    BY DEF SupType
  <1>2. n \in Net /\ n.known = s.nets[id].known
    BY <1>1 DEF Net
  <1>3. [s EXCEPT !.nets[id].enabled = TRUE] = [s EXCEPT !.nets[id] = n]
    OBVIOUS
  <1> HIDE DEF n
  <1> QED BY <1>1, <1>2, <1>3, SetNetType

\* select_network keeps the type and which networks are known.
LEMMA SelectType ==
  ASSUME NEW s \in SupType, NEW id \in Ids
  PROVE  /\ select(s, id) \in SupType
         /\ \A i \in Ids : select(s, id).nets[i].known = s.nets[i].known
PROOF
  <1> DEFINE d == disable(s, Ids \ {id})
             e == [d EXCEPT !.nets[id].enabled = TRUE]
  <1>1. d \in SupType /\ \A i \in Ids : d.nets[i].known = s.nets[i].known
    BY DisableType
  <1>2. select(s, id) = [e EXCEPT !.hold = FALSE]
    BY DEF select
  <1> HIDE DEF d
  <1>3. e \in SupType /\ \A i \in Ids : e.nets[i].known = d.nets[i].known
    BY <1>1, EnableOneType
  <1> HIDE DEF e
  <1> QED BY <1>1, <1>2, <1>3 DEF SupType

\* enable_network all keeps the type and which networks are known.
LEMMA EnableAllType ==
  ASSUME NEW s \in SupType
  PROVE  /\ enable_all(s) \in SupType
         /\ \A i \in Ids : enable_all(s).nets[i].known = s.nets[i].known
PROOF
  <1> DEFINE f == [i \in Ids |-> [s.nets[i] EXCEPT !.enabled = s.nets[i].known]]
  <1>1. \A i \in Ids : f[i] \in Net /\ f[i].known = s.nets[i].known
    BY DEF SupType, Net
  <1>2. f \in [Ids -> Net]
    BY <1>1
  <1>3. enable_all(s) = [s EXCEPT !.hold = FALSE, !.nets = f]
    BY DEF enable_all
  <1> HIDE DEF f
  <1> QED BY <1>1, <1>2, <1>3 DEF SupType

-----------------------------------------------------------------------------
(* Type correctness.                                                       *)

\* The constant records have their types.
LEMMA ConstType ==
  /\ IdleApp \in AppType /\ NoChk \in ChkType /\ Absent \in Net /\ Blank \in Net
  /\ 0 \in 0 .. ConnectRetry - 1
PROOF
  <1>1. 0 \in 0 .. ConnectRetry - 1
    BY ConstantsAssumption
  <1>2. IdleApp \in AppType
    BY DEF IdleApp, AppType, AppPcs, IdOrNone
  <1>3. NoChk \in ChkType
    BY <1>1 DEF NoChk, ChkType, ChkPcs, IdOrNone
  <1>4. Absent \in Net /\ Blank \in Net
    BY DEF Absent, Blank, Net
  <1> QED BY <1>1, <1>2, <1>3, <1>4

\* The types hold initially.
LEMMA TypeInit == Init => TypeOK
PROOF
  <1> SUFFICES ASSUME Init PROVE TypeOK
    OBVIOUS
  <1>1. sup \in SupType
    <2>1. PICK ap \in Aps \cup {None} :
            sup = [nets |-> [i \in Ids |->
                     IF i = 0 /\ ap # None
                     THEN [Blank EXCEPT !.ap = ap, !.enabled = TRUE] ELSE Absent],
                   assoc |-> None, ip |-> FALSE, hold |-> FALSE, events |-> <<>>]
      BY DEF Init
    <2>2. [Blank EXCEPT !.ap = ap, !.enabled = TRUE] \in Net
      BY ConstType DEF Net
    <2>3. <<>> \in Seq(EventTypes)
      OBVIOUS
    <2> QED BY <2>1, <2>2, <2>3, ConstType DEF SupType, IdOrNone
  <1>2. app \in [Apps -> AppType] /\ chk \in [Checkers -> ChkType]
    BY ConstType DEF Init
  <1>3. mon \in [pc : MonPcs, id : Ids]
    BY ConstantsAssumption DEF Init, MonPcs
  <1> QED BY <1>1, <1>2, <1>3 DEF Init, TypeOK, IdOrNone

\* A call entered by an application thread keeps the types.
LEMMA TypeCall ==
  ASSUME TypeOK, NEW a \in Apps, Call(a)
  PROVE  TypeOK'
PROOF
  <1>1. ASSUME NEW l \in AppPcs, NEW call \in AllCalls, NEW ap \in Aps \cup {None},
               NEW b \in Bssids \cup {None}, NEW w \in BOOLEAN,
               Enter(a, l, call, ap, b, w)
        PROVE  app' \in [Apps -> AppType]
    BY <1>1 DEF TypeOK, Enter, AppType, IdOrNone
  <1>2. ASSUME NEW ap \in Aps, NEW b \in Bssids \cup {None}, NEW w \in BOOLEAN,
               RK_wifi_connect(a, ap, b, w)
        PROVE  TypeOK'
    <2>1. app' \in [Apps -> AppType]
      BY <1>1, <1>2 DEF RK_wifi_connect, AppPcs, AllCalls
    <2> QED BY <1>2, <2>1 DEF RK_wifi_connect, TypeOK, globals
  <1>3. ASSUME NEW ap \in Aps, RK_wifi_connect_with_ssid(a, ap)
        PROVE  TypeOK'
    <2>1. app' \in [Apps -> AppType]
      BY <1>1, <1>3 DEF RK_wifi_connect_with_ssid, AppPcs, AllCalls
    <2> QED BY <1>3, <2>1 DEF RK_wifi_connect_with_ssid, TypeOK, globals
  <1>4. ASSUME NEW b \in Bssids, RK_wifi_connect_with_bssid(a, b)
        PROVE  TypeOK'
    <2>1. app' \in [Apps -> AppType]
      BY <1>1, <1>4 DEF RK_wifi_connect_with_bssid, AppPcs, AllCalls
    <2> QED BY <1>4, <2>1 DEF RK_wifi_connect_with_bssid, TypeOK, globals
  <1>5. CASE RK_wifi_cancel(a)
    <2>1. app' \in [Apps -> AppType]
      BY <1>1, <1>5 DEF RK_wifi_cancel, AppPcs, AllCalls
    <2> QED BY <1>5, <2>1 DEF RK_wifi_cancel, TypeOK, globals
  <1>6. ASSUME NEW id \in Ids, RK_wifi_forget(a, id)
        PROVE  TypeOK'
    <2>1. [IdleApp EXCEPT !.pc = "forget", !.call = "forget", !.id = id] \in AppType
      BY ConstType DEF AppType, AppPcs, AllCalls, IdOrNone
    <2>2. app' \in [Apps -> AppType]
      BY <1>6, <2>1 DEF RK_wifi_forget, TypeOK
    <2> QED BY <1>6, <2>2 DEF RK_wifi_forget, TypeOK, globals
  <1>7. CASE RK_wifi_disconnect_network
    <2>1. sup' \in SupType
      BY <1>7, DisconnectType DEF RK_wifi_disconnect_network, SupType, TypeOK
    <2> QED BY <1>7, <2>1 DEF RK_wifi_disconnect_network, TypeOK, globals
  <1>8. CASE RK_wifi_reset
    <2>1. [i \in Ids |-> Absent] \in [Ids -> Net]
      BY ConstType
    <2>2. sup' \in SupType
      BY <1>8, <2>1, DisconnectType DEF RK_wifi_reset, SupType, TypeOK
    <2> QED BY <1>8, <2>2 DEF RK_wifi_reset, TypeOK, globals
  <1> QED BY <1>2, <1>3, <1>4, <1>5, <1>6, <1>7, <1>8 DEF Call

\* Every later step of a call keeps the types.
LEMMA TypeInCall ==
  ASSUME TypeOK, IdsChosen, NEW a \in Apps, InCall(a)
  PROVE  TypeOK'
PROOF
  <1> DEFINE id == app[a].id
  <1>1. ASSUME NEW l \in AppPcs, Goto(a, l)
        PROVE  app' \in [Apps -> AppType]
    BY <1>1 DEF TypeOK, Goto, AppType
  <1>2. ASSUME Return(a)
        PROVE  app' \in [Apps -> AppType]
    BY <1>2, ConstType DEF TypeOK, Return
  <1>3. app[a] \in AppType /\ sup \in SupType /\ sup.nets \in [Ids -> Net]
    BY DEF TypeOK, SupType
  <1>4. CASE TakeLock(a)
    <2>1. app' \in [Apps -> AppType]
      BY <1>1, <1>4 DEF TakeLock, AppPcs
    <2> QED BY <1>3, <1>4, <2>1 DEF TakeLock, TypeOK, AppType
  <1>5. CASE DisableAll(a)
    <2>1. app' \in [Apps -> AppType]
      BY <1>1, <1>5 DEF DisableAll, AppPcs
    <2>2. sup' \in SupType
      BY <1>3, <1>5, DisableType DEF DisableAll
    <2> QED BY <1>5, <2>1, <2>2 DEF DisableAll, TypeOK, globals
  <1>6. CASE Search(a)
    <2>1. ASSUME NEW i \in Ids, NEW l \in AppPcs,
                 app' = [app EXCEPT ![a].id = i, ![a].pc = l]
          PROVE  app' \in [Apps -> AppType]
      <3>1. [app[a] EXCEPT !.id = i, !.pc = l] \in AppType
        BY <1>3 DEF AppType, IdOrNone
      <3>2. app' = [app EXCEPT ![a] = [app[a] EXCEPT !.id = i, !.pc = l]]
        BY <2>1
      <3> QED BY <3>1, <3>2 DEF TypeOK
    <2>2. app' \in [Apps -> AppType] /\ connecting_id' \in IdOrNone
      BY <1>1, <1>6, <2>1 DEF Search, Saved, AppPcs, IdOrNone, TypeOK
    <2>3. sup' \in SupType
      <3>1. \/ UNCHANGED sup
            \/ \E i \in Ids : sup' = [sup EXCEPT !.nets[i] = Blank]
        BY <1>6 DEF Search
      <3> QED BY <1>3, <3>1, SetNetType, ConstType
    <2> QED BY <1>6, <2>2, <2>3 DEF Search, TypeOK
  <1>7. CASE SetNetwork(a)
    <2> DEFINE net == sup.nets[id]
               pinned == [net EXCEPT !.bssid = IF gbssid # None THEN gbssid ELSE @]
               named  == [pinned EXCEPT !.ap = app[a].ap]
    <2>1. id \in Ids
      BY <1>7 DEF SetNetwork, At, IdsChosen
    <2>2. net \in Net /\ pinned \in Net
      BY <1>3, <2>1 DEF TypeOK, Net
    <2>3. named \in Net
      BY <1>3, <2>2 DEF Net, AppType
    <2>4. \E n \in {net, pinned, named} : sup' = [sup EXCEPT !.nets[id] = n]
      BY <1>7 DEF SetNetwork
    <2> HIDE DEF net, pinned, named
    <2>5. sup' \in SupType
      BY <1>3, <2>1, <2>2, <2>3, <2>4, SetNetType
    <2>6. app' \in [Apps -> AppType]
      BY <1>1, <1>7 DEF SetNetwork, AppPcs
    <2>7. wep_id' \in IdOrNone
      BY <1>7, <2>1 DEF SetNetwork, TypeOK, IdOrNone
    <2>8. UNCHANGED <<wifi_connect_lock, wifi_cancel, wifi_wrong_key, wifi_is_exist,
                      is_wep, connecting_id, gbssid, wifi_onoff_flag,
                      chk, mon, outcome>>
      BY <1>7 DEF SetNetwork
    <2> QED BY <2>5, <2>6, <2>7, <2>8 DEF TypeOK
  <1>8. CASE SelectNetwork(a)
    <2> DEFINE clr == IF gbssid = None /\ Known(id)
                      THEN [sup EXCEPT !.nets[id].bssid = None] ELSE sup
    <2>1. id \in Ids
      BY <1>8 DEF SelectNetwork, At, IdsChosen
    <2>2. [sup.nets[id] EXCEPT !.bssid = None] \in Net
      BY <1>3, <2>1 DEF Net
    <2>3. clr \in SupType
      BY <1>3, <2>1, <2>2, SetNetType
    <2>4. sup' \in {select(clr, id), clr, sup} /\ gbssid' \in {None, gbssid}
      BY <1>8 DEF SelectNetwork
    <2> HIDE DEF clr
    <2>5. sup' \in SupType
      BY <1>3, <2>1, <2>3, <2>4, SelectType
    <2>6. app' \in [Apps -> AppType]
      BY <1>1, <1>8 DEF SelectNetwork, AppPcs
    <2> QED BY <1>8, <2>4, <2>5, <2>6 DEF SelectNetwork, TypeOK
  <1>9. CASE EnableNetwork(a)
    <2>1. id \in Ids
      BY <1>9 DEF EnableNetwork, At, IdsChosen
    <2>2. sup' \in SupType
      <3>1. sup' \in {sup, [sup EXCEPT !.nets[id].enabled = TRUE]}
        BY <1>9 DEF EnableNetwork
      <3> QED BY <1>3, <2>1, <3>1, EnableOneType
    <2>3. app' \in [Apps -> AppType]
      BY <1>1, <1>2, <1>9 DEF EnableNetwork, AppPcs
    <2>4. [pc |-> "read", id |-> None, own |-> id, call |-> app[a].call,
           polls |-> 0, ok |-> FALSE, report |-> FALSE] \in ChkType
      BY <1>3, <2>1, ConstType DEF ChkType, ChkPcs, AppType, IdOrNone
    <2>5. chk' \in [Checkers -> ChkType]
      BY <1>9, <2>4 DEF EnableNetwork, TypeOK
    <2> QED BY <1>9, <2>2, <2>3, <2>5 DEF EnableNetwork, TypeOK, globals
  <1>10. CASE FailReport(a)
    <2>1. app' \in [Apps -> AppType]
      BY <1>1, <1>10 DEF FailReport, AppPcs
    <2> QED BY <1>10, <2>1 DEF FailReport, TypeOK, globals
  <1>11. CASE FailUnlock(a)
    <2>1. app' \in [Apps -> AppType]
      BY <1>2, <1>11 DEF FailUnlock
    <2> QED BY <1>11, <2>1 DEF FailUnlock, TypeOK
  <1>12. CASE CancelRaise(a)
    <2>1. app' \in [Apps -> AppType]
      BY <1>1, <1>12 DEF CancelRaise, AppPcs
    <2> QED BY <1>12, <2>1 DEF CancelRaise, TypeOK
  <1>13. CASE CancelReturn(a)
    <2>1. app' \in [Apps -> AppType]
      BY <1>2, <1>13 DEF CancelReturn
    <2> QED BY <1>13, <2>1 DEF CancelReturn, TypeOK, globals
  <1>14. CASE ForgetRemove(a)
    <2>1. sup' \in SupType
      BY <1>3, <1>14, RemoveType DEF ForgetRemove, At, IdsChosen
    <2>2. app' \in [Apps -> AppType]
      BY <1>2, <1>14 DEF ForgetRemove
    <2> QED BY <1>14, <2>1, <2>2 DEF ForgetRemove, TypeOK, globals
  <1> QED BY <1>4, <1>5, <1>6, <1>7, <1>8, <1>9, <1>10, <1>11, <1>12, <1>13,
             <1>14 DEF InCall

\* Every step of a check thread keeps the types; the poll counter stays below
\* WIFI_CONNECT_RETRY.
LEMMA TypeChecker ==
  ASSUME TypeOK, IdsChosen, NEW c \in Checkers, Checker(c)
  PROVE  TypeOK'
PROOF
  <1>1. chk[c] \in ChkType /\ sup \in SupType /\ ConnectRetry \in Nat
    BY ConstantsAssumption DEF TypeOK
  <1>2. ASSUME NEW l \in ChkPcs, ChkGoto(c, l)
        PROVE  chk' \in [Checkers -> ChkType]
    BY <1>2 DEF TypeOK, ChkGoto, ChkType
  <1>3. ASSUME NEW r \in ChkType, chk' = [chk EXCEPT ![c] = r]
        PROVE  chk' \in [Checkers -> ChkType]
    BY <1>3 DEF TypeOK
  <1>4. CASE CheckRead(c)
    <2>1. [chk[c] EXCEPT !.id = connecting_id, !.pc = "poll"] \in ChkType
      BY <1>1 DEF ChkType, ChkPcs, TypeOK
    <2>2. chk' \in [Checkers -> ChkType]
      BY <1>3, <1>4, <2>1 DEF CheckRead
    <2> QED BY <1>4, <2>2 DEF CheckRead, TypeOK, globals
  <1>5. CASE check_wifi_isconnected(c)
    <2>1. /\ [chk[c] EXCEPT !.ok = TRUE, !.pc = "decide"] \in ChkType
          /\ [chk[c] EXCEPT !.pc = "decide"] \in ChkType
      BY <1>1 DEF ChkType, ChkPcs
    <2>2. ASSUME ~GiveUp(c)
          PROVE  [chk[c] EXCEPT !.polls = @ + 1] \in ChkType
      <3>1. chk[c].polls \in 0 .. ConnectRetry - 1 /\ chk[c].polls + 1 # ConnectRetry
        BY <1>1, <2>2 DEF ChkType, GiveUp
      <3>2. chk[c].polls + 1 \in 0 .. ConnectRetry - 1
        BY <1>1, <3>1
      <3> QED BY <1>1, <3>2 DEF ChkType
    <2>3. ASSUME Connected PROVE chk' \in [Checkers -> ChkType]
      <3>1. chk' = [chk EXCEPT ![c] = [chk[c] EXCEPT !.ok = TRUE, !.pc = "decide"]]
        BY <1>5, <2>3 DEF check_wifi_isconnected
      <3> QED BY <1>3, <2>1, <3>1
    <2>4. ASSUME ~Connected, GiveUp(c) PROVE chk' \in [Checkers -> ChkType]
      BY <1>2, <1>5, <2>4 DEF check_wifi_isconnected, ChkPcs
    <2>5. ASSUME ~Connected, ~GiveUp(c) PROVE chk' \in [Checkers -> ChkType]
      <3>1. chk' = [chk EXCEPT ![c] = [chk[c] EXCEPT !.polls = @ + 1]]
        BY <1>5, <2>5 DEF check_wifi_isconnected
      <3> QED BY <1>3, <2>2, <2>5, <3>1
    <2>6. chk' \in [Checkers -> ChkType]
      BY <2>3, <2>4, <2>5
    <2> QED BY <1>5, <2>6 DEF check_wifi_isconnected, TypeOK, globals
  <1>6. CASE Decide(c)
    <2>1. \A r \in BOOLEAN, l \in ChkPcs :
            [chk[c] EXCEPT !.report = r, !.pc = l] \in ChkType
      BY <1>1 DEF ChkType
    <2>2. chk' = [chk EXCEPT ![c] = [chk[c] EXCEPT
                    !.report = chk[c].ok \/ ~wifi_wrong_key,
                    !.pc = IF chk[c].ok THEN "send" ELSE "drop"]]
      BY <1>6 DEF Decide, TypeOK
    <2>3. chk' \in [Checkers -> ChkType]
      BY <1>3, <2>1, <2>2 DEF ChkPcs
    <2> QED BY <1>6, <2>3 DEF Decide, TypeOK, globals
  <1>7. CASE wifi_connectfail_process(c)
    <2>1. chk[c].id \in Ids
      BY <1>7 DEF wifi_connectfail_process, IdsChosen
    <2>2. sup' \in SupType
      BY <1>1, <1>7, <2>1, DisableType, RemoveType DEF wifi_connectfail_process
    <2>3. chk' \in [Checkers -> ChkType]
      BY <1>2, <1>7 DEF wifi_connectfail_process, ChkPcs
    <2> QED BY <1>7, <2>2, <2>3 DEF wifi_connectfail_process, TypeOK, globals
  <1>8. CASE SendResult(c)
    <2>1. chk' \in [Checkers -> ChkType]
      BY <1>2, <1>8 DEF SendResult, ChkPcs
    <2> QED BY <1>8, <2>1 DEF SendResult, TypeOK, globals
  <1>9. CASE Release(c)
    <2>1. [NoChk EXCEPT !.pc = "tail"] \in ChkType
      BY ConstType DEF ChkType, ChkPcs
    <2>2. chk' \in [Checkers -> ChkType]
      BY <1>9, <2>1, ConstType DEF Release, TypeOK
    <2> QED BY <1>9, <2>2 DEF Release, TypeOK
  <1>10. CASE ReenableAll(c)
    <2>1. sup' \in SupType
      BY <1>1, <1>10, EnableAllType DEF ReenableAll
    <2>2. chk' \in [Checkers -> ChkType]
      BY <1>10, ConstType DEF ReenableAll, TypeOK
    <2> QED BY <1>10, <2>1, <2>2 DEF ReenableAll, TypeOK, globals
  <1> QED BY <1>4, <1>5, <1>6, <1>7, <1>8, <1>9, <1>10 DEF Checker

\* Every step of the monitor thread keeps the types.
LEMMA TypeMonitor ==
  ASSUME TypeOK, Monitor
  PROVE  TypeOK'
PROOF
  <1> DEFINE MonType == [pc : MonPcs, id : Ids]
  <1>1. sup \in SupType /\ mon \in MonType /\ 0 \in Ids
    BY ConstantsAssumption DEF TypeOK
  <1>2. ASSUME NEW l \in MonPcs, MonGoto(l)
        PROVE  mon' \in MonType
    BY <1>1, <1>2 DEF MonGoto
  <1>3. ASSUME sup.events # <<>>
        PROVE  Read(sup) \in SupType
    <2>1. sup.events \in Seq(EventTypes)
      BY <1>1 DEF SupType
    <2>2. Tail(sup.events) \in Seq(EventTypes)
      BY <1>3, <2>1
    <2> QED BY <1>1, <2>2 DEF SupType, Read
  <1>4. CASE OnDisconnected
    <2>1. sup' \in SupType
      BY <1>3, <1>4 DEF OnDisconnected, Event, SupType
    <2>2. mon' \in MonType
      BY <1>2, <1>4 DEF OnDisconnected, MonPcs
    <2> QED BY <1>4, <2>1, <2>2 DEF OnDisconnected, TypeOK, globals
  <1>5. CASE MonLockTest
    <2>1. mon' \in MonType
      BY <1>2, <1>5 DEF MonLockTest, MonPcs
    <2> QED BY <1>5, <2>1 DEF MonLockTest, TypeOK, globals
  <1>6. CASE MonReenable
    <2>1. sup' \in SupType
      BY <1>1, <1>6, EnableAllType DEF MonReenable
    <2>2. mon' \in MonType
      BY <1>2, <1>6 DEF MonReenable, MonPcs
    <2> QED BY <1>6, <2>1, <2>2 DEF MonReenable, TypeOK, globals
  <1>7. CASE OnConnected
    <2>1. sup' \in SupType
      BY <1>3, <1>7 DEF OnConnected, Event
    <2>2. mon' \in MonType
      BY <1>1, <1>7 DEF OnConnected, MonPcs, SupType, IdOrNone
    <2> QED BY <1>7, <2>1, <2>2 DEF OnConnected, TypeOK, globals
  <1>8. CASE disable_no_connected_ssid
    <2>1. sup' \in SupType
      BY <1>1, <1>8, DisableType DEF disable_no_connected_ssid
    <2>2. mon' \in MonType
      BY <1>1, <1>8 DEF disable_no_connected_ssid, MonPcs
    <2> QED BY <1>8, <2>1, <2>2
            DEF disable_no_connected_ssid, TypeOK, globals
  <1>9. CASE rkwifi_check_ip
    <2>1. mon' \in MonType
      BY <1>2, <1>9 DEF rkwifi_check_ip, MonPcs
    <2> QED BY <1>9, <2>1 DEF rkwifi_check_ip, TypeOK, globals
  <1>10. CASE OnWrongKey
    <2>1. sup' \in SupType
      BY <1>3, <1>10 DEF OnWrongKey, Event
    <2>2. mon' \in MonType
      BY <1>2, <1>10 DEF OnWrongKey, MonPcs
    <2> QED BY <1>10, <2>1, <2>2 DEF OnWrongKey, TypeOK
  <1>11. CASE ReportWrongKey
    <2>1. mon' \in MonType
      BY <1>2, <1>11 DEF ReportWrongKey, MonPcs
    <2> QED BY <1>11, <2>1 DEF ReportWrongKey, TypeOK, globals
  <1>12. CASE OnAssocReject
    <2>1. sup' \in SupType
      BY <1>3, <1>12 DEF OnAssocReject, Event
    <2>2. mon' \in MonType
      BY <1>2, <1>12 DEF OnAssocReject, MonPcs
    <2> QED BY <1>12, <2>1, <2>2 DEF OnAssocReject, TypeOK, globals
  <1>13. CASE WepRetry
    <2>1. sup' \in SupType
      BY <1>1, <1>13, SelectType DEF WepRetry
    <2>2. mon' \in MonType
      BY <1>2, <1>13 DEF WepRetry, MonPcs
    <2> QED BY <1>13, <2>1, <2>2 DEF WepRetry, TypeOK, globals
  <1> QED BY <1>4, <1>5, <1>6, <1>7, <1>8, <1>9, <1>10, <1>11, <1>12, <1>13
          DEF Monitor

\* What wpa_supplicant does on its own keeps the types.
LEMMA TypeSupplicant ==
  ASSUME TypeOK, Supplicant
  PROVE  TypeOK' /\ UNCHANGED <<globals, app, chk, mon, outcome>>
PROOF
  <1>1. sup \in SupType
    BY DEF TypeOK
  <1>2. ASSUME NEW id \in Ids, Associate(id)
        PROVE  sup' \in SupType /\ UNCHANGED <<globals, app, chk, mon, outcome>>
    <2>1. [sup EXCEPT !.assoc = id] \in SupType
      BY <1>1 DEF SupType, IdOrNone
    <2> QED BY <1>2, <2>1, RaiseType DEF Associate, EventTypes
  <1>3. ASSUME NEW id \in Ids, NEW t \in {"WRONG_KEY", "ASSOC_REJECT"}, Refuse(id, t)
        PROVE  sup' \in SupType /\ UNCHANGED <<globals, app, chk, mon, outcome>>
    BY <1>1, <1>3, RaiseType DEF Refuse, EventTypes
  <1>4. ASSUME GotAddress
        PROVE  sup' \in SupType /\ UNCHANGED <<globals, app, chk, mon, outcome>>
    BY <1>1, <1>4 DEF GotAddress, SupType
  <1>5. ASSUME LinkLost
        PROVE  sup' \in SupType /\ UNCHANGED <<globals, app, chk, mon, outcome>>
    BY <1>1, <1>5, DisconnectType DEF LinkLost
  <1>6. sup' \in SupType /\ UNCHANGED <<globals, app, chk, mon, outcome>>
    BY <1>2, <1>3, <1>4, <1>5 DEF Supplicant
  <1> QED BY <1>6 DEF TypeOK, globals

-----------------------------------------------------------------------------
(* A network id is chosen before it is used.                               *)

\* The steps of an application thread keep IdsChosen.
LEMMA IdsApp ==
  ASSUME TypeOK, IdsChosen, NEW a \in Apps, Call(a) \/ InCall(a)
  PROVE  IdsChosen'
PROOF
  <1> USE DEF TypeOK, AppType, IdsChosen, Goto, Return, Enter, At, IdleApp,
              globals
  <1>1. ASSUME NEW ap \in Aps, NEW b \in Bssids \cup {None}, NEW w \in BOOLEAN,
               RK_wifi_connect(a, ap, b, w)
        PROVE  IdsChosen'
    BY <1>1 DEF RK_wifi_connect
  <1>2. ASSUME NEW ap \in Aps, RK_wifi_connect_with_ssid(a, ap)
        PROVE  IdsChosen'
    BY <1>2 DEF RK_wifi_connect_with_ssid
  <1>3. ASSUME NEW b \in Bssids, RK_wifi_connect_with_bssid(a, b)
        PROVE  IdsChosen'
    BY <1>3 DEF RK_wifi_connect_with_bssid
  <1>4. CASE RK_wifi_cancel(a)
    BY <1>4 DEF RK_wifi_cancel
  <1>5. ASSUME NEW id \in Ids, RK_wifi_forget(a, id)
        PROVE  IdsChosen'
    BY <1>5 DEF RK_wifi_forget
  <1>6. CASE RK_wifi_disconnect_network \/ RK_wifi_reset
    BY <1>6 DEF RK_wifi_disconnect_network, RK_wifi_reset
  <1>7. CASE TakeLock(a)
    BY <1>7 DEF TakeLock
  <1>8. CASE DisableAll(a)
    BY <1>8 DEF DisableAll
  <1>9. CASE Search(a)
    <2>1. UNCHANGED chk
      BY <1>9 DEF Search
    <2>2. \/ \E i \in Ids, l \in AppPcs :
               connecting_id' = i /\ app' = [app EXCEPT ![a].id = i, ![a].pc = l]
          \/ Goto(a, "fail") /\ UNCHANGED connecting_id
      BY <1>9 DEF Search, Saved, AppPcs
    <2>3. ASSUME NEW i \in Ids, NEW l \in AppPcs, connecting_id' = i,
                 app' = [app EXCEPT ![a].id = i, ![a].pc = l]
          PROVE  IdsChosen'
      <3>1. app'[a].id = i /\ \A b \in Apps \ {a} : app'[b] = app[b]
        BY <2>3
      <3> QED BY <2>1, <2>3, <3>1
    <2>4. ASSUME Goto(a, "fail"), UNCHANGED connecting_id
          PROVE  IdsChosen'
      BY <2>1, <2>4
    <2> HIDE DEF IdsChosen, Goto
    <2> QED BY <2>2, <2>3, <2>4
  <1>10. CASE SetNetwork(a)
    <2>1. (Goto(a, "select") \/ Goto(a, "fail")) /\ UNCHANGED <<connecting_id, chk>>
      BY <1>10 DEF SetNetwork
    <2>2. app[a].pc = "set"
      BY <1>10 DEF SetNetwork
    <2> QED BY <2>1, <2>2
  <1>11. CASE SelectNetwork(a)
    BY <1>11 DEF SelectNetwork
  <1>12. CASE EnableNetwork(a)
    <2>1. UNCHANGED connecting_id /\ (Return(a) \/ Goto(a, "fail"))
      BY <1>12 DEF EnableNetwork
    <2>2. connecting_id \in Ids
      BY <1>12 DEF EnableNetwork
    <2>3. \A c \in Checkers : chk'[c] = chk[c] \/ chk'[c].pc = "read"
      BY <1>12 DEF EnableNetwork
    <2> QED BY <2>1, <2>2, <2>3
  <1>13. CASE FailReport(a)
    BY <1>13 DEF FailReport
  <1>14. CASE FailUnlock(a)
    BY <1>14 DEF FailUnlock
  <1>15. CASE CancelRaise(a)
    BY <1>15 DEF CancelRaise
  <1>16. CASE CancelReturn(a)
    BY <1>16 DEF CancelReturn
  <1>17. CASE ForgetRemove(a)
    BY <1>17 DEF ForgetRemove
  <1> HIDE DEF TypeOK, AppType, IdsChosen, Goto, Return, Enter, At, IdleApp,
               globals
  <1> QED BY <1>1, <1>2, <1>3, <1>4, <1>5, <1>6, <1>7, <1>8, <1>9, <1>10, <1>11,
             <1>12, <1>13, <1>14, <1>15, <1>16, <1>17 DEF Call, InCall

\* The steps of a check thread keep IdsChosen.
LEMMA IdsChecker ==
  ASSUME TypeOK, IdsChosen, NEW c \in Checkers, Checker(c)
  PROVE  IdsChosen'
PROOF
  <1> USE DEF TypeOK, ChkType, IdsChosen, ChkGoto, NoChk, globals
  <1>1. CASE CheckRead(c)
    BY <1>1 DEF CheckRead
  <1>2. CASE check_wifi_isconnected(c)
    BY <1>2 DEF check_wifi_isconnected
  <1>3. CASE Decide(c)
    BY <1>3 DEF Decide
  <1>4. CASE wifi_connectfail_process(c)
    BY <1>4 DEF wifi_connectfail_process
  <1>5. CASE SendResult(c)
    BY <1>5 DEF SendResult
  <1>6. CASE Release(c)
    BY <1>6 DEF Release
  <1>7. CASE ReenableAll(c)
    BY <1>7 DEF ReenableAll
  <1> HIDE DEF TypeOK, ChkType, IdsChosen, ChkGoto, NoChk, globals
  <1> QED BY <1>1, <1>2, <1>3, <1>4, <1>5, <1>6, <1>7 DEF Checker

\* The monitor writes no thread state and, of the globals, only wifi_wrong_key.
LEMMA MonitorFrame ==
  ASSUME Monitor
  PROVE  UNCHANGED <<wifi_connect_lock, wifi_is_exist, connecting_id, app, chk>>
PROOF
  BY DEF Monitor, OnDisconnected, MonLockTest, MonReenable, OnConnected,
         disable_no_connected_ssid, rkwifi_check_ip, OnWrongKey, ReportWrongKey,
         OnAssocReject, WepRetry, globals

TypeInv == TypeOK /\ IdsChosen

\* TypeInv holds initially.
LEMMA TypeInvInit == Init => TypeInv
PROOF
  <1>1. Init => IdsChosen
    BY DEF Init, IdsChosen, IdleApp, NoChk
  <1> QED BY <1>1, TypeInit DEF TypeInv

\* TypeInv is inductive.
LEMMA TypeStep == TypeInv /\ [Next]_vars => TypeInv'
PROOF
  <1> SUFFICES ASSUME TypeInv, [Next]_vars PROVE TypeInv'
    OBVIOUS
  <1>1. ASSUME UNCHANGED <<connecting_id, app, chk>>
        PROVE  IdsChosen'
    BY <1>1 DEF TypeInv, IdsChosen
  <1>2. ASSUME NEW a \in Apps, Call(a) \/ InCall(a)
        PROVE  TypeInv'
    BY <1>2, TypeCall, TypeInCall, IdsApp DEF TypeInv
  <1>3. ASSUME NEW c \in Checkers, Checker(c)
        PROVE  TypeInv'
    BY <1>3, TypeChecker, IdsChecker DEF TypeInv
  <1>4. CASE Monitor
    BY <1>1, <1>4, TypeMonitor, MonitorFrame DEF TypeInv
  <1>5. CASE Supplicant
    BY <1>1, <1>5, TypeSupplicant DEF TypeInv, globals
  <1>6. CASE PowerFlags
    BY <1>6 DEF PowerFlags, TypeInv, TypeOK, IdsChosen
  <1>7. CASE UNCHANGED vars
    BY <1>7 DEF vars, globals, TypeInv, TypeOK, IdsChosen
  <1> QED BY <1>2, <1>3, <1>4, <1>5, <1>6, <1>7 DEF Next

\* Type correctness for all applications, networks and bounds: every global,
\* thread and the supplicant stay in their ranges, and the poll counter of
\* check_wifi_isconnected stays below WIFI_CONNECT_RETRY.
THEOREM TypeCorrect == Spec => []TypeOK
PROOF
  <1>1. TypeInv => TypeOK
    BY DEF TypeInv
  <1> QED BY <1>1, TypeInvInit, TypeStep, PTL DEF Spec

-----------------------------------------------------------------------------
(* One connect at a time.                                                  *)

\* Of the calling thread SerialInv reads the label, the call and the network
\* id: what a step must leave and establish for it.
LEMMA SerialMove ==
  ASSUME SerialCallers, SerialInv, NEW a \in Apps,
         UNCHANGED <<wifi_connect_lock, wifi_is_exist, chk>>,
         app'[a].call = app[a].call,
         Configuring(a), Configuring(a)' \/ app'[a].pc = "fail",
         \/ app'[a].pc \in {"set", "select", "enable"}
         \/ app'[a].pc = "disable" /\ app'[a].call # "connect"
         => connecting_id' = app'[a].id
  PROVE  SerialInv'
PROOF
  <1>1. \A b \in Apps : b = a
    BY DEF SerialCallers
  <1>2. \A c \in Checkers : ~Live(c) /\ ~Live(c)'
    BY DEF SerialInv, OnlyOneConnect, Live
  <1>3. wifi_connect_lock /\ wifi_connect_lock'
    BY DEF SerialInv, LockTracksAttempt
  <1>4. OnlyOneConnect' /\ ChecksOwnNetwork'
    BY <1>1, <1>2 DEF OnlyOneConnect, ChecksOwnNetwork, Live
  <1>5. LockTracksAttempt'
    BY <1>1, <1>2, <1>3 DEF LockTracksAttempt, Unwinding
  <1>6. app'[a].pc # "lock"
    BY DEF Configuring
  <1>7. /\ app[a].call \in {"connect", "with_ssid"}
        /\ app[a].call = "with_ssid" => wifi_is_exist
    BY DEF SerialInv
  <1> QED BY <1>1, <1>2, <1>4, <1>5, <1>6, <1>7 DEF SerialInv, At

\* Steps outside a connect call.
LEMMA SerialOutside ==
  ASSUME SerialCallers, SerialInv, NEW a \in Apps,
         UNCHANGED <<wifi_connect_lock, wifi_is_exist, connecting_id, chk>>,
         app[a].pc \in {"idle", "raise", "wait", "forget"},
         \/ app'[a].pc \in {"idle", "raise", "wait", "forget"}
         \/ /\ app'[a].pc = "lock" /\ ~wifi_connect_lock
            /\ app'[a].call \in {"connect", "with_ssid"}
  PROVE  SerialInv'
PROOF
  <1>1. \A b \in Apps : b = a
    BY DEF SerialCallers
  <1>2. ~Configuring(a) /\ ~Unwinding(a) /\ ~Configuring(a)' /\ ~Unwinding(a)'
    BY DEF Configuring, Unwinding
  <1>3. OnlyOneConnect' /\ ChecksOwnNetwork'
    BY <1>1, <1>2 DEF SerialInv, OnlyOneConnect, ChecksOwnNetwork, Live
  <1>4. LockTracksAttempt'
    BY <1>1, <1>2 DEF SerialInv, LockTracksAttempt, Live
  <1>5. \A c \in Checkers : Live(c)' => Live(c)
    BY DEF Live
  <1> QED BY <1>1, <1>2, <1>3, <1>4, <1>5 DEF SerialInv, At

\* The steps of the calling thread keep SerialInv.
LEMMA SerialApp ==
  ASSUME SerialCallers, TypeInv, SerialInv, NEW a \in Apps, Call(a) \/ InCall(a)
  PROVE  SerialInv'
PROOF
  <1>1. \A b \in Apps : b = a
    BY DEF SerialCallers
  <1>2. /\ app[a] \in AppType /\ app \in [Apps -> AppType]
        /\ chk \in [Checkers -> ChkType]
    BY DEF TypeInv, TypeOK
  <1>3. ASSUME NEW l, Goto(a, l)
        PROVE  app'[a].pc = l /\ app'[a].call = app[a].call /\ app'[a].id = app[a].id
    BY <1>2, <1>3 DEF Goto, AppType
  <1>4. ASSUME Return(a)
        PROVE  app'[a].pc = "idle"
    BY <1>2, <1>4 DEF Return, IdleApp
  <1>5. ASSUME NEW l, NEW call, NEW ap, NEW b, NEW w, Enter(a, l, call, ap, b, w)
        PROVE  app'[a].pc = l /\ app'[a].call = call
    BY <1>2, <1>5 DEF Enter
  <1>6. CASE Call(a)
    <2>1. ASSUME NEW ap \in Aps, NEW b \in Bssids \cup {None}, NEW w \in BOOLEAN,
                 RK_wifi_connect(a, ap, b, w)
          PROVE  SerialInv'
      BY <1>5, <2>1, SerialOutside DEF RK_wifi_connect, At, globals
    <2>2. ASSUME NEW ap \in Aps, RK_wifi_connect_with_ssid(a, ap)
          PROVE  SerialInv'
      BY <1>5, <2>2, SerialOutside DEF RK_wifi_connect_with_ssid, At, globals
    <2>3. ASSUME NEW b \in Bssids, RK_wifi_connect_with_bssid(a, b)
          PROVE  FALSE
      BY <2>3 DEF RK_wifi_connect_with_bssid, SerialCallers
    <2>4. CASE RK_wifi_cancel(a)
      BY <1>5, <2>4, SerialOutside DEF RK_wifi_cancel, At, globals
    <2>5. ASSUME NEW id \in Ids, RK_wifi_forget(a, id)
          PROVE  SerialInv'
      <3>1. app'[a].pc = "forget"
        BY <1>2, <2>5 DEF RK_wifi_forget, IdleApp
      <3> QED BY <2>5, <3>1, SerialOutside DEF RK_wifi_forget, At, globals
    <2>6. CASE At(a, "idle") /\ (RK_wifi_disconnect_network \/ RK_wifi_reset)
      BY <2>6, SerialOutside
         DEF RK_wifi_disconnect_network, RK_wifi_reset, At, globals
    <2> QED BY <1>6, <2>1, <2>2, <2>3, <2>4, <2>5, <2>6 DEF Call
  <1>7. CASE TakeLock(a)
    <2>1. /\ app[a].pc = "lock" /\ wifi_connect_lock' /\ UNCHANGED chk
          /\ app[a].call = "connect" => app'[a].pc = "disable" /\ UNCHANGED wifi_is_exist
          /\ app[a].call # "connect" => app'[a].pc = "search" /\ wifi_is_exist'
          /\ app'[a].call = app[a].call
      BY <1>3, <1>7 DEF TakeLock, At
    <2>2. ~wifi_connect_lock /\ app[a].call \in {"connect", "with_ssid"}
      BY <2>1 DEF SerialInv, At
    <2>3. \A c \in Checkers : ~Live(c) /\ ~Live(c)'
      BY <2>1, <2>2 DEF SerialInv, LockTracksAttempt, Live
    <2>4. Configuring(a)' /\ app'[a].pc \in {"disable", "search"}
      BY <2>1 DEF Configuring
    <2>5. OnlyOneConnect' /\ LockTracksAttempt' /\ ChecksOwnNetwork'
      BY <1>1, <2>1, <2>3, <2>4
         DEF OnlyOneConnect, LockTracksAttempt, ChecksOwnNetwork, Live
    <2> QED BY <1>1, <2>1, <2>2, <2>3, <2>4, <2>5 DEF SerialInv, At
  <1>8. CASE DisableAll(a)
    <2>1. /\ app[a].pc = "disable" /\ app'[a].call = app[a].call
          /\ app'[a].id = app[a].id
          /\ app'[a].pc = IF app[a].call = "connect" THEN "search" ELSE "select"
          /\ UNCHANGED <<wifi_connect_lock, wifi_is_exist, connecting_id, chk>>
      BY <1>3, <1>8 DEF DisableAll, At, globals
    <2>2. Configuring(a) /\ Configuring(a)'
      BY <2>1 DEF Configuring
    <2>3. app[a].call # "connect" => connecting_id = app[a].id
      BY <2>1 DEF SerialInv, At
    <2> QED BY <2>1, <2>2, <2>3, SerialMove
  <1>9. CASE Search(a)
    <2>1. /\ app[a].pc = "search"
          /\ UNCHANGED <<wifi_connect_lock, wifi_is_exist, chk>>
      BY <1>9 DEF Search, At
    <2>2. CASE Goto(a, "fail") /\ UNCHANGED connecting_id
      BY <1>3, <2>1, <2>2, SerialMove DEF Configuring
    <2>3. ASSUME NEW i \in Ids, NEW l \in {"set", "disable"},
                 connecting_id' = i, app' = [app EXCEPT ![a].id = i, ![a].pc = l]
          PROVE  SerialInv'
      <3>1. app'[a].id = i /\ app'[a].pc = l /\ app'[a].call = app[a].call
        BY <1>2, <2>3 DEF AppType
      <3> QED BY <2>1, <2>3, <3>1, SerialMove DEF Configuring
    <2> QED BY <1>9, <2>2, <2>3 DEF Search, Saved
  <1>10. CASE SetNetwork(a)
    <2>1. /\ app[a].pc = "set" /\ (Goto(a, "select") \/ Goto(a, "fail"))
          /\ UNCHANGED <<wifi_connect_lock, wifi_is_exist, connecting_id, chk>>
      BY <1>10 DEF SetNetwork, At
    <2>2. connecting_id = app[a].id
      BY <2>1 DEF SerialInv
    <2> QED BY <1>3, <2>1, <2>2, SerialMove DEF Configuring
  <1>11. CASE SelectNetwork(a)
    <2>1. /\ app[a].pc = "select" /\ (Goto(a, "enable") \/ Goto(a, "fail"))
          /\ UNCHANGED <<wifi_connect_lock, wifi_is_exist, connecting_id, chk>>
      BY <1>11 DEF SelectNetwork, At
    <2>2. connecting_id = app[a].id
      BY <2>1 DEF SerialInv
    <2> QED BY <1>3, <2>1, <2>2, SerialMove DEF Configuring
  <1>12. CASE EnableNetwork(a)
    <2>1. /\ app[a].pc = "enable"
          /\ UNCHANGED <<wifi_connect_lock, wifi_is_exist, connecting_id>>
      BY <1>12 DEF EnableNetwork, At, globals
    <2>2. CASE Goto(a, "fail") /\ UNCHANGED chk
      BY <1>3, <2>1, <2>2, SerialMove DEF Configuring
    <2>3. ASSUME NEW c \in Checkers, Return(a), chk[c].pc = "none",
                 chk' = [chk EXCEPT ![c] = [pc |-> "read", id |-> None,
                           own |-> app[a].id, call |-> app[a].call,
                           polls |-> 0, ok |-> FALSE, report |-> FALSE]]
          PROVE  SerialInv'
      <3>1. /\ chk'[c].pc = "read" /\ chk'[c].own = app[a].id
            /\ chk'[c].call = app[a].call
            /\ \A d \in Checkers \ {c} : chk'[d] = chk[d]
        BY <1>2, <2>3
      <3>2. Configuring(a) /\ app'[a].pc = "idle"
        BY <1>4, <2>1, <2>3 DEF Configuring
      <3>3. /\ wifi_connect_lock /\ \A d \in Checkers : ~Live(d)
            /\ connecting_id = app[a].id
            /\ app[a].call \in {"connect", "with_ssid"}
            /\ app[a].call = "with_ssid" => wifi_is_exist
        BY <2>1, <3>2 DEF SerialInv, OnlyOneConnect, LockTracksAttempt
      <3>4. Live(c)' /\ \A d \in Checkers \ {c} : ~Live(d)'
        BY <3>1, <3>3 DEF Live
      <3>5. ~Configuring(a)' /\ ~Unwinding(a)'
        BY <3>2 DEF Configuring, Unwinding
      <3>6. OnlyOneConnect' /\ LockTracksAttempt'
        BY <1>1, <2>1, <3>3, <3>4, <3>5 DEF OnlyOneConnect, LockTracksAttempt
      <3>7. ChecksOwnNetwork'
        BY <2>1, <3>1, <3>3, <3>4 DEF ChecksOwnNetwork, Live
      <3> QED BY <1>1, <2>1, <3>1, <3>2, <3>3, <3>4, <3>5, <3>6, <3>7
              DEF SerialInv, At
    <2> QED BY <1>12, <2>2, <2>3 DEF EnableNetwork
  <1>13. CASE FailReport(a)
    <2>1. /\ Unwinding(a) /\ Unwinding(a)' /\ ~Configuring(a) /\ ~Configuring(a)'
          /\ app'[a].pc = "unlock"
          /\ UNCHANGED <<wifi_connect_lock, wifi_is_exist, connecting_id, chk>>
      <3>1. /\ app[a].pc = "fail" /\ Goto(a, "unlock")
            /\ UNCHANGED <<wifi_connect_lock, wifi_is_exist, connecting_id, chk>>
        BY <1>13 DEF FailReport, At, globals
      <3>2. app'[a].pc = "unlock"
        BY <1>3, <3>1
      <3> QED BY <3>1, <3>2 DEF Unwinding, Configuring
    <2>2. \A c \in Checkers : ~Live(c) /\ ~Live(c)'
      BY <2>1 DEF SerialInv, Live
    <2>3. OnlyOneConnect' /\ LockTracksAttempt' /\ ChecksOwnNetwork'
      BY <1>1, <2>1, <2>2
         DEF SerialInv, OnlyOneConnect, LockTracksAttempt, ChecksOwnNetwork, Live
    <2> QED BY <1>1, <2>1, <2>2, <2>3 DEF SerialInv, At
  <1>14. CASE FailUnlock(a)
    <2>1. /\ Unwinding(a) /\ ~Unwinding(a)' /\ ~Configuring(a)'
          /\ app'[a].pc = "idle" /\ ~wifi_connect_lock' /\ UNCHANGED chk
      BY <1>4, <1>14 DEF FailUnlock, At, Unwinding, Configuring
    <2>2. \A c \in Checkers : ~Live(c) /\ ~Live(c)'
      BY <2>1 DEF SerialInv, Live
    <2>3. OnlyOneConnect' /\ LockTracksAttempt' /\ ChecksOwnNetwork'
      BY <1>1, <2>1, <2>2
         DEF OnlyOneConnect, LockTracksAttempt, ChecksOwnNetwork, Live
    <2> QED BY <1>1, <2>1, <2>2, <2>3 DEF SerialInv, At
  <1>15. CASE CancelRaise(a)
    BY <1>3, <1>15, SerialOutside DEF CancelRaise, At
  <1>16. CASE CancelReturn(a)
    BY <1>4, <1>16, SerialOutside DEF CancelReturn, At, globals
  <1>17. CASE ForgetRemove(a)
    BY <1>4, <1>17, SerialOutside DEF ForgetRemove, At, globals
  <1> QED BY <1>6, <1>7, <1>8, <1>9, <1>10, <1>11, <1>12, <1>13, <1>14, <1>15,
             <1>16, <1>17 DEF InCall

\* The steps of a check thread keep SerialInv.
LEMMA SerialChecker ==
  ASSUME TypeInv, SerialInv, NEW c \in Checkers, Checker(c)
  PROVE  SerialInv'
PROOF
  <1>1. chk \in [Checkers -> ChkType] /\ chk[c] \in ChkType
    BY DEF TypeInv, TypeOK
  <1>2. \A d \in Checkers \ {c} : chk'[d] = chk[d]
    BY <1>1 DEF Checker, CheckRead, check_wifi_isconnected, Decide,
           wifi_connectfail_process, SendResult, Release, ReenableAll, ChkGoto
  <1>3. UNCHANGED <<connecting_id, app>>
    BY DEF Checker, CheckRead, check_wifi_isconnected, Decide, SendResult,
           wifi_connectfail_process, Release, ReenableAll, globals
  <1>4. ASSUME Live(c), Live(c)', chk'[c].pc # "read",
               UNCHANGED <<wifi_connect_lock, wifi_is_exist>>,
               chk'[c].own = chk[c].own, chk'[c].call = chk[c].call,
               chk'[c].id = chk[c].own
        PROVE  SerialInv'
    <2>1. \A d \in Checkers : Live(d)' <=> Live(d)
      BY <1>2, <1>4 DEF Live
    <2>2. \A a \in Apps : (Configuring(a)' <=> Configuring(a))
                          /\ (Unwinding(a)' <=> Unwinding(a))
      BY <1>3 DEF Configuring, Unwinding
    <2>3. OnlyOneConnect' /\ LockTracksAttempt'
      BY <1>4, <2>1, <2>2 DEF SerialInv, OnlyOneConnect, LockTracksAttempt
    <2>4. ChecksOwnNetwork'
      <3> SUFFICES ASSUME NEW d \in Checkers
                   PROVE  /\ chk'[d].pc = "read" => connecting_id' = chk'[d].own
                          /\ Live(d)' /\ chk'[d].pc # "read"
                             => chk'[d].id = chk'[d].own
        BY DEF ChecksOwnNetwork
      <3>1. CASE d = c
        BY <1>4, <3>1
      <3>2. CASE d # c
        BY <1>2, <1>3, <2>1, <3>2 DEF SerialInv, ChecksOwnNetwork
      <3> QED BY <3>1, <3>2
    <2> QED BY <1>2, <1>3, <1>4, <2>1, <2>2, <2>3, <2>4 DEF SerialInv, At
  <1>5. ASSUME Live(c), chk[c].pc # "read"
        PROVE  chk[c].id = chk[c].own
    BY <1>5 DEF SerialInv, ChecksOwnNetwork
  <1>6. CASE CheckRead(c)
    <2>1. /\ chk[c].pc = "read" /\ chk'[c].id = connecting_id /\ chk'[c].pc = "poll"
          /\ chk'[c].own = chk[c].own /\ chk'[c].call = chk[c].call
          /\ UNCHANGED <<wifi_connect_lock, wifi_is_exist>>
      BY <1>1, <1>6 DEF CheckRead, ChkType, globals
    <2>2. connecting_id = chk[c].own
      BY <2>1 DEF SerialInv, ChecksOwnNetwork
    <2> QED BY <1>4, <2>1, <2>2 DEF Live
  <1>7. ASSUME check_wifi_isconnected(c) \/ Decide(c) \/ wifi_connectfail_process(c)
                 \/ SendResult(c)
        PROVE  SerialInv'
    <2>1. /\ chk[c].pc \in {"poll", "decide", "drop", "send"}
          /\ chk'[c].pc \in {"poll", "decide", "drop", "send", "release"}
          /\ chk'[c].own = chk[c].own /\ chk'[c].call = chk[c].call
          /\ chk'[c].id = chk[c].id
          /\ UNCHANGED <<wifi_connect_lock, wifi_is_exist>>
      BY <1>1, <1>7 DEF check_wifi_isconnected, Decide, wifi_connectfail_process,
                        SendResult, ChkGoto, ChkType, globals
    <2> QED BY <1>4, <1>5, <2>1 DEF Live
  <1>8. CASE Release(c)
    <2>1. /\ Live(c) /\ ~Live(c)' /\ ~wifi_connect_lock'
      BY <1>1, <1>8 DEF Release, Live, NoChk
    <2>2. \A d \in Checkers : ~Live(d)'
      BY <1>2, <2>1 DEF SerialInv, OnlyOneConnect, Live
    <2>3. \A a \in Apps : ~Configuring(a) /\ ~Unwinding(a)
      BY <2>1 DEF SerialInv, OnlyOneConnect
    <2>4. \A a \in Apps : ~Configuring(a)' /\ ~Unwinding(a)'
      BY <1>3, <2>3 DEF Configuring, Unwinding
    <2>5. OnlyOneConnect' /\ LockTracksAttempt' /\ ChecksOwnNetwork'
      BY <2>1, <2>2, <2>4
         DEF OnlyOneConnect, LockTracksAttempt, ChecksOwnNetwork, Live
    <2> QED BY <1>3, <2>1, <2>2, <2>4, <2>5 DEF SerialInv, At, Configuring
  <1>9. CASE ReenableAll(c)
    <2>1. /\ ~Live(c) /\ ~Live(c)' /\ chk'[c].pc = "none"
          /\ UNCHANGED <<wifi_connect_lock, wifi_is_exist>>
      BY <1>1, <1>9 DEF ReenableAll, Live, NoChk, globals
    <2>2. \A d \in Checkers : Live(d)' <=> Live(d)
      BY <1>2, <2>1 DEF Live
    <2>3. \A a \in Apps : (Configuring(a)' <=> Configuring(a))
                          /\ (Unwinding(a)' <=> Unwinding(a))
      BY <1>3 DEF Configuring, Unwinding
    <2>4. OnlyOneConnect' /\ LockTracksAttempt'
      BY <2>1, <2>2, <2>3 DEF SerialInv, OnlyOneConnect, LockTracksAttempt
    <2>5. ChecksOwnNetwork'
      BY <1>2, <1>3, <2>1, <2>2 DEF SerialInv, ChecksOwnNetwork
    <2> QED BY <1>2, <1>3, <2>1, <2>2, <2>3, <2>4, <2>5 DEF SerialInv, At
  <1> QED BY <1>6, <1>7, <1>8, <1>9 DEF Checker

\* SerialInv is inductive relative to TypeInv, for serial callers.
LEMMA SerialStep ==
  ASSUME SerialCallers
  PROVE  TypeInv /\ SerialInv /\ [Next]_vars => SerialInv'
PROOF
  <1> SUFFICES ASSUME TypeInv, SerialInv, [Next]_vars PROVE SerialInv'
    OBVIOUS
  <1>1. ASSUME UNCHANGED <<wifi_connect_lock, wifi_is_exist, connecting_id, app, chk>>
        PROVE  SerialInv'
    BY <1>1 DEF SerialInv, OnlyOneConnect, LockTracksAttempt, ChecksOwnNetwork,
                Configuring, Unwinding, Live, At
  <1>2. CASE Monitor
    BY <1>1, <1>2, MonitorFrame
  <1>3. CASE Supplicant
    BY <1>1, <1>3, TypeSupplicant DEF TypeInv, globals
  <1>4. CASE PowerFlags
    BY <1>1, <1>4 DEF PowerFlags
  <1>5. CASE UNCHANGED vars
    BY <1>1, <1>5 DEF vars, globals
  <1> QED BY <1>2, <1>3, <1>4, <1>5, SerialApp, SerialChecker DEF Next

\* Both inductive invariants hold in every reachable state.
LEMMA SerialAlways == SerialCallers => (Spec => [](TypeInv /\ SerialInv))
PROOF
  <1> SUFFICES ASSUME SerialCallers PROVE Spec => [](TypeInv /\ SerialInv)
    OBVIOUS
  <1>1. Init => SerialInv
    BY DEF Init, SerialInv, OnlyOneConnect, LockTracksAttempt, ChecksOwnNetwork,
           Configuring, Unwinding, Live, At, IdleApp, NoChk
  <1> QED BY <1>1, TypeInvInit, TypeStep, SerialStep, PTL DEF Spec

\* "Only one connect at same time": with one calling thread, of all calls that
\* configure wpa_supplicant and all check threads at most one is at work.
THEOREM OnlyOneConnectHolds == SerialCallers => (Spec => []OnlyOneConnect)
PROOF
  <1>1. SerialInv => OnlyOneConnect
    BY DEF SerialInv
  <1> QED BY <1>1, SerialAlways, PTL

\* wifi_connect_lock is neither leaked nor dropped early on any path of the
\* connect calls or the check thread.
THEOREM LockTracksAttemptHolds == SerialCallers => (Spec => []LockTracksAttempt)
PROOF
  <1>1. SerialInv => LockTracksAttempt
    BY DEF SerialInv
  <1> QED BY <1>1, SerialAlways, PTL

\* A check thread that reads connecting_id late still reads the id of the
\* network its own call configured, and drops no other network.
THEOREM ChecksOwnNetworkHolds == SerialCallers => (Spec => []ChecksOwnNetwork)
PROOF
  <1>1. SerialInv => ChecksOwnNetwork
    BY DEF SerialInv
  <1> QED BY <1>1, SerialAlways, PTL

-----------------------------------------------------------------------------
(* Saved networks survive.                                                 *)

\* The steps of an application thread leave a network known or unknown, unless
\* they add it, forget it or reset them all.
LEMMA KnownApp ==
  ASSUME TypeInv, NEW a \in Apps, Call(a) \/ InCall(a), NEW i \in Ids,
         At(a, "search") => sup.nets[i].known,
         ~(At(a, "forget") /\ app[a].id = i), ~RK_wifi_reset
  PROVE  sup'.nets[i].known = sup.nets[i].known
PROOF
  <1> DEFINE id == app[a].id
  <1>1. sup \in SupType /\ sup.nets \in [Ids -> Net]
    BY DEF TypeInv, TypeOK, SupType
  <1>2. CASE UNCHANGED sup
    BY <1>2
  <1>3. CASE RK_wifi_disconnect_network
    <2>1. sup' = [Disconnect(sup) EXCEPT !.hold = TRUE]
      BY <1>3 DEF RK_wifi_disconnect_network
    <2> QED BY <1>1, <2>1, DisconnectType DEF SupType
  <1>4. CASE DisableAll(a)
    BY <1>1, <1>4, DisableType DEF DisableAll
  <1>5. CASE Search(a)
    <2>1. \/ UNCHANGED sup
          \/ \E j \in Ids : ~Known(j) /\ sup' = [sup EXCEPT !.nets[j] = Blank]
      BY <1>5 DEF Search
    <2>2. ASSUME NEW j \in Ids, ~Known(j), sup' = [sup EXCEPT !.nets[j] = Blank]
          PROVE  sup'.nets[i].known = sup.nets[i].known
      <3>1. sup'.nets = [sup.nets EXCEPT ![j] = Blank]
        BY <1>1, <2>2, SetNetType, ConstType
      <3>2. j # i
        BY <1>5, <2>2 DEF Known, Search
      <3> QED BY <1>1, <3>1, <3>2
    <2> QED BY <2>1, <2>2
  <1>6. CASE SetNetwork(a)
    <2> DEFINE net == sup.nets[id]
               pinned == [net EXCEPT !.bssid = IF gbssid # None THEN gbssid ELSE @]
               named  == [pinned EXCEPT !.ap = app[a].ap]
    <2>1. id \in Ids
      BY <1>6 DEF SetNetwork, At, IdsChosen, TypeInv
    <2>2. net \in Net /\ pinned \in Net /\ named \in Net
      <3>1. net \in Net /\ pinned \in Net
        BY <1>1, <2>1 DEF TypeInv, TypeOK, Net
      <3>2. app[a].ap \in Aps \cup {None}
        BY DEF TypeInv, TypeOK, AppType
      <3> QED BY <3>1, <3>2 DEF Net
    <2>3. pinned.known = net.known /\ named.known = net.known
      BY <1>1, <2>1 DEF Net
    <2>4. \E n \in {net, pinned, named} : sup' = [sup EXCEPT !.nets[id] = n]
      BY <1>6 DEF SetNetwork
    <2> HIDE DEF pinned, named
    <2>5. PICK n \in {net, pinned, named} : sup'.nets = [sup.nets EXCEPT ![id] = n]
      BY <1>1, <2>1, <2>2, <2>4, SetNetType
    <2> QED BY <1>1, <2>1, <2>3, <2>5
  <1>7. CASE SelectNetwork(a)
    <2> DEFINE n == [sup.nets[id] EXCEPT !.bssid = None]
               clr == IF gbssid = None /\ Known(id)
                      THEN [sup EXCEPT !.nets[id] = n] ELSE sup
    <2>1. id \in Ids
      BY <1>7 DEF SelectNetwork, At, IdsChosen, TypeInv
    <2>2. n \in Net /\ n.known = sup.nets[id].known
      BY <1>1, <2>1 DEF Net
    <2>3. sup' \in {select(clr, id), clr, sup}
      BY <1>7 DEF SelectNetwork
    <2> HIDE DEF n
    <2>4. clr \in SupType /\ clr.nets[i].known = sup.nets[i].known
      BY <1>1, <2>1, <2>2, SetNetType
    <2> HIDE DEF clr
    <2> QED BY <1>1, <2>1, <2>3, <2>4, SelectType
  <1>8. CASE EnableNetwork(a)
    <2>1. id \in Ids
      BY <1>8 DEF EnableNetwork, At, IdsChosen, TypeInv
    <2> DEFINE e == [sup EXCEPT !.nets[id].enabled = TRUE]
    <2>2. sup' \in {sup, e}
      BY <1>8 DEF EnableNetwork
    <2>3. e.nets[i].known = sup.nets[i].known
      BY <1>1, <2>1, EnableOneType
    <2> HIDE DEF e
    <2> QED BY <2>2, <2>3
  <1>9. CASE ForgetRemove(a)
    <2>1. id \in Ids /\ id # i
      BY <1>9 DEF ForgetRemove, At, IdsChosen, TypeInv
    <2>2. sup' = remove(sup, id)
      BY <1>9 DEF ForgetRemove
    <2> HIDE DEF id
    <2>3. ASSUME NEW j \in Ids \ {id}
          PROVE  remove(sup, id).nets[j].known = sup.nets[j].known
      <3>1. sup \in SupType /\ id \in Ids
        BY <1>1, <2>1
      <3> QED BY <3>1, RemoveType
    <2>4. i \in Ids \ {id}
      BY <2>1
    <2> QED BY <2>2, <2>3, <2>4
  <1>10. ASSUME ~RK_wifi_disconnect_network, ~DisableAll(a), ~Search(a),
                ~SetNetwork(a), ~SelectNetwork(a), ~EnableNetwork(a),
                ~ForgetRemove(a)
         PROVE  UNCHANGED sup
    BY <1>10 DEF Call, InCall, RK_wifi_connect, RK_wifi_connect_with_ssid,
                 RK_wifi_connect_with_bssid, RK_wifi_cancel, RK_wifi_forget,
                 TakeLock, FailReport, FailUnlock, CancelRaise, CancelReturn
  <1> QED BY <1>2, <1>3, <1>4, <1>5, <1>6, <1>7, <1>8, <1>9, <1>10

\* The monitor and the supplicant itself leave a network known or unknown.
LEMMA KnownOthers ==
  ASSUME TypeInv, Monitor \/ Supplicant, NEW i \in Ids
  PROVE  sup'.nets[i].known = sup.nets[i].known
PROOF
  <1>1. sup \in SupType /\ mon.id \in Ids
    BY DEF TypeInv, TypeOK
  <1>2. Read(sup).nets = sup.nets
    BY <1>1 DEF Read, SupType
  <1>3. CASE OnDisconnected
    BY <1>1, <1>2, <1>3 DEF OnDisconnected, Read, SupType
  <1>4. CASE OnConnected \/ OnWrongKey \/ OnAssocReject
    BY <1>2, <1>4 DEF OnConnected, OnWrongKey, OnAssocReject
  <1>5. CASE MonReenable
    BY <1>1, <1>5, EnableAllType DEF MonReenable
  <1>6. CASE disable_no_connected_ssid
    BY <1>1, <1>6, DisableType DEF disable_no_connected_ssid
  <1>7. CASE WepRetry
    BY <1>1, <1>7, SelectType DEF WepRetry
  <1>8. CASE MonLockTest \/ rkwifi_check_ip \/ ReportWrongKey
    BY <1>8 DEF MonLockTest, rkwifi_check_ip, ReportWrongKey
  <1>9. ASSUME NEW id \in Ids, Associate(id)
        PROVE  sup'.nets[i].known = sup.nets[i].known
    BY <1>1, <1>9 DEF Associate, Raise, SupType
  <1>10. ASSUME NEW id \in Ids, NEW t \in {"WRONG_KEY", "ASSOC_REJECT"},
                Refuse(id, t)
         PROVE  sup'.nets[i].known = sup.nets[i].known
    BY <1>1, <1>10 DEF Refuse, Raise, SupType
  <1>11. CASE GotAddress
    BY <1>1, <1>11 DEF GotAddress, SupType
  <1>12. CASE LinkLost
    BY <1>1, <1>12, DisconnectType DEF LinkLost
  <1> QED BY <1>3, <1>4, <1>5, <1>6, <1>7, <1>8, <1>9, <1>10, <1>11, <1>12
          DEF Monitor, Supplicant

\* A check thread leaves a network known or unknown, except the one whose
\* RK_wifi_connect attempt failed.
LEMMA KnownChecker ==
  ASSUME TypeInv, SerialInv, NEW c \in Checkers, Checker(c), NEW i \in Ids,
         ~(chk[c].pc = "drop" /\ chk[c].own = i /\ chk[c].call = "connect")
  PROVE  sup'.nets[i].known = sup.nets[i].known
PROOF
  <1>1. sup \in SupType
    BY DEF TypeInv, TypeOK
  <1>2. CASE wifi_connectfail_process(c)
    <2>1. chk[c].id \in Ids /\ chk[c].id = chk[c].own
      BY <1>2 DEF wifi_connectfail_process, TypeInv, IdsChosen, SerialInv,
                  ChecksOwnNetwork, Live
    <2>2. chk[c].id = i => wifi_is_exist
      BY <1>2, <2>1 DEF wifi_connectfail_process, SerialInv, Live
    <2>3. sup' = IF wifi_is_exist THEN disable(sup, {chk[c].id})
                 ELSE remove(sup, chk[c].id)
      BY <1>2 DEF wifi_connectfail_process
    <2>4. disable(sup, {chk[c].id}).nets[i].known = sup.nets[i].known
      BY <1>1, <2>1, DisableType
    <2>5. chk[c].id # i => remove(sup, chk[c].id).nets[i].known = sup.nets[i].known
      BY <1>1, <2>1, RemoveType, Zenon
    <2> QED BY <2>2, <2>3, <2>4, <2>5
  <1>3. CASE ReenableAll(c)
    BY <1>1, <1>3, EnableAllType DEF ReenableAll
  <1>4. ASSUME ~wifi_connectfail_process(c), ~ReenableAll(c)
        PROVE  UNCHANGED sup
    BY <1>4 DEF Checker, CheckRead, check_wifi_isconnected, Decide, SendResult,
                Release
  <1> QED BY <1>2, <1>3, <1>4

\* Saved networks survive a failed RK_wifi_connect_with_ssid: the check thread
\* removes a network only when the attempt it checks was an RK_wifi_connect.
THEOREM SavedNetworkSurvivesHolds ==
  SerialCallers => (Spec => SavedNetworkSurvives)
PROOF
  <1> DEFINE Dropped(id) ==
        \/ \E a \in Apps : At(a, "forget") /\ app[a].id = id
        \/ RK_wifi_reset
        \/ \E c \in Checkers : /\ chk[c].pc = "drop" /\ chk[c].own = id
                                /\ chk[c].call = "connect"
      A == \A id \in Ids : sup.nets[id].known /\ ~sup'.nets[id].known => Dropped(id)
  <1>1. TypeInv /\ SerialInv /\ [Next]_vars => [A]_vars
    <2> SUFFICES ASSUME TypeInv, SerialInv, Next, NEW i \in Ids,
                        sup.nets[i].known, ~Dropped(i)
                 PROVE  sup'.nets[i].known
      OBVIOUS
    <2>1. ASSUME PowerFlags PROVE sup'.nets[i].known
      BY <2>1 DEF PowerFlags
    <2> QED BY <2>1, KnownApp, KnownOthers, KnownChecker DEF Next
  <1>2. SavedNetworkSurvives <=> [][A]_vars
    BY DEF SavedNetworkSurvives
  <1> QED BY <1>1, <1>2, SerialAlways, PTL DEF Spec

-----------------------------------------------------------------------------
(* The lock is not leaked, whoever calls.                                  *)

\* A thread that leaves the connect path releases the lock or hands it on.
LEMMA LeakApp ==
  ASSUME TypeInv, LockNotLeaked, NEW a \in Apps, Call(a) \/ InCall(a)
  PROVE  LockNotLeaked'
PROOF
  <1> DEFINE Busy(b) == Configuring(b) \/ Unwinding(b)
  <1>1. app \in [Apps -> AppType] /\ chk \in [Checkers -> ChkType]
    BY DEF TypeInv, TypeOK
  <1>2. ASSUME UNCHANGED <<wifi_connect_lock, chk>>, ~Busy(a) \/ Busy(a)',
               \A b \in Apps \ {a} : app'[b] = app[b]
        PROVE  LockNotLeaked'
    BY <1>2 DEF LockNotLeaked, Live, Configuring, Unwinding
  <1>3. \A b \in Apps \ {a} : app'[b] = app[b]
    BY <1>1 DEF Call, InCall, RK_wifi_connect, RK_wifi_connect_with_ssid,
           RK_wifi_connect_with_bssid, RK_wifi_cancel, RK_wifi_forget,
           RK_wifi_disconnect_network, RK_wifi_reset, TakeLock, DisableAll, Search,
           SetNetwork, SelectNetwork, EnableNetwork, FailReport, FailUnlock,
           CancelRaise, CancelReturn, ForgetRemove, Goto, Return, Enter
  <1>4. CASE Call(a)
    <2>1. UNCHANGED <<wifi_connect_lock, chk>> /\ (~Busy(a) \/ UNCHANGED app)
      BY <1>4 DEF Call, RK_wifi_connect, RK_wifi_connect_with_ssid,
           RK_wifi_connect_with_bssid, RK_wifi_cancel, RK_wifi_forget, At,
           RK_wifi_disconnect_network, RK_wifi_reset, globals, Configuring, Unwinding
    <2> QED BY <1>2, <1>3, <2>1 DEF Configuring, Unwinding
  <1>5. CASE TakeLock(a)
    <2>1. Configuring(a)'
      BY <1>1, <1>5 DEF TakeLock, Goto, Configuring, AppType
    <2> QED BY <2>1 DEF LockNotLeaked
  <1>6. CASE DisableAll(a) \/ FailReport(a)
    BY <1>1, <1>2, <1>3, <1>6 DEF DisableAll, FailReport, Goto, Configuring,
       Unwinding, AppType, globals
  <1>7. CASE Search(a)
    <2>1. /\ UNCHANGED <<wifi_connect_lock, chk>>
          /\ \/ \E l \in {"set", "disable"}, i \in Ids :
                  app' = [app EXCEPT ![a].id = i, ![a].pc = l]
             \/ Goto(a, "fail")
      BY <1>7 DEF Search, Saved
    <2>2. app'[a].pc \in {"set", "disable", "fail"}
      BY <1>1, <2>1 DEF Goto, AppType
    <2> QED BY <1>2, <1>3, <2>1, <2>2 DEF Configuring, Unwinding
  <1>8. CASE SetNetwork(a)
    <2>1. (Goto(a, "select") \/ Goto(a, "fail")) /\ UNCHANGED <<wifi_connect_lock, chk>>
      BY <1>8 DEF SetNetwork
    <2> QED BY <1>1, <1>2, <1>3, <2>1 DEF Goto, Configuring, Unwinding, AppType
  <1>9. CASE SelectNetwork(a)
    <2>1. (Goto(a, "enable") \/ Goto(a, "fail")) /\ UNCHANGED <<wifi_connect_lock, chk>>
      BY <1>9 DEF SelectNetwork
    <2> QED BY <1>1, <1>2, <1>3, <2>1 DEF Goto, Configuring, Unwinding, AppType
  <1>10. CASE EnableNetwork(a)
    <2>1. CASE Goto(a, "fail") /\ UNCHANGED chk
      BY <1>1, <1>2, <1>3, <1>10, <2>1
         DEF EnableNetwork, Goto, Unwinding, AppType, globals
    <2>2. ASSUME NEW c \in Checkers,
                 chk' = [chk EXCEPT ![c] = [pc |-> "read", id |-> None,
                           own |-> app[a].id, call |-> app[a].call,
                           polls |-> 0, ok |-> FALSE, report |-> FALSE]]
          PROVE  LockNotLeaked'
      <3>1. Live(c)'
        BY <1>1, <2>2 DEF Live
      <3> QED BY <3>1 DEF LockNotLeaked
    <2> QED BY <1>10, <2>1, <2>2 DEF EnableNetwork
  <1>11. CASE FailUnlock(a)
    BY <1>11 DEF FailUnlock, LockNotLeaked
  <1>12. CASE CancelRaise(a) \/ CancelReturn(a) \/ ForgetRemove(a)
    <2>1. ~Busy(a) /\ UNCHANGED <<wifi_connect_lock, chk>>
      BY <1>12 DEF CancelRaise, CancelReturn, ForgetRemove, At, globals,
                   Configuring, Unwinding
    <2> QED BY <1>2, <1>3, <2>1
  <1> QED BY <1>4, <1>5, <1>6, <1>7, <1>8, <1>9, <1>10, <1>11, <1>12 DEF InCall

\* Only Release ends a check thread's hold on the lock, and it lowers it.
LEMMA LeakChecker ==
  ASSUME TypeInv, LockNotLeaked, NEW c \in Checkers, Checker(c)
  PROVE  LockNotLeaked'
PROOF
  <1>1. chk \in [Checkers -> ChkType]
    BY DEF TypeInv, TypeOK
  <1>2. ASSUME UNCHANGED <<wifi_connect_lock, app>>, Live(c) => Live(c)'
        PROVE  LockNotLeaked'
    <2>1. \A d \in Checkers \ {c} : chk'[d] = chk[d]
      BY <1>1 DEF Checker, CheckRead, check_wifi_isconnected, Decide,
             wifi_connectfail_process, SendResult, Release, ReenableAll, ChkGoto
    <2> QED BY <1>2, <2>1 DEF LockNotLeaked, Live, Configuring, Unwinding
  <1>3. CASE Release(c)
    BY <1>3 DEF Release, LockNotLeaked
  <1>4. CASE ReenableAll(c)
    BY <1>2, <1>4 DEF ReenableAll, Live, globals
  <1>5. ASSUME ~Release(c), ~ReenableAll(c)
        PROVE  UNCHANGED <<wifi_connect_lock, app>> /\ Live(c)'
    BY <1>1, <1>5 DEF Checker, CheckRead, check_wifi_isconnected, Decide,
       wifi_connectfail_process, SendResult, ChkGoto, Live, ChkType, globals
  <1> QED BY <1>2, <1>3, <1>4, <1>5

\* Whoever calls and whatever the calls, wifi_connect_lock is never left behind
\* by a finished call or a finished check thread.
THEOREM LockNotLeakedHolds == Spec => []LockNotLeaked
PROOF
  <1>1. Init => LockNotLeaked
    BY DEF Init, LockNotLeaked
  <1>2. TypeInv /\ LockNotLeaked /\ [Next]_vars => LockNotLeaked'
    <2> SUFFICES ASSUME TypeInv, LockNotLeaked, [Next]_vars PROVE LockNotLeaked'
      OBVIOUS
    <2>1. ASSUME UNCHANGED <<wifi_connect_lock, app, chk>>
          PROVE  LockNotLeaked'
      BY <2>1 DEF LockNotLeaked, Configuring, Unwinding, Live
    <2>2. CASE Monitor
      BY <2>1, <2>2, MonitorFrame
    <2>3. CASE Supplicant
      BY <2>1, <2>3, TypeSupplicant DEF TypeInv, globals
    <2>4. CASE PowerFlags \/ UNCHANGED vars
      BY <2>1, <2>4 DEF PowerFlags, vars, globals
    <2> QED BY <2>2, <2>3, <2>4, LeakApp, LeakChecker DEF Next
  <1> QED BY <1>1, <1>2, TypeInvInit, TypeStep, PTL DEF Spec

-----------------------------------------------------------------------------
(* ToldInv is an invariant.                                                *)

\* Nothing is told and no network is chosen initially.
LEMMA ToldInit == Init => ToldInv
PROOF
  BY DEF Init, ToldInv, At, IdleApp, NoChk

\* What a step of the calling thread must leave and establish for ToldInv,
\* when it neither takes the lock nor starts a check thread.
LEMMA ToldMove ==
  ASSUME SerialCallers, ToldInv, NEW a \in Apps,
         UNCHANGED <<wifi_wrong_key, mon, chk>>,
         outcome' = outcome \/ outcome' # "none",
         \/ app'[a].pc \in {"lock", "search"}
         \/ app'[a].pc = "disable" /\ app'[a].call = "connect"
         => app'[a].id = None
  PROVE  ToldInv'
PROOF
  <1>1. \A b \in Apps : b = a
    BY DEF SerialCallers
  <1>2. Told => Told'
    BY DEF Told
  <1> QED BY <1>1, <1>2 DEF ToldInv, At

\* The steps of the calling thread keep ToldInv.
LEMMA ToldApp ==
  ASSUME SerialCallers, TypeInv, SerialInv, ToldInv, NEW a \in Apps,
         Call(a) \/ InCall(a)
  PROVE  ToldInv'
PROOF
  <1>1. \A b \in Apps : b = a
    BY DEF SerialCallers
  <1>2. /\ app[a] \in AppType /\ app \in [Apps -> AppType]
        /\ chk \in [Checkers -> ChkType]
    BY DEF TypeInv, TypeOK
  <1>3. ASSUME NEW l, Goto(a, l)
        PROVE  app'[a].pc = l /\ app'[a].call = app[a].call /\ app'[a].id = app[a].id
    BY <1>2, <1>3 DEF Goto, AppType
  <1>4. ASSUME Return(a)
        PROVE  app'[a].pc = "idle"
    BY <1>2, <1>4 DEF Return, IdleApp
  <1>5. ASSUME NEW l, NEW call, NEW ap, NEW b, NEW w, Enter(a, l, call, ap, b, w)
        PROVE  app'[a].pc = l /\ app'[a].call = call /\ app'[a].id = None
    BY <1>2, <1>5 DEF Enter
  <1>6. CASE Call(a)
    <2>1. ASSUME NEW ap \in Aps, NEW b \in Bssids \cup {None}, NEW w \in BOOLEAN,
                 RK_wifi_connect(a, ap, b, w)
          PROVE  ToldInv'
      BY <1>5, <2>1, ToldMove DEF RK_wifi_connect, globals
    <2>2. ASSUME NEW ap \in Aps, RK_wifi_connect_with_ssid(a, ap)
          PROVE  ToldInv'
      BY <1>5, <2>2, ToldMove DEF RK_wifi_connect_with_ssid, globals
    <2>3. ASSUME NEW b \in Bssids, RK_wifi_connect_with_bssid(a, b)
          PROVE  FALSE
      BY <2>3 DEF RK_wifi_connect_with_bssid, SerialCallers
    <2>4. CASE RK_wifi_cancel(a)
      BY <1>5, <2>4, ToldMove DEF RK_wifi_cancel, globals
    <2>5. ASSUME NEW id \in Ids, RK_wifi_forget(a, id)
          PROVE  ToldInv'
      <3>1. app'[a].pc = "forget"
        BY <1>2, <2>5 DEF RK_wifi_forget, IdleApp
      <3> QED BY <2>5, <3>1, ToldMove DEF RK_wifi_forget, globals
    <2>6. CASE At(a, "idle") /\ (RK_wifi_disconnect_network \/ RK_wifi_reset)
      BY <2>6, ToldMove DEF RK_wifi_disconnect_network, RK_wifi_reset, At, globals
    <2> QED BY <1>6, <2>1, <2>2, <2>3, <2>4, <2>5, <2>6 DEF Call
  <1>7. CASE TakeLock(a)
    <2>1. /\ app[a].pc = "lock" /\ ~wifi_wrong_key' /\ UNCHANGED chk
          /\ app'[a].pc \in {"disable", "search"} /\ app'[a].id = app[a].id
      BY <1>3, <1>7 DEF TakeLock, At
    <2>2. \A c \in Checkers : ~Live(c)
      BY <2>1 DEF SerialInv, LockTracksAttempt, At
    <2>3. app[a].id = None
      BY <2>1 DEF ToldInv
    <2>4. \A c \in Checkers : chk'[c].pc \notin {"drop", "send"}
      BY <2>1, <2>2 DEF Live
    <2> QED BY <1>1, <2>1, <2>3, <2>4 DEF ToldInv, At
  <1>8. CASE DisableAll(a)
    <2>1. PICK l \in {"search", "select"} :
            /\ app[a].pc = "disable" /\ Goto(a, l)
            /\ l = "search" => app[a].call = "connect"
      BY <1>8 DEF DisableAll, At
    <2>2. app'[a].pc = l /\ app'[a].id = app[a].id
      BY <1>3, <2>1
    <2>3. l = "search" => app[a].id = None
      BY <2>1 DEF At, ToldInv
    <2>4. UNCHANGED <<wifi_wrong_key, mon, chk, outcome>>
      BY <1>8 DEF DisableAll, globals
    <2> QED BY <2>2, <2>3, <2>4, ToldMove
  <1>9. CASE Search(a)
    <2>1. UNCHANGED <<wifi_wrong_key, mon, chk, outcome>>
      BY <1>9 DEF Search
    <2>2. \/ app'[a].pc \in {"fail", "set"}
          \/ app'[a].pc = "disable" /\ app'[a].call # "connect"
      <3>1. CASE Goto(a, "fail")
        BY <1>3, <3>1
      <3>2. ASSUME NEW i \in Ids,
                   app' = [app EXCEPT ![a].id = i,
                             ![a].pc = IF app[a].call = "connect" THEN "set" ELSE "disable"]
            PROVE  \/ app'[a].pc = "set"
                   \/ app'[a].pc = "disable" /\ app'[a].call # "connect"
        BY <1>2, <3>2 DEF AppType
      <3> QED BY <1>9, <3>1, <3>2 DEF Search, Saved
    <2> QED BY <2>1, <2>2, ToldMove
  <1>10. CASE SetNetwork(a) \/ SelectNetwork(a)
    <2>1. UNCHANGED <<wifi_wrong_key, mon, chk, outcome>>
      BY <1>10 DEF SetNetwork, SelectNetwork
    <2>2. app'[a].pc \in {"select", "enable", "fail"}
      BY <1>3, <1>10 DEF SetNetwork, SelectNetwork
    <2> QED BY <2>1, <2>2, ToldMove
  <1>11. CASE EnableNetwork(a)
    <2>1. UNCHANGED <<wifi_wrong_key, mon, outcome>>
      BY <1>11 DEF EnableNetwork, globals
    <2>2. app'[a].pc \in {"idle", "fail"}
      BY <1>3, <1>4, <1>11 DEF EnableNetwork
    <2>3. \A c \in Checkers : chk'[c] = chk[c] \/ chk'[c].pc = "read"
      BY <1>2, <1>11 DEF EnableNetwork
    <2>4. Told' = Told
      BY <2>1 DEF Told
    <2> QED BY <1>1, <2>1, <2>2, <2>3, <2>4 DEF ToldInv, At
  <1>12. CASE FailReport(a)
    <2>1. Goto(a, "unlock")
      BY <1>12 DEF FailReport
    <2>2. app'[a].pc = "unlock"
      BY <1>3, <2>1
    <2>3. UNCHANGED <<wifi_wrong_key, mon, chk>> /\ outcome' # "none"
      BY <1>12 DEF FailReport, globals
    <2> QED BY <2>2, <2>3, ToldMove
  <1>13. CASE FailUnlock(a)
    BY <1>4, <1>13, ToldMove DEF FailUnlock
  <1>14. CASE CancelRaise(a) \/ CancelReturn(a)
    <2>1. Goto(a, "wait") \/ Return(a)
      BY <1>14 DEF CancelRaise, CancelReturn
    <2>2. app'[a].pc \in {"wait", "idle"}
      BY <1>3, <1>4, <2>1
    <2>3. UNCHANGED <<wifi_wrong_key, mon, chk, outcome>>
      BY <1>14 DEF CancelRaise, CancelReturn, globals
    <2> QED BY <2>2, <2>3, ToldMove
  <1>15. CASE ForgetRemove(a)
    BY <1>4, <1>15, ToldMove DEF ForgetRemove, globals
  <1> QED BY <1>6, <1>7, <1>8, <1>9, <1>10, <1>11, <1>12, <1>13, <1>14, <1>15
          DEF InCall

\* The steps of a check thread keep ToldInv.
LEMMA ToldChecker ==
  ASSUME TypeInv, ToldInv, NEW c \in Checkers, Checker(c)
  PROVE  ToldInv'
PROOF
  <1>1. chk \in [Checkers -> ChkType]
    BY DEF TypeInv, TypeOK
  <1>2. UNCHANGED <<app, mon, wifi_wrong_key>> /\ (outcome' = outcome \/ outcome' # "none")
    BY DEF Checker, CheckRead, check_wifi_isconnected, Decide,
           wifi_connectfail_process, SendResult, Release, ReenableAll, globals
  <1>3. Told => Told'
    BY <1>2 DEF Told
  <1>4. \A d \in Checkers \ {c} : chk'[d] = chk[d]
    BY <1>1 DEF Checker, CheckRead, check_wifi_isconnected, Decide,
           wifi_connectfail_process, SendResult, Release, ReenableAll, ChkGoto
  <1>5. \/ chk'[c].pc \notin {"drop", "send"}
        \/ /\ chk'[c].pc = "drop" => ~chk'[c].ok
           /\ ~chk'[c].report => ~chk'[c].ok /\ Told
    <2>1. CASE CheckRead(c)
      BY <1>1, <2>1 DEF CheckRead, ChkType
    <2>2. CASE check_wifi_isconnected(c)
      BY <1>1, <2>2 DEF check_wifi_isconnected, ChkGoto, ChkType
    <2>3. CASE Decide(c)
      BY <1>1, <2>3 DEF Decide, ChkType, ToldInv
    <2>4. CASE wifi_connectfail_process(c)
      BY <1>1, <2>4 DEF wifi_connectfail_process, ChkGoto, ChkType, ToldInv
    <2>5. CASE SendResult(c)
      BY <1>1, <2>5 DEF SendResult, ChkGoto, ChkType
    <2>6. CASE Release(c) \/ ReenableAll(c)
      BY <1>1, <2>6 DEF Release, ReenableAll, NoChk
    <2> QED BY <2>1, <2>2, <2>3, <2>4, <2>5, <2>6 DEF Checker
  <1> QED BY <1>2, <1>3, <1>4, <1>5 DEF ToldInv, At

\* The monitor, the supplicant and the power flag keep ToldInv: a wrong key is
\* noted and then told in two steps.
LEMMA ToldOthers ==
  ASSUME ToldInv, TypeInv, Monitor \/ Supplicant \/ PowerFlags
  PROVE  ToldInv'
PROOF
  <1>1. UNCHANGED <<app, chk>>
    BY TypeSupplicant, MonitorFrame DEF PowerFlags, TypeInv
  <1>2. mon \in [pc : MonPcs, id : Ids]
    BY DEF TypeInv, TypeOK
  <1>3. (Told => Told') /\ (wifi_wrong_key' => wifi_wrong_key \/ Told')
    <2>1. CASE OnWrongKey
      BY <1>2, <2>1 DEF OnWrongKey, MonGoto, Told
    <2>2. CASE ReportWrongKey
      BY <2>2 DEF ReportWrongKey, Told, globals
    <2>3. CASE Supplicant \/ PowerFlags
      BY <2>3, TypeSupplicant DEF PowerFlags, Told, TypeInv, globals
    <2>4. ASSUME Monitor, ~OnWrongKey, ~ReportWrongKey
          PROVE  UNCHANGED <<wifi_wrong_key, outcome>> /\ mon.pc # "wrong_key"
      BY <2>4 DEF Monitor, OnDisconnected, MonLockTest, MonReenable, OnConnected,
                  disable_no_connected_ssid, rkwifi_check_ip, OnAssocReject,
                  WepRetry, Event, globals
    <2> QED BY <2>1, <2>2, <2>3, <2>4 DEF Told
  <1> QED BY <1>1, <1>3 DEF ToldInv, At

\* The attempts of the service are the one call or the one check thread that
\* holds the lock.
Shape ==
  /\ ~wifi_connect_lock => Attempts = {}
  /\ \A a \in Apps : Configuring(a) \/ Unwinding(a) => Attempts = {CallAttempt(a)}
  /\ \A c \in Checkers : Live(c) => Attempts = {CheckAttempt(c)}

\* With one attempt at a time, Attempts has that shape.
LEMMA ShapeHolds == SerialCallers /\ SerialInv => Shape
PROOF
  <1> SUFFICES ASSUME SerialCallers, SerialInv PROVE Shape
    OBVIOUS
  <1>1. ASSUME ~wifi_connect_lock PROVE Attempts = {}
    BY <1>1 DEF SerialInv, LockTracksAttempt, Attempts
  <1>2. ASSUME NEW a \in Apps, Configuring(a) \/ Unwinding(a)
        PROVE  Attempts = {CallAttempt(a)}
    <2>1. \A b \in Apps : b = a
      BY DEF SerialCallers
    <2>2. \A c \in Checkers : ~Live(c)
      BY <1>2 DEF SerialInv, OnlyOneConnect
    <2> QED BY <1>2, <2>1, <2>2 DEF Attempts
  <1>3. ASSUME NEW c \in Checkers, Live(c)
        PROVE  Attempts = {CheckAttempt(c)}
    <2>1. \A b \in Apps : ~Configuring(b) /\ ~Unwinding(b)
      BY <1>3 DEF SerialInv, OnlyOneConnect
    <2>2. \A d \in Checkers : Live(d) <=> d = c
      BY <1>3 DEF SerialInv, OnlyOneConnect
    <2> QED BY <2>1, <2>2 DEF Attempts
  <1> QED BY <1>1, <1>2, <1>3 DEF Shape

\* The invariant the refinement rests on.
ServiceInv == TypeInv /\ SerialInv /\ ToldInv /\ Shape

\* ServiceInv always holds.
LEMMA ServiceAlways == SerialCallers => (Spec => []ServiceInv)
PROOF
  <1> SUFFICES ASSUME SerialCallers PROVE Spec => []ServiceInv
    OBVIOUS
  <1>1. TypeInv /\ SerialInv /\ ToldInv /\ [Next]_vars => ToldInv'
    <2> SUFFICES ASSUME TypeInv, SerialInv, ToldInv, [Next]_vars PROVE ToldInv'
      OBVIOUS
    <2>1. CASE UNCHANGED vars
      BY <2>1 DEF vars, globals, ToldInv, Told, At
    <2> QED BY <2>1, ToldApp, ToldChecker, ToldOthers DEF Next
  <1>2. SerialInv => Shape
    BY ShapeHolds
  <1> QED BY <1>1, <1>2, ToldInit, SerialAlways, PTL DEF Spec, ServiceInv

-----------------------------------------------------------------------------
(* The steps of the service, from what they do to its four variables.      *)

ServiceStep == [Service!Next]_Service!vars

\* No network becomes known or unknown: the saved networks stay.
LEMMA SavedSame ==
  ASSUME \A i \in Ids : sup'.nets[i].known = sup.nets[i].known
  PROVE  SavedNetworks' = SavedNetworks
PROOF
  BY DEF SavedNetworks, Known

\* A step that changes neither the attempts nor what was told, and adds no
\* network, is a Forget of the service.
LEMMA DoForget ==
  ASSUME Attempts' = Attempts, SavedNetworks' \subseteq SavedNetworks,
         UNCHANGED <<outcome, mon>>
  PROVE  ServiceStep
PROOF
  <1> DEFINE nets == SavedNetworks \ SavedNetworks'
  <1>1. nets \in SUBSET Ids
    BY DEF SavedNetworks
  <1>2. SavedNetworks' = SavedNetworks \ nets
    OBVIOUS
  <1> HIDE DEF nets
  <1>3. Service!Forget(nets)
    BY <1>2 DEF Service!Forget
  <1> QED BY <1>1, <1>3 DEF ServiceStep, Service!Next

\* An attempt that works fails.
LEMMA DoFail ==
  ASSUME NEW t, Attempts = {t}, t.phase = "working",
         Attempts' = {[t EXCEPT !.phase = "failing"]},
         SavedNetworks' = SavedNetworks, UNCHANGED <<outcome, mon>>
  PROVE  ServiceStep
PROOF
  <1>1. Service!Fail(t)
    BY DEF Service!Fail
  <1> QED BY <1>1 DEF ServiceStep, Service!Next

\* The result of an attempt is told, or was or will be by the monitor.
LEMMA DoTell ==
  ASSUME NEW t, Attempts = {t}, Attempts' = {[t EXCEPT !.phase = "told"]},
         \/ t.phase = "working" /\ t.net # None /\ outcome' = "DHCP_OK"
         \/ t.phase = "failing" /\ outcome' = "CONNECTFAILED"
         \/ t.phase = "failing" /\ Told /\ outcome' = outcome,
         SavedNetworks' = SavedNetworks, UNCHANGED mon
  PROVE  ServiceStep
PROOF
  <1>1. Service!Tell(t)
    BY DEF Service!Tell, Told
  <1> QED BY <1>1 DEF ServiceStep, Service!Next

\* An attempt that was told of ends.
LEMMA DoEnd ==
  ASSUME NEW t, Attempts = {t}, t.phase = "told", Attempts' = {},
         SavedNetworks' = SavedNetworks, UNCHANGED <<outcome, mon>>
  PROVE  ServiceStep
PROOF
  <1>1. Service!End(t)
    BY DEF Service!End
  <1> QED BY <1>1 DEF ServiceStep, Service!Next

\* An attempt chooses its network.
LEMMA DoChoose ==
  ASSUME NEW t, NEW i \in Ids, Attempts = {t}, t.phase = "working", t.net = None,
         i \in SavedNetworks \/ t.call = "connect",
         Attempts' = {[t EXCEPT !.net = i]},
         SavedNetworks' = SavedNetworks \cup {i}, UNCHANGED <<outcome, mon>>
  PROVE  ServiceStep
PROOF
  <1>1. Service!Choose(t, i)
    BY DEF Service!Choose
  <1> QED BY <1>1 DEF ServiceStep, Service!Next

\* An attempt begins.
LEMMA DoBegin ==
  ASSUME NEW call \in {"connect", "with_ssid"}, Attempts = {},
         Attempts' = {[call |-> call, net |-> None, phase |-> "working"]},
         outcome' = "none", SavedNetworks' = SavedNetworks, UNCHANGED mon
  PROVE  ServiceStep
PROOF
  <1>1. Service!Begin(call)
    BY DEF Service!Begin
  <1> QED BY <1>1 DEF ServiceStep, Service!Next

-----------------------------------------------------------------------------
(* The calling thread.                                                     *)

\* A call saves a network only in its search, and drops one only by a forget
\* or a reset, which leaves the caller where it is.
LEMMA SavedApp ==
  ASSUME TypeInv, NEW a \in Apps, Call(a) \/ InCall(a), ~At(a, "search")
  PROVE  /\ SavedNetworks' \subseteq SavedNetworks
         /\ app'[a].pc # app[a].pc /\ ~At(a, "forget")
            => SavedNetworks' = SavedNetworks
PROOF
  <1>1. sup \in SupType
    BY DEF TypeInv, TypeOK
  <1>2. CASE RK_wifi_reset
    <2>1. UNCHANGED app
      BY <1>2 DEF RK_wifi_reset
    <2>2. sup' = [Disconnect(sup) EXCEPT !.nets = [i \in Ids |-> Absent]]
      BY <1>2 DEF RK_wifi_reset
    <2>3. Disconnect(sup) \in SupType
      BY <1>1, DisconnectType
    <2>4. \A i \in Ids : sup'.nets[i] = Absent
      BY <2>2, <2>3 DEF SupType
    <2>5. \A i \in Ids : ~sup'.nets[i].known
      BY <2>4 DEF Absent
    <2>6. SavedNetworks' = {}
      BY <2>5 DEF SavedNetworks, Known
    <2> QED BY <2>1, <2>6
  <1>3. CASE ForgetRemove(a)
    <2>1. At(a, "forget") /\ app[a].id \in Ids /\ sup' = remove(sup, app[a].id)
      BY <1>3 DEF ForgetRemove, At, TypeInv, IdsChosen
    <2>2. ~sup'.nets[app[a].id].known
      BY <1>1, <2>1, RemoveType, Zenon
    <2>3. \A i \in Ids \ {app[a].id} : sup'.nets[i].known = sup.nets[i].known
      BY <1>1, <2>1, RemoveType, Zenon
    <2> QED BY <2>1, <2>2, <2>3 DEF SavedNetworks, Known
  <1>4. ASSUME ~RK_wifi_reset, ~ForgetRemove(a)
        PROVE  SavedNetworks' = SavedNetworks
    <2>1. CASE At(a, "forget")
      <3>1. UNCHANGED sup \/ RK_wifi_disconnect_network
        BY <1>4, <2>1
           DEF Call, InCall, At, RK_wifi_connect, RK_wifi_connect_with_ssid,
               RK_wifi_connect_with_bssid, RK_wifi_cancel, RK_wifi_forget, TakeLock,
               DisableAll, Search, SetNetwork, SelectNetwork, EnableNetwork,
               FailReport, FailUnlock, CancelRaise, CancelReturn
      <3>2. CASE RK_wifi_disconnect_network
        <4>1. sup' = [Disconnect(sup) EXCEPT !.hold = TRUE]
          BY <3>2 DEF RK_wifi_disconnect_network
        <4> QED BY <1>1, <4>1, DisconnectType, SavedSame DEF SupType
      <3> QED BY <3>1, <3>2 DEF SavedNetworks, Known
    <2>2. CASE ~At(a, "forget")
      BY <1>4, <2>2, KnownApp, SavedSame
    <2> QED BY <2>1, <2>2
  <1> QED BY <1>2, <1>3, <1>4

\* Outside a connect call, and with the check threads at rest, the attempts
\* stay.
LEMMA AttemptsSame ==
  ASSUME SerialCallers, NEW a \in Apps, UNCHANGED chk,
         app[a].pc \in {"idle", "lock", "raise", "wait", "forget"},
         app'[a].pc \in {"idle", "lock", "raise", "wait", "forget"}
  PROVE  Attempts' = Attempts
PROOF
  <1>1. \A b \in Apps : b = a
    BY DEF SerialCallers
  <1>2. ~Configuring(a) /\ ~Unwinding(a) /\ ~Configuring(a)' /\ ~Unwinding(a)'
    BY DEF Configuring, Unwinding
  <1> QED BY <1>1, <1>2 DEF Attempts, CheckAttempt, CheckPhase, Live

\* A call that works on: the attempt stays, or fails.
LEMMA CallWorks ==
  ASSUME ServiceInv, Shape', NEW a \in Apps, Configuring(a),
         app'[a].call = app[a].call, app'[a].id = app[a].id,
         Configuring(a)' \/ app'[a].pc = "fail",
         SavedNetworks' = SavedNetworks, UNCHANGED <<outcome, mon>>
  PROVE  ServiceStep
PROOF
  <1> DEFINE t == [call |-> app[a].call, net |-> app[a].id, phase |-> "working"]
  <1>1. Attempts = {t}
    BY DEF ServiceInv, Shape, CallAttempt, CallPhase, Configuring, At
  <1>2. CASE Configuring(a)'
    <2>1. Attempts' = {t}
      BY <1>2 DEF Shape, CallAttempt, CallPhase, Configuring, At
    <2> QED BY <1>1, <2>1, DoForget
  <1>3. CASE app'[a].pc = "fail"
    <2>1. Attempts' = {[t EXCEPT !.phase = "failing"]}
      BY <1>3 DEF Shape, CallAttempt, CallPhase, Unwinding, At
    <2> HIDE DEF t
    <2>2. t.phase = "working"
      BY DEF t
    <2> QED BY <1>1, <2>1, <2>2, DoFail
  <1> QED BY <1>2, <1>3

\* Every step of the calling thread is a step of the service.
LEMMA StepApp ==
  ASSUME SerialCallers, ServiceInv, Shape', NEW a \in Apps, Call(a) \/ InCall(a)
  PROVE  ServiceStep
PROOF
  <1>1. /\ app[a] \in AppType /\ app \in [Apps -> AppType] /\ TypeInv
        /\ chk \in [Checkers -> ChkType]
    BY DEF ServiceInv, TypeInv, TypeOK
  <1>2. ASSUME NEW l, Goto(a, l)
        PROVE  app'[a].pc = l /\ app'[a].call = app[a].call /\ app'[a].id = app[a].id
    BY <1>1, <1>2 DEF Goto, AppType
  <1>3. ASSUME Return(a)
        PROVE  app'[a].pc = "idle"
    BY <1>1, <1>3 DEF Return, IdleApp
  <1>4. ASSUME app[a].pc \in {"idle", "raise", "wait", "forget"},
               app'[a].pc \in {"idle", "lock", "raise", "wait", "forget"},
               UNCHANGED <<chk, outcome, mon>>
        PROVE  ServiceStep
    BY <1>1, <1>4, AttemptsSame, SavedApp, DoForget DEF At
  <1>5. CASE Call(a)
    <2>1. ASSUME NEW l, NEW call, NEW ap, NEW b, NEW w, Enter(a, l, call, ap, b, w)
          PROVE  app'[a].pc = l
      BY <1>1, <2>1 DEF Enter
    <2>2. ASSUME NEW id \in Ids, RK_wifi_forget(a, id)
          PROVE  app'[a].pc = "forget"
      BY <1>1, <2>2 DEF RK_wifi_forget, IdleApp
    <2>3. app[a].pc = "idle" /\ UNCHANGED <<chk, outcome, mon>>
      BY <1>5 DEF Call, At, RK_wifi_connect, RK_wifi_connect_with_ssid,
                  RK_wifi_connect_with_bssid, RK_wifi_cancel, RK_wifi_forget,
                  RK_wifi_disconnect_network, RK_wifi_reset
    <2>4. app'[a].pc \in {"idle", "lock", "raise", "forget"}
      <3>1. ~(\E b \in Bssids : RK_wifi_connect_with_bssid(a, b))
        BY DEF RK_wifi_connect_with_bssid, SerialCallers
      <3>2. ASSUME RK_wifi_disconnect_network \/ RK_wifi_reset
            PROVE  app'[a].pc = "idle"
        BY <2>3, <3>2 DEF RK_wifi_disconnect_network, RK_wifi_reset
      <3> QED BY <1>5, <2>1, <2>2, <3>1, <3>2
              DEF Call, RK_wifi_connect, RK_wifi_connect_with_ssid, RK_wifi_cancel
    <2> QED BY <1>4, <2>3, <2>4
  <1>6. CASE TakeLock(a)
    <2>1. /\ app[a].pc = "lock" /\ app'[a].call = app[a].call
          /\ app'[a].id = app[a].id /\ app'[a].pc \in {"disable", "search"}
          /\ UNCHANGED <<sup, mon>> /\ outcome' = "none"
      BY <1>2, <1>6 DEF TakeLock, At
    <2>2. ~wifi_connect_lock /\ app[a].call \in {"connect", "with_ssid"}
          /\ app[a].id = None
      BY <2>1 DEF ServiceInv, SerialInv, ToldInv, At
    <2>3. Attempts = {} /\ SavedNetworks' = SavedNetworks
      BY <2>1, <2>2 DEF ServiceInv, Shape, SavedNetworks, Known
    <2>4. Attempts' = {[call |-> app[a].call, net |-> None, phase |-> "working"]}
      BY <2>1, <2>2 DEF Shape, Configuring, CallAttempt, CallPhase, At
    <2> QED BY <2>1, <2>2, <2>3, <2>4, DoBegin
  <1>7. CASE DisableAll(a) \/ SetNetwork(a) \/ SelectNetwork(a)
    <2>1. /\ app[a].pc \in {"disable", "set", "select"} /\ UNCHANGED <<outcome, mon>>
          /\ \E l \in {"search", "select", "enable", "fail"} : Goto(a, l)
      BY <1>7 DEF DisableAll, SetNetwork, SelectNetwork, At
    <2>2. PICK l \in {"search", "select", "enable", "fail"} :
               /\ app'[a].pc = l /\ app'[a].call = app[a].call
               /\ app'[a].id = app[a].id
      BY <1>2, <2>1
    <2>3. app'[a].pc # app[a].pc
      <3>1. CASE DisableAll(a)
        <4>1. app[a].pc = "disable" /\ \E k \in {"search", "select"} : Goto(a, k)
          BY <3>1 DEF DisableAll, At
        <4>2. app'[a].pc \in {"search", "select"}
          BY <1>2, <4>1
        <4> QED BY <4>1, <4>2
      <3>2. CASE SetNetwork(a)
        <4>1. app[a].pc = "set" /\ (Goto(a, "select") \/ Goto(a, "fail"))
          BY <3>2 DEF SetNetwork, At
        <4>2. app'[a].pc \in {"select", "fail"}
          BY <1>2, <4>1
        <4> QED BY <4>1, <4>2
      <3>3. CASE SelectNetwork(a)
        <4>1. app[a].pc = "select" /\ (Goto(a, "enable") \/ Goto(a, "fail"))
          BY <3>3 DEF SelectNetwork, At
        <4>2. app'[a].pc \in {"enable", "fail"}
          BY <1>2, <4>1
        <4> QED BY <4>1, <4>2
      <3> QED BY <1>7, <3>1, <3>2, <3>3
    <2>4. SavedNetworks' = SavedNetworks
      BY <1>1, <2>1, <2>3, SavedApp DEF At
    <2> QED BY <2>1, <2>2, <2>4, CallWorks DEF Configuring
  <1>8. CASE Search(a)
    <2> DEFINE t == [call |-> app[a].call, net |-> None, phase |-> "working"]
    <2>1. app[a].pc = "search" /\ UNCHANGED <<chk, mon, outcome>>
      BY <1>8 DEF Search, At
    <2>2. app[a].id = None
      BY <2>1 DEF ServiceInv, ToldInv
    <2>3. Attempts = {t}
      BY <2>1, <2>2 DEF ServiceInv, Shape, Configuring, CallAttempt, CallPhase, At
    <2>4. CASE Goto(a, "fail") /\ UNCHANGED sup
      <3>1. SavedNetworks' = SavedNetworks
        BY <2>4 DEF SavedNetworks, Known
      <3> QED BY <1>2, <2>1, <2>4, <3>1, CallWorks DEF Configuring
    <2>5. ASSUME NEW i \in Ids, NEW l \in {"set", "disable"},
                 app' = [app EXCEPT ![a].id = i, ![a].pc = l],
                 i \in SavedNetworks \/ app[a].call = "connect",
                 SavedNetworks' = SavedNetworks \cup {i}
          PROVE  ServiceStep
      <3>1. app'[a].id = i /\ app'[a].pc = l /\ app'[a].call = app[a].call
        BY <1>1, <2>5 DEF AppType
      <3>2. Attempts' = {[t EXCEPT !.net = i]}
        <4>1. Attempts' = {[call |-> app[a].call, net |-> i, phase |-> "working"]}
          BY <2>5, <3>1 DEF Shape, Configuring, CallAttempt, CallPhase, At
        <4>2. [t EXCEPT !.net = i]
                = [call |-> app[a].call, net |-> i, phase |-> "working"]
          OBVIOUS
        <4> QED BY <4>1, <4>2
      <3>3. t.phase = "working" /\ t.net = None /\ t.call = app[a].call
        OBVIOUS
      <3> HIDE DEF t
      <3> QED BY <2>1, <2>3, <2>5, <3>2, <3>3, DoChoose
    <2>6. ASSUME NEW i \in Saved(a), UNCHANGED sup
          PROVE  i \in SavedNetworks /\ SavedNetworks' = SavedNetworks \cup {i}
      BY <2>6 DEF Saved, SavedNetworks, Known
    <2>7. ASSUME NEW i \in Ids, sup' = [sup EXCEPT !.nets[i] = Blank]
          PROVE  SavedNetworks' = SavedNetworks \cup {i}
      <3>1. sup.nets \in [Ids -> Net] /\ sup'.nets = [sup.nets EXCEPT ![i] = Blank]
        BY <1>1, <2>7, SetNetType, ConstType DEF TypeInv, TypeOK, SupType
      <3>2. Blank.known
        BY DEF Blank, Absent
      <3> QED BY <3>1, <3>2 DEF SavedNetworks, Known
    <2> DEFINE l == IF app[a].call = "connect" THEN "set" ELSE "disable"
    <2>8. \/ \E i \in Saved(a) : app' = [app EXCEPT ![a].id = i, ![a].pc = l] /\ UNCHANGED sup
          \/ /\ app[a].call = "connect"
             /\ \E i \in Ids : /\ sup' = [sup EXCEPT !.nets[i] = Blank]
                               /\ app' = [app EXCEPT ![a].id = i, ![a].pc = l]
          \/ Goto(a, "fail") /\ UNCHANGED sup
      BY <1>8 DEF Search
    <2>9. l \in {"set", "disable"} /\ Saved(a) \subseteq Ids
      BY DEF Saved
    <2> HIDE DEF l, t
    <2> QED BY <2>4, <2>5, <2>6, <2>7, <2>8, <2>9
  <1>9. CASE EnableNetwork(a)
    <2>1. app[a].pc = "enable" /\ UNCHANGED <<mon, outcome>>
      BY <1>9 DEF EnableNetwork, At
    <2>2. Configuring(a) /\ ~At(a, "search") /\ ~At(a, "forget")
      BY <2>1 DEF Configuring, At
    <2>3. CASE Goto(a, "fail")
      <3>1. /\ app'[a].pc = "fail" /\ app'[a].call = app[a].call
            /\ app'[a].id = app[a].id
        BY <1>2, <2>3
      <3>2. SavedNetworks' = SavedNetworks
        BY <1>1, <2>1, <2>2, <3>1, SavedApp
      <3> QED BY <2>1, <2>2, <3>1, <3>2, CallWorks
    <2>4. ASSUME NEW c \in Checkers, Return(a),
                 chk' = [chk EXCEPT ![c] = [pc |-> "read", id |-> None,
                           own |-> app[a].id, call |-> app[a].call,
                           polls |-> 0, ok |-> FALSE, report |-> FALSE]]
          PROVE  ServiceStep
      <3>1. chk'[c].pc = "read" /\ chk'[c].own = app[a].id /\ chk'[c].call = app[a].call
        BY <1>1, <2>4
      <3>2. Attempts' = {[call |-> app[a].call, net |-> app[a].id, phase |-> "working"]}
        BY <3>1 DEF Shape, Live, CheckAttempt, CheckPhase
      <3>3. Attempts = Attempts'
        BY <2>1, <2>2, <3>2 DEF ServiceInv, Shape, CallAttempt, CallPhase, At
      <3>4. SavedNetworks' = SavedNetworks
        BY <1>1, <1>3, <2>1, <2>2, <2>4, SavedApp
      <3> QED BY <2>1, <3>3, <3>4, DoForget
    <2> QED BY <1>9, <2>3, <2>4 DEF EnableNetwork
  <1>10. CASE FailReport(a)
    <2> DEFINE t == [call |-> app[a].call, net |-> app[a].id, phase |-> "failing"]
    <2>1. /\ app[a].pc = "fail" /\ UNCHANGED <<sup, mon>> /\ outcome' = "CONNECTFAILED"
          /\ app'[a].pc = "unlock" /\ app'[a].call = app[a].call
          /\ app'[a].id = app[a].id
      BY <1>2, <1>10 DEF FailReport, At
    <2>2. SavedNetworks' = SavedNetworks
      BY <2>1 DEF SavedNetworks, Known
    <2>3. Attempts = {t}
      BY <2>1 DEF ServiceInv, Shape, Unwinding, CallAttempt, CallPhase, At
    <2>4. Attempts' = {[t EXCEPT !.phase = "told"]}
      BY <2>1 DEF Shape, Unwinding, CallAttempt, CallPhase, At
    <2>5. t.phase = "failing"
      OBVIOUS
    <2> HIDE DEF t
    <2> QED BY <2>1, <2>2, <2>3, <2>4, <2>5, DoTell
  <1>11. CASE FailUnlock(a)
    <2> DEFINE t == [call |-> app[a].call, net |-> app[a].id, phase |-> "told"]
    <2>1. app[a].pc = "unlock" /\ UNCHANGED <<sup, mon, outcome>> /\ ~wifi_connect_lock'
      BY <1>11 DEF FailUnlock, At
    <2>2. SavedNetworks' = SavedNetworks
      BY <2>1 DEF SavedNetworks, Known
    <2>3. Attempts = {t} /\ Attempts' = {}
      BY <2>1 DEF ServiceInv, Shape, Unwinding, CallAttempt, CallPhase, At
    <2>4. t.phase = "told"
      OBVIOUS
    <2> HIDE DEF t
    <2> QED BY <2>1, <2>2, <2>3, <2>4, DoEnd
  <1>12. CASE CancelRaise(a) \/ CancelReturn(a) \/ ForgetRemove(a)
    <2>1. /\ app[a].pc \in {"raise", "wait", "forget"} /\ UNCHANGED <<chk, outcome, mon>>
          /\ app'[a].pc \in {"wait", "idle"}
      BY <1>2, <1>3, <1>12 DEF CancelRaise, CancelReturn, ForgetRemove, At
    <2> QED BY <1>4, <2>1
  <1> QED BY <1>5, <1>6, <1>7, <1>8, <1>9, <1>10, <1>11, <1>12 DEF InCall

-----------------------------------------------------------------------------
(* The check threads, the monitor and wpa_supplicant.                      *)

\* Every step of a check thread is a step of the service.
LEMMA StepChecker ==
  ASSUME ServiceInv, Shape', NEW c \in Checkers, Checker(c)
  PROVE  ServiceStep
PROOF
  <1> DEFINE t == [call |-> chk[c].call, net |-> chk[c].own, phase |-> CheckPhase(c)]
  <1>1. /\ chk[c] \in ChkType /\ chk \in [Checkers -> ChkType] /\ TypeInv /\ SerialInv
        /\ ToldInv /\ sup \in SupType
    BY DEF ServiceInv, TypeInv, TypeOK
  <1>2. Live(c) => Attempts = {t}
    BY DEF ServiceInv, Shape, CheckAttempt
  <1>3. UNCHANGED <<app, mon>>
    BY DEF Checker, CheckRead, check_wifi_isconnected, Decide,
           wifi_connectfail_process, SendResult, Release, ReenableAll
  <1>4. ASSUME NEW l, ChkGoto(c, l)
        PROVE  /\ chk'[c].pc = l /\ chk'[c].call = chk[c].call
               /\ chk'[c].own = chk[c].own /\ chk'[c].ok = chk[c].ok
    BY <1>1, <1>4 DEF ChkGoto, ChkType
  <1>5. ASSUME Live(c), Live(c)', chk'[c].call = chk[c].call, chk'[c].own = chk[c].own
        PROVE  Attempts' = {[call |-> chk[c].call, net |-> chk[c].own,
                             phase |-> CheckPhase(c)']}
    BY <1>5 DEF Shape, CheckAttempt
  <1>6. chk[c].pc # "drop" => SavedNetworks' = SavedNetworks
    BY <1>1, KnownChecker, SavedSame
  <1>7. CASE CheckRead(c) \/ check_wifi_isconnected(c)
    <2>1. /\ chk[c].pc \in {"read", "poll"} /\ chk'[c].pc \in {"poll", "decide"}
          /\ chk'[c].call = chk[c].call /\ chk'[c].own = chk[c].own
          /\ UNCHANGED outcome
      <3>1. CASE CheckRead(c)
        BY <1>1, <3>1 DEF CheckRead, ChkType
      <3>2. CASE check_wifi_isconnected(c)
        BY <1>1, <3>2 DEF check_wifi_isconnected, ChkGoto, ChkType
      <3> QED BY <1>7, <3>1, <3>2
    <2>2. CheckPhase(c) = "working" /\ CheckPhase(c)' = "working"
      BY <2>1 DEF CheckPhase
    <2>3. Attempts' = Attempts
      BY <1>2, <1>5, <2>1, <2>2 DEF Live
    <2> QED BY <1>3, <1>6, <2>1, <2>3, DoForget
  <1>8. CASE Decide(c)
    <2>1. /\ chk[c].pc = "decide" /\ chk'[c].call = chk[c].call
          /\ chk'[c].own = chk[c].own /\ chk'[c].ok = chk[c].ok /\ UNCHANGED outcome
          /\ chk'[c].pc = IF chk[c].ok THEN "send" ELSE "drop"
      BY <1>1, <1>8 DEF Decide, ChkType
    <2>2. /\ CheckPhase(c) = "working"
          /\ CheckPhase(c)' = IF chk[c].ok THEN "working" ELSE "failing"
      BY <2>1 DEF CheckPhase
    <2>3. Attempts = {t} /\ SavedNetworks' = SavedNetworks
      BY <1>2, <1>6, <2>1 DEF Live
    <2>4. Attempts' = {[call |-> chk[c].call, net |-> chk[c].own,
                        phase |-> IF chk[c].ok THEN "working" ELSE "failing"]}
      BY <1>5, <2>1, <2>2 DEF Live
    <2>5. CASE chk[c].ok
      BY <1>3, <2>1, <2>2, <2>3, <2>4, <2>5, DoForget
    <2>6. CASE ~chk[c].ok
      <3>1. Attempts' = {[t EXCEPT !.phase = "failing"]} /\ t.phase = "working"
        BY <2>2, <2>4, <2>6
      <3> HIDE DEF t
      <3> QED BY <1>3, <2>1, <2>3, <3>1, DoFail
    <2> QED BY <2>5, <2>6
  <1>9. CASE wifi_connectfail_process(c)
    <2>1. /\ chk[c].pc = "drop" /\ chk'[c].pc = "send" /\ UNCHANGED outcome
          /\ chk'[c].call = chk[c].call /\ chk'[c].own = chk[c].own
          /\ chk'[c].ok = chk[c].ok
          /\ sup' = IF wifi_is_exist THEN disable(sup, {chk[c].id})
                    ELSE remove(sup, chk[c].id)
      BY <1>4, <1>9 DEF wifi_connectfail_process
    <2>2. CheckPhase(c) = "failing" /\ CheckPhase(c)' = "failing"
      BY <1>1, <2>1 DEF CheckPhase, ToldInv
    <2>3. Attempts' = Attempts
      BY <1>2, <1>5, <2>1, <2>2 DEF Live
    <2>4. chk[c].id \in Ids
      BY <1>1, <2>1 DEF TypeInv, IdsChosen
    <2>5. \A i \in Ids : sup'.nets[i].known => sup.nets[i].known
      <3>1. CASE wifi_is_exist
        <4>1. {chk[c].id} \in SUBSET Ids
          BY <2>4
        <4> QED BY <1>1, <2>1, <3>1, <4>1, DisableType
      <3>2. CASE ~wifi_is_exist
        <4> DEFINE id == chk[c].id
        <4>1. sup' = remove(sup, id)
          BY <2>1, <3>2
        <4>2. id \in Ids /\ sup \in SupType
          BY <1>1, <2>4
        <4> HIDE DEF id
        <4> QED BY <4>1, <4>2, RemoveType
      <3> QED BY <3>1, <3>2
    <2>6. SavedNetworks' \subseteq SavedNetworks
      BY <2>5 DEF SavedNetworks, Known
    <2> QED BY <1>3, <2>1, <2>3, <2>6, DoForget
  <1>10. CASE SendResult(c)
    <2>1. /\ chk[c].pc = "send" /\ chk'[c].pc = "release"
          /\ chk'[c].call = chk[c].call /\ chk'[c].own = chk[c].own
          /\ outcome' = IF ~chk[c].report THEN outcome
                        ELSE IF chk[c].ok THEN "DHCP_OK" ELSE "CONNECTFAILED"
      BY <1>4, <1>10 DEF SendResult
    <2>2. /\ CheckPhase(c) = IF chk[c].ok THEN "working" ELSE "failing"
          /\ CheckPhase(c)' = "told"
      BY <2>1 DEF CheckPhase
    <2>3. Attempts = {t} /\ SavedNetworks' = SavedNetworks
      BY <1>2, <1>6, <2>1 DEF Live
    <2>4. Attempts' = {[t EXCEPT !.phase = "told"]}
      BY <1>5, <2>1, <2>2 DEF Live
    <2>5. chk[c].own # None
      <3>1. chk[c].own = chk[c].id /\ chk[c].id \in Ids
        BY <1>1, <2>1 DEF SerialInv, ChecksOwnNetwork, Live, TypeInv, IdsChosen
      <3> QED BY <3>1, ConstantsAssumption
    <2>6. ~chk[c].report => ~chk[c].ok /\ Told
      BY <1>1, <2>1 DEF ToldInv
    <2>7. t.phase = CheckPhase(c) /\ t.net = chk[c].own
      OBVIOUS
    <2> HIDE DEF t
    <2> QED BY <1>3, <2>1, <2>2, <2>3, <2>4, <2>5, <2>6, <2>7, DoTell
  <1>11. CASE Release(c)
    <2>1. chk[c].pc = "release" /\ ~wifi_connect_lock' /\ UNCHANGED outcome
      BY <1>11 DEF Release
    <2>2. Attempts = {t} /\ SavedNetworks' = SavedNetworks /\ Attempts' = {}
      BY <1>2, <1>6, <2>1 DEF Live, Shape
    <2>3. t.phase = "told"
      BY <2>1 DEF CheckPhase
    <2> HIDE DEF t
    <2> QED BY <1>3, <2>1, <2>2, <2>3, DoEnd
  <1>12. CASE ReenableAll(c)
    <2>1. /\ chk[c].pc = "tail" /\ chk'[c].pc = "none" /\ UNCHANGED outcome
          /\ \A d \in Checkers \ {c} : chk'[d] = chk[d]
      BY <1>1, <1>12 DEF ReenableAll, NoChk
    <2>2. \A d \in Checkers : /\ Live(d)' = Live(d)
                              /\ Live(d) => CheckAttempt(d)' = CheckAttempt(d)
      BY <2>1 DEF Live, CheckAttempt, CheckPhase
    <2>3. Attempts' = Attempts
      BY <1>3, <2>2 DEF Attempts, CallAttempt, CallPhase, Configuring, Unwinding, At
    <2> QED BY <1>3, <1>6, <2>1, <2>3, DoForget
  <1> QED BY <1>7, <1>8, <1>9, <1>10, <1>11, <1>12 DEF Checker

\* The monitor refuses and reports a key; nothing else it, wpa_supplicant or
\* the power flag does shows in the service.
LEMMA StepOthers ==
  ASSUME ServiceInv, Monitor \/ Supplicant \/ PowerFlags
  PROVE  ServiceStep
PROOF
  <1>1. TypeInv /\ TypeOK /\ mon \in [pc : MonPcs, id : Ids]
    BY DEF ServiceInv, TypeInv, TypeOK
  <1>2. UNCHANGED <<app, chk>>
    BY <1>1, TypeSupplicant, MonitorFrame DEF PowerFlags
  <1>3. Attempts' = Attempts
    BY <1>2 DEF Attempts, CallAttempt, CallPhase, CheckAttempt, CheckPhase,
                Configuring, Unwinding, Live, At
  <1>4. SavedNetworks' = SavedNetworks
    <2>1. CASE PowerFlags
      BY <2>1 DEF PowerFlags, SavedNetworks, Known
    <2>2. CASE Monitor \/ Supplicant
      BY <1>1, <2>2, KnownOthers, SavedSame
    <2> QED BY <2>1, <2>2
  <1>5. CASE OnWrongKey
    <2>1. mon'.pc = "wrong_key" /\ UNCHANGED outcome
      BY <1>1, <1>5 DEF OnWrongKey, MonGoto
    <2>2. Service!RefuseKey
      BY <1>3, <1>4, <2>1 DEF Service!RefuseKey
    <2> QED BY <2>2 DEF ServiceStep, Service!Next
  <1>6. CASE ReportWrongKey
    <2>1. mon.pc = "wrong_key" /\ mon'.pc # "wrong_key" /\ outcome' = "WRONG_KEY"
      BY <1>1, <1>6 DEF ReportWrongKey, MonGoto
    <2>2. Service!TellWrongKey
      BY <1>3, <1>4, <2>1 DEF Service!TellWrongKey
    <2> QED BY <2>2 DEF ServiceStep, Service!Next
  <1>7. ASSUME ~OnWrongKey, ~ReportWrongKey
        PROVE  ServiceStep
    <2>1. UNCHANGED outcome /\ (mon'.pc = "wrong_key") = (mon.pc = "wrong_key")
      <3>1. CASE Supplicant \/ PowerFlags
        BY <1>1, <3>1, TypeSupplicant DEF PowerFlags
      <3>2. CASE Monitor
        BY <1>1, <1>7, <3>2
           DEF Monitor, OnDisconnected, MonLockTest, MonReenable, OnConnected,
               disable_no_connected_ssid, rkwifi_check_ip, OnAssocReject,
               WepRetry, Event, MonGoto
      <3> QED BY <3>1, <3>2
    <2>2. UNCHANGED Service!vars
      BY <1>3, <1>4, <2>1 DEF Service!vars
    <2> QED BY <2>2 DEF ServiceStep
  <1> QED BY <1>5, <1>6, <1>7

-----------------------------------------------------------------------------
\* WifiConnect implements the safety part of ConnectService: however its
\* threads, the monitor and wpa_supplicant interleave, the library begins an
\* attempt only when none is under way, keeps it on one network, saves a new
\* one only in a plain connect, and ends no attempt untold.
THEOREM ServiceSafety == SerialCallers => (Spec => Service!Safety)
PROOF
  <1> SUFFICES ASSUME SerialCallers PROVE Spec => Service!Safety
    OBVIOUS
  <1>1. Init => Service!Init
    <2> SUFFICES ASSUME Init PROVE Service!Init
      OBVIOUS
    <2>1. Attempts = {}
      BY DEF Init, Attempts, Configuring, Unwinding, Live, IdleApp, NoChk
    <2>2. SavedNetworks \in SUBSET Ids
      BY DEF SavedNetworks
    <2> QED BY <2>1, <2>2 DEF Init, Service!Init
  <1>2. ServiceInv /\ ServiceInv' /\ [Next]_vars => ServiceStep
    <2> SUFFICES ASSUME ServiceInv, ServiceInv', [Next]_vars PROVE ServiceStep
      OBVIOUS
    <2>1. CASE UNCHANGED vars
      <3>1. Attempts' = Attempts /\ SavedNetworks' = SavedNetworks
        BY <2>1 DEF vars, globals, Attempts, CallAttempt, CallPhase, CheckAttempt,
                    CheckPhase, Configuring, Unwinding, Live, At, SavedNetworks, Known
      <3> QED BY <2>1, <3>1 DEF vars, ServiceStep, Service!vars
    <2>2. Shape'
      BY DEF ServiceInv
    <2> QED BY <2>1, <2>2, StepApp, StepChecker, StepOthers DEF Next
  <1> QED BY <1>1, <1>2, ServiceAlways, PTL DEF Spec, ServiceStep, Service!Safety

\* What the application was told counts for the attempt under way: an attempt
\* that is through with telling has told, or the monitor is about to.
AttemptsTold ==
  \A t \in Attempts : "phase" \in DOMAIN t /\ (t.phase = "told" => Told)

\* A step that ends the attempt under way finds the application told of it.
EndsTold == Attempts # {} /\ Attempts' = {} => Told

\* Steps of ConnectService keep AttemptsTold and end no attempt untold.
LEMMA ToldStep ==
  ASSUME AttemptsTold, ServiceStep
  PROVE  AttemptsTold' /\ EndsTold
PROOF
  <1>1. CASE UNCHANGED Service!vars
    BY <1>1 DEF Service!vars, AttemptsTold, EndsTold, Told
  <1>2. CASE \/ \E nets \in SUBSET Ids : Service!Forget(nets)
             \/ Service!RefuseKey \/ Service!TellWrongKey
    <2>1. Attempts' = Attempts /\ (Told => Told')
      BY <1>2 DEF Service!Forget, Service!RefuseKey, Service!TellWrongKey, Told
    <2> QED BY <2>1 DEF AttemptsTold, EndsTold
  <1>3. ASSUME NEW t \in Attempts, NEW i \in Ids, Service!Choose(t, i)
        PROVE  AttemptsTold' /\ EndsTold
    <2>1. t.phase = "working" /\ Attempts' = {[t EXCEPT !.net = i]}
      BY <1>3 DEF Service!Choose
    <2>2. "phase" \in DOMAIN [t EXCEPT !.net = i] /\ [t EXCEPT !.net = i].phase = t.phase
      BY DEF AttemptsTold
    <2> QED BY <2>1, <2>2 DEF AttemptsTold, EndsTold
  <1>4. ASSUME NEW t \in Attempts, Service!Fail(t)
        PROVE  AttemptsTold' /\ EndsTold
    <2>1. Attempts' = {[t EXCEPT !.phase = "failing"]}
      BY <1>4 DEF Service!Fail
    <2>2. /\ "phase" \in DOMAIN [t EXCEPT !.phase = "failing"]
          /\ [t EXCEPT !.phase = "failing"].phase = "failing"
      BY DEF AttemptsTold
    <2> QED BY <2>1, <2>2 DEF AttemptsTold, EndsTold
  <1>5. ASSUME NEW t \in Attempts, Service!Tell(t)
        PROVE  AttemptsTold' /\ EndsTold
    <2>1. Attempts' = {[t EXCEPT !.phase = "told"]} /\ Told'
      BY <1>5 DEF Service!Tell, Told
    <2>2. "phase" \in DOMAIN [t EXCEPT !.phase = "told"]
      BY DEF AttemptsTold
    <2> QED BY <2>1, <2>2 DEF AttemptsTold, EndsTold
  <1>6. ASSUME NEW t \in Attempts, Service!End(t)
        PROVE  AttemptsTold' /\ EndsTold
    <2>1. t.phase = "told" /\ Attempts' = {}
      BY <1>6 DEF Service!End
    <2> QED BY <2>1 DEF AttemptsTold, EndsTold
  <1>7. ASSUME NEW call \in {"connect", "with_ssid"}, Service!Begin(call)
        PROVE  AttemptsTold' /\ EndsTold
    <2>1. Attempts = {} /\ Attempts' = {[call |-> call, net |-> None, phase |-> "working"]}
      BY <1>7 DEF Service!Begin
    <2> QED BY <2>1 DEF AttemptsTold, EndsTold
  <1> QED BY <1>1, <1>2, <1>3, <1>4, <1>5, <1>6, <1>7 DEF ServiceStep, Service!Next

\* No attempt ends untold: when the call or the check thread of an attempt
\* releases wifi_connect_lock, the application was told DHCP_OK, CONNECTFAILED
\* or WRONG_KEY since the attempt began, or the monitor is about to tell it the
\* last.  This is the safety half of what ConnectService promises for ever.
THEOREM EndsToldHolds == SerialCallers => (Spec => [][EndsTold]_vars)
PROOF
  <1> SUFFICES ASSUME SerialCallers PROVE Spec => [][EndsTold]_vars
    OBVIOUS
  <1>1. Service!Init => AttemptsTold
    BY DEF Service!Init, AttemptsTold
  <1>2. AttemptsTold /\ [Service!Next]_Service!vars => AttemptsTold' /\ EndsTold
    BY ToldStep DEF ServiceStep
  <1> QED BY <1>1, <1>2, ServiceSafety, PTL DEF Service!Safety
=============================================================================
