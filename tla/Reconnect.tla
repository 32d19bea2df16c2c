------------------------------ MODULE Reconnect ------------------------------
(***************************************************************************)
(* The link to the phone: how app_bt.c calls the last phone after power-on *)
(* (AUTO) and after a loss (RECONN), brings up its profiles, gives up, and *)
(* when it lets itself be found.                                           *)
(*                                                                         *)
(* All of it hangs on one timer, app_auto_con_task: whoever schedules it   *)
(* replaces what was scheduled, and many handlers stop it.  A callback     *)
(* that has already been posted to the message pool is not stopped.  The   *)
(* host's link object and what the controller does are apart: a page can   *)
(* outlive the object, and so can a link.                                  *)
(*                                                                         *)
(* One phone, as in BT_MODE_1V1.  Settings: disconn_action connects,       *)
(* action_disconn is 0, the device is always inquirable, APP_ENV_BT_FLAG_  *)
(* AUTO_CONN is set, both retry counts are MaxRetry.                       *)
(***************************************************************************)
EXTENDS Naturals

CONSTANTS MaxRetry,   \* disconn_retry_count, auto_conn_count
          MaxAhead    \* bound: events in the message pool ahead of a callback

ASSUME ReconnectAssumption == MaxRetry \in Nat \ {0} /\ MaxAhead \in Nat

VARIABLES
  work,   \* Bluetooth is the work mode: "enabling" until its unit is up, "on";
          \* "off" in the other modes
  link,   \* the ACL link as the host has it: none, being paged for, being
          \* authenticated, open
  air,    \* what the controller does with the phone
  prof,   \* the profiles that are connected
  asked,  \* the profile the device is connecting, or "none"
  denied, \* FLAG_HFP_AUTOCONN_DISCONNED: the phone does not want hands-free
  paired, \* a link key is stored: app_get_env_key_num() # 0
  app,    \* the application's own state
  posted, \* a callback of app_auto_con_task that is in the message pool
  ahead   \* the events that may still be handled before it

vars == <<work, link, air, prof, asked, denied, paired, app, posted, ahead>>

Profile == {"HFP", "A2DP", "AVRCP"}
Reason == {"user", "timeout", "other"}

\* reconn:    bt_create_reconn_timeout_wrap    reconnect: bt_create_reconnect_wrap
\* conn:      bt_create_conn_timeout_wrap      autoconn:  bt_create_autoconn_wrap
\* stop:      bt_auto_con_timerout_wrap        profiles:  app_bt_active_allpro_conn
Func == {"reconn", "reconnect", "conn", "autoconn", "stop", "profiles"}
None == [func |-> "none", arg |-> 0]
Callback == [func : Func, arg : 0 .. MaxRetry + 1] \cup {None}

Bt == work # "off"
\* hci_get_acl_link_count() # 0.
Linked == link \in {"busy", "open"}

TypeOK ==
  /\ work \in {"off", "enabling", "on"}
  /\ link \in {"none", "wait", "busy", "open"}
  /\ air \in {"idle", "paging", "linked"}
  /\ prof \subseteq Profile /\ asked \in {"none", "HFP", "A2DP"}
  /\ denied \in BOOLEAN /\ paired \in BOOLEAN
  /\ app \in [flags  : SUBSET {"AUTO", "RECONN", "MATCH_BUTTON"},
              scan   : BOOLEAN,
              retry  : 0 .. MaxRetry + 1,
              status : {"START", "STOP"},
              reason : Reason \cup {"none"},
              task   : Callback]
  /\ posted \in Callback /\ ahead \in 0 .. MaxAhead

Init ==
  /\ work = "enabling" /\ link = "none" /\ air = "idle"
  /\ prof = {} /\ asked = "none" /\ denied = FALSE /\ paired \in BOOLEAN
  /\ app = [flags |-> {"AUTO"}, scan |-> FALSE, retry |-> 0, status |-> "STOP",
            reason |-> "none", task |-> None]
  /\ posted = None /\ ahead = 0

------------------------------------------------------------------------------
\* What the handlers do to the application's state a.

Trying(a) == a.flags \cap {"AUTO", "RECONN"} # {}
Cleared(a) == [a EXCEPT !.flags = @ \ {"AUTO", "RECONN"}]
Stopped(a) == [a EXCEPT !.task = None]
Schedule(a, f, n) == [a EXCEPT !.task = [func |-> f, arg |-> n]]

\* Mutant: the flags are cleared and the scan is left off.
StopDeaf(a, linked) ==
  [Cleared(Stopped(a)) EXCEPT !.retry = 0, !.status = "STOP"]

\* Without a link there is no A2DP connection, so the test for one is left out.
auto_connect_stop(a, linked) ==
  LET free == ~linked /\ Bt
  IN  [Cleared(Stopped(a)) EXCEPT
         !.retry = 0, !.status = "STOP",
         !.scan = IF Trying(a) THEN free ELSE @ \/ free]

auto_connect_start(a) ==
  IF ~Bt \/ ~paired THEN auto_connect_stop(a, Linked)
  ELSE IF "AUTO" \in a.flags THEN [Schedule(a, "conn", 0) EXCEPT !.status = "START"]
  ELSE a

allpro_conn_start(a) ==
  IF a.status = "START" /\ Trying(a) THEN Schedule(a, "profiles", 0) ELSE a

\* A link has come up.
conn_compl(a) ==
  CASE ~Bt                              -> auto_connect_stop(a, TRUE)
    [] Bt /\ "RECONN" \in a.flags       -> Stopped(a)
    [] Bt /\ "RECONN" \notin a.flags    -> a

\* A lost link leads to a reconnection, to the next automatic attempt, or to
\* nothing at all.
Follow(a, r) ==
  LET auto == "AUTO" \in a.flags
  IN  CASE r = "user" -> Schedule(a, "stop", 0)
        [] r # "user" /\ "MATCH_BUTTON" \in a.flags -> a
        [] r = "timeout" /\ "MATCH_BUTTON" \notin a.flags /\ ~auto ->
             Schedule([a EXCEPT !.flags = @ \cup {"RECONN"}], "reconn", 0)
        [] r # "user" /\ "MATCH_BUTTON" \notin a.flags /\ auto ->
             IF a.retry <= MaxRetry THEN Schedule(a, "conn", a.retry)
                                    ELSE [a EXCEPT !.status = "STOP"]
        [] r = "other" /\ "MATCH_BUTTON" \notin a.flags /\ ~auto -> a

disconn(a, r) ==
  LET b == Follow([Stopped(a) EXCEPT !.reason = r], r)
  IN  [b EXCEPT
         !.flags = @ \ {"MATCH_BUTTON"},
         !.scan = @ \/ "MATCH_BUTTON" \in a.flags \/ (Bt /\ ~Trying(b))]

\* The keys for pairing and for clearing the memory first end any attempt.
Abandon(a) == IF Trying(a) THEN Cleared(Stopped(a)) ELSE a

------------------------------------------------------------------------------
\* The host asks the controller to page the phone: nothing if it has the link,
\* and refused while the controller is at it already or holds the link.
acl_connect ==
  IF link = "none" /\ air = "idle" THEN link' = "wait" /\ air' = "paging"
                                   ELSE UNCHANGED <<link, air>>

\* The timer expires; bound: one callback of it in the pool.
Expire ==
  /\ app.task # None /\ posted = None
  /\ posted' = app.task /\ ahead' = MaxAhead
  /\ app' = Stopped(app)
  /\ UNCHANGED <<work, link, air, prof, asked, denied, paired>>

\* common_msg_handler takes callback f out of the pool and runs it.
Take(f) == posted.func = f /\ posted' = None /\ ahead' = 0

\* bt_create_reconn_timeout_wrap, on what it finds: nothing to do, ...
ReconnOver ==
  /\ Take("reconn")
  /\ LET a == [app EXCEPT !.retry = posted.arg]
     IN  app' = CASE "RECONN" \notin a.flags -> a
                  [] "RECONN" \in a.flags /\ ~Bt ->
                       auto_connect_stop([a EXCEPT !.flags = @ \ {"RECONN"}], Linked)
                  [] "RECONN" \in a.flags /\ Bt /\ posted.arg > MaxRetry ->
                       auto_connect_stop(a, Linked)
                  [] OTHER -> a
  /\ "RECONN" \in app.flags /\ Bt /\ posted.arg <= MaxRetry => link = "open"
  /\ UNCHANGED <<work, link, air, prof, asked, denied, paired>>

\* Mutants: one page too many; and a page that is not counted.
ReconnPageOnceMore ==
  /\ Take("reconn")
  /\ "RECONN" \in app.flags /\ Bt /\ posted.arg <= MaxRetry + 1 /\ link = "none"
  /\ LET n == posted.arg + 1
     IN  app' = Schedule([app EXCEPT !.retry = n, !.scan = FALSE, !.status = "START"],
                         "reconnect", n)
  /\ acl_connect
  /\ denied' = FALSE
  /\ UNCHANGED <<work, prof, asked, paired>>

ReconnPageUncounted ==
  /\ Take("reconn")
  /\ "RECONN" \in app.flags /\ Bt /\ posted.arg <= MaxRetry /\ link = "none"
  /\ app' = Schedule([app EXCEPT !.scan = FALSE, !.status = "START"],
                     "reconnect", posted.arg)
  /\ acl_connect
  /\ denied' = FALSE
  /\ UNCHANGED <<work, prof, asked, paired>>

\* ... no link, which it has paged for, ...
ReconnPage ==
  /\ Take("reconn")
  /\ "RECONN" \in app.flags /\ Bt /\ posted.arg <= MaxRetry /\ link = "none"
  /\ LET n == posted.arg + 1
     IN  app' = Schedule([app EXCEPT !.retry = n, !.scan = FALSE, !.status = "START"],
                         "reconnect", n)
  /\ acl_connect
  /\ denied' = FALSE
  /\ UNCHANGED <<work, prof, asked, paired>>

\* ... or a link that is not open yet, which it frees.
ReconnFree ==
  /\ Take("reconn")
  /\ "RECONN" \in app.flags /\ Bt /\ posted.arg <= MaxRetry
  /\ link \in {"wait", "busy"}
  /\ link' = "none" /\ asked' = "none"
  /\ app' = Schedule([app EXCEPT !.retry = posted.arg], "reconnect", posted.arg)
  /\ UNCHANGED <<work, air, prof, denied, paired>>

Reconnect ==
  /\ Take("reconnect")
  /\ app' = Schedule(app, "reconn", posted.arg)
  /\ UNCHANGED <<work, link, air, prof, asked, denied, paired>>

\* bt_create_conn_timeout_wrap: an attempt, ... (AUTO is set in Bluetooth mode
\* only, so its test for the mode is left out)
ConnPage ==
  /\ Take("conn")
  /\ "AUTO" \in app.flags /\ posted.arg < MaxRetry /\ paired /\ ~Linked
  /\ LET n == posted.arg + 1
     IN  app' = Schedule([app EXCEPT !.retry = n, !.scan = FALSE], "autoconn", n)
  /\ acl_connect
  /\ denied' = FALSE
  /\ UNCHANGED <<work, prof, asked, paired>>

\* ... or the end of them.
ConnOver ==
  /\ Take("conn")
  /\ LET a == [app EXCEPT !.retry = posted.arg]
         more == posted.arg < MaxRetry /\ paired
     IN  /\ "AUTO" \in a.flags /\ more => Linked
         /\ app' = CASE "AUTO" \notin a.flags          -> a
                     [] "AUTO" \in a.flags /\ more     -> auto_connect_stop(a, TRUE)
                     [] "AUTO" \in a.flags /\ ~more    -> Schedule(a, "stop", 0)
  /\ UNCHANGED <<work, link, air, prof, asked, denied, paired>>

AutoConn ==
  /\ Take("autoconn")
  /\ app' = Schedule([app EXCEPT !.retry = posted.arg], "conn", posted.arg)
  /\ UNCHANGED <<work, link, air, prof, asked, denied, paired>>

Stop ==
  /\ Take("stop")
  /\ app' = auto_connect_stop(app, Linked)
  /\ UNCHANGED <<work, link, air, prof, asked, denied, paired>>

\* app_bt_active_allpro_conn: hands-free first, then A2DP.  Connecting a
\* profile has its link opened, if need be.
ActiveConn(p) ==
  /\ Take("profiles")
  /\ p = IF "HFP" \notin prof /\ ~denied THEN "HFP" ELSE "A2DP"
  /\ p \notin prof
  /\ asked' = p
  /\ denied' = (denied /\ p = "HFP")
  /\ acl_connect
  /\ UNCHANGED <<work, prof, paired, app>>

\* app_bt_auto_conn_ok: both are there.
AutoConnOk ==
  /\ Take("profiles")
  /\ "A2DP" \in prof /\ ("HFP" \in prof \/ denied)
  /\ denied' = FALSE
  /\ app' = auto_connect_stop(Cleared(app), Linked)
  /\ UNCHANGED <<work, link, air, prof, asked, paired>>

------------------------------------------------------------------------------
\* The phone and the controller.

LinkUp(l) ==
  /\ link' = l /\ air' = "linked"
  /\ app' = conn_compl(app)

\* The page is answered.  A link the host has no object for is hung up.
PageAnswered ==
  /\ air = "paging"
  /\ IF link = "wait" THEN LinkUp(IF Bt /\ Trying(app) THEN "busy" ELSE "open")
                      ELSE air' = "idle" /\ UNCHANGED <<link, app>>
  /\ UNCHANGED <<work, prof, asked, denied, paired, posted>>

\* The page times out: the host frees its object and tells nobody.
PageTimeout ==
  /\ air = "paging"
  /\ air' = "idle" /\ link' = "none" /\ asked' = "none"
  /\ UNCHANGED <<work, prof, denied, paired, app, posted>>

\* The phone finds and calls the device, which takes the call unless it is
\* trying to call itself (bt_is_reject_new_connect).
PhoneConnects ==
  /\ work # "enabling" /\ app.scan
  /\ link = "none" /\ air = "idle" /\ ~Trying(app)
  /\ LinkUp("open")
  /\ UNCHANGED <<work, prof, asked, denied, paired, posted>>

\* hci_acl_setmode has authenticated and encrypted the link.
Secured ==
  /\ link = "busy"
  /\ link' = "open" /\ paired' = TRUE
  /\ app' = allpro_conn_start(app)
  /\ UNCHANGED <<work, air, prof, asked, denied, posted>>

\* app_bt_profile_conn_wrap, avrcp_svc_connected; the phone has paired by then.
ProfileUp(p) ==
  /\ link = "open" /\ p \notin prof
  /\ prof' = prof \cup {p} /\ paired' = TRUE
  /\ asked' = IF asked = p THEN "none" ELSE asked
  /\ LET first == p # "AVRCP" /\ prof \cap {"HFP", "A2DP"} = {}
         next == \/ p = "AVRCP"
                 \/ p = "HFP" /\ ("A2DP" \in prof => "AVRCP" \in prof)
         b == [app EXCEPT !.reason = IF p = "AVRCP" THEN @ ELSE "none",
                          !.scan = @ /\ ~(first /\ ~Trying(app))]
     IN  app' = IF next THEN allpro_conn_start(b) ELSE b
  /\ UNCHANGED <<work, link, air, denied, posted>>

\* hfp_hf_disconnected: it is tried again at once, or given up, which the
\* application notes if it was tried again before.
HfpDown ==
  /\ link = "open" /\ ("HFP" \in prof \/ asked = "HFP")
  /\ prof' = prof \ {"HFP"}
  /\ \/ asked' = "HFP" /\ UNCHANGED <<denied, app>>
     \/ asked' = "none" /\ UNCHANGED <<denied, app>>
     \/ /\ asked' = "none"
        /\ Trying(app)
        /\ denied' = TRUE
        /\ app' = allpro_conn_start(app)
  /\ UNCHANGED <<work, link, air, paired, posted>>

\* a2dp_disconnected: the profiles are gone through again, or the attempt ends:
\* its wrapper is called with a retry count too high.
A2dpDown ==
  /\ link = "open" /\ ("A2DP" \in prof \/ asked = "A2DP")
  /\ prof' = prof \ {"A2DP"} /\ asked' = "none"
  /\ \/ app' = allpro_conn_start(app)
     \/ LET high == MaxRetry + 1
        IN  app' = CASE ~Trying(app) -> app
                     [] "RECONN" \in app.flags -> auto_connect_stop(app, TRUE)
                     [] app.flags \cap {"AUTO", "RECONN"} = {"AUTO"} ->
                          Schedule([app EXCEPT !.retry = high], "stop", 0)
  /\ UNCHANGED <<work, link, air, denied, paired, posted>>

AvrcpDown ==
  /\ link = "open" /\ "AVRCP" \in prof
  /\ prof' = prof \ {"AVRCP"}
  /\ UNCHANGED <<work, link, air, asked, denied, paired, app, posted>>

\* The first indication of an incoming call stops the timer, whatever it is for.
CallSetup ==
  /\ link = "open" /\ "HFP" \in prof
  /\ app' = Stopped(app)
  /\ UNCHANGED <<work, link, air, prof, asked, denied, paired, posted>>

\* The link is lost, or hung up by either side ("user").
LinkLost(r) ==
  /\ Linked
  /\ link' = "none" /\ air' = "idle" /\ prof' = {} /\ asked' = "none"
  /\ app' = disconn(app, r)
  /\ UNCHANGED <<work, denied, paired, posted>>

\* A link the host has freed its object of goes down unnoticed.
OrphanLost ==
  /\ link = "none" /\ air = "linked"
  /\ air' = "idle"
  /\ UNCHANGED <<work, link, prof, asked, denied, paired, app, posted>>

------------------------------------------------------------------------------
\* Keys, in Bluetooth mode, and the change of mode.

\* app_button_match_action; the hang-up is LinkLost("user").
KeyMatch ==
  /\ work = "on"
  /\ app' = IF Linked THEN [Abandon(app) EXCEPT !.flags = @ \cup {"MATCH_BUTTON"}]
                      ELSE [Abandon(app) EXCEPT !.scan = TRUE]
  /\ UNCHANGED <<work, link, air, prof, asked, denied, paired, posted>>

\* app_button_clear_memory.
KeyClear ==
  /\ work = "on"
  /\ paired' = FALSE
  /\ app' = [Abandon(app) EXCEPT !.flags = @ \cup (IF Linked THEN {"MATCH_BUTTON"} ELSE {})]
  /\ UNCHANGED <<work, link, air, prof, asked, denied, posted>>

\* app_button_conn_disconn; with a link it hangs up, LinkLost("user").
KeyConnect ==
  /\ work = "on" /\ ~Linked /\ paired
  /\ app' = auto_connect_start([app EXCEPT !.flags = @ \cup {"AUTO"}])
  /\ UNCHANGED <<work, link, air, prof, asked, denied, paired, posted>>

\* exit_work_mode; then pre_enter_mode_handle may clear the pool, or not yet.
\* The hang-up of a phone with profiles is LinkLost("user"), in the other mode.
Leave ==
  /\ work = "on"
  /\ work' = "off"
  /\ app' = [auto_connect_stop(Cleared(app), Linked) EXCEPT !.scan = FALSE]
  /\ posted' \in {posted, None}
  /\ UNCHANGED <<link, air, prof, asked, denied, paired>>

\* pre_enter_mode_handle and enter_work_mode: app_bt_acl_time_out_wrap stops the
\* timer - a callback it posted in the last turn before stays - and has the unit
\* disabled, which drops the links, and enabled.
Enter ==
  /\ work = "off"
  /\ work' = "enabling"
  /\ link' = "none" /\ air' = "idle" /\ prof' = {} /\ asked' = "none"
  /\ app' = [Stopped(app) EXCEPT !.flags = @ \cup {"AUTO"}, !.scan = FALSE]
  /\ posted' \in {posted, None}
  /\ UNCHANGED <<denied, paired>>

\* bt_set_class_complete: the unit is up.
EnableComplete ==
  /\ work = "enabling"
  /\ work' = "on"
  /\ app' = auto_connect_start([app EXCEPT !.scan = TRUE])
  /\ UNCHANGED <<link, air, prof, asked, denied, paired, posted>>

------------------------------------------------------------------------------
Dispatch ==
  \/ ReconnOver \/ ReconnPage \/ ReconnFree \/ Reconnect
  \/ ConnPage \/ ConnOver \/ AutoConn \/ Stop
  \/ \E p \in {"HFP", "A2DP"} : ActiveConn(p)
  \/ AutoConnOk

\* An event is handled while no callback is posted, or before it.
Overtake ==
  /\ posted = None \/ ahead > 0
  /\ ahead' = IF posted = None THEN 0 ELSE ahead - 1

PageEnds == (PageAnswered \/ PageTimeout) /\ Overtake

Event ==
  \/ PhoneConnects \/ Secured
  \/ \E p \in Profile : ProfileUp(p)
  \/ HfpDown \/ A2dpDown \/ AvrcpDown \/ CallSetup
  \/ \E r \in Reason : LinkLost(r)
  \/ OrphanLost
  \/ KeyMatch \/ KeyClear \/ KeyConnect
  \/ Leave \/ Enter \/ EnableComplete

Next == Expire \/ Dispatch \/ PageEnds \/ (Event /\ Overtake)

\* The timer interrupt, the main loop, and the controller's events.
Fairness ==
  WF_vars(Expire) /\ WF_vars(Dispatch) /\ WF_vars(PageEnds)
  /\ WF_vars(EnableComplete /\ Overtake)

Spec == Init /\ [][Next]_vars
FairSpec == Spec /\ Fairness

------------------------------------------------------------------------------
\* Nobody can connect - the device is not found, or refuses, being busy with an
\* attempt - and no step of its own will change that.
Deaf ==
  /\ work = "on" /\ link = "none" /\ air # "paging"
  /\ app.task = None /\ posted = None
  /\ app.scan => Trying(app)

\* A device without a link that has nothing scheduled lets a phone connect.
\* The code has these exceptions, and no other: a phone that goes away, for a
\* reason app_bt_disconn_wrap has no branch for, before its profiles are up; one
\* lost in the 200 ms between giving A2DP up and ending the automatic
\* connection; one lost while a pairing key is still pending that a mode change
\* overtook; and the memory cleared during an attempt, which neither switches
\* the scan on again nor leaves a phone to call.
OpenToPhoneWhenIdle ==
  Deaf =>
    \/ "RECONN" \in app.flags /\ app.reason = "other"
    \/ "AUTO" \in app.flags /\ app.retry > MaxRetry /\ app.reason # "user"
    \/ app.scan /\ app.reason # "user"
    \/ ~Trying(app) /\ ~paired

\* Calling the phone comes to an end, however pages, stale callbacks, freed
\* links and mode changes fall: with a link, with the flags cleared, or in one
\* of those exceptions; if the user does not press the key for it for ever.
AttemptEnds ==
  <>[][~KeyConnect]_vars => (Trying(app) ~> (~Trying(app) \/ Linked \/ Deaf))
==============================================================================
