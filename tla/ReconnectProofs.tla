--------------------------- MODULE ReconnectProofs ---------------------------
(***************************************************************************)
(* Theorems about Reconnect for every retry count: its types, for any      *)
(* number of events that overtake a callback, and that the device can be   *)
(* called when it is idle, for at most one.  With two it is not so: a      *)
(* callback that the pairing key and then the connect key overtake takes   *)
(* the timer from the attempt the second key has begun.                    *)
(***************************************************************************)
EXTENDS Reconnect, TLAPS

------------------------------------------------------------------------------
\* The inductive invariant.

\* The application's states.
App == [flags  : SUBSET {"AUTO", "RECONN", "MATCH_BUTTON"},
        scan   : BOOLEAN,
        retry  : 0 .. MaxRetry + 1,
        status : {"START", "STOP"},
        reason : Reason \cup {"none"},
        task   : Callback]

\* Where the host and the controller do agree about the link.
LinkAir ==
  /\ Linked => air = "linked"
  /\ link = "wait" => air = "paging"

\* Callback c was asked for by the attempt that is under way; a callback that
\* would page for a lost link may also find no attempt at all.
Asked(a, c) ==
  /\ c.func = "autoconn" => "AUTO" \in a.flags
  /\ c.func = "reconnect" => "RECONN" \in a.flags
  /\ c.func = "reconn" => "RECONN" \in a.flags \/ "AUTO" \notin a.flags

\* What the event that overtook c has left: the key for an attempt schedules it,
\* Bluetooth mode begins one when its unit is up, all the others that end one
\* leave nothing.
Overtaken(a, c) ==
  IF c.func = "reconn" THEN a.task.func = "conn" \/ work = "enabling"
                       ELSE ~Trying(a) /\ a.task = None

PostedOK == Asked(app, posted) \/ (ahead = 0 /\ Overtaken(app, posted))

\* Callback c ends or continues the attempt under way.
Works(a, c) ==
  \/ c.func = "stop"
  \/ c.func \in {"reconn", "reconnect"} /\ "RECONN" \in a.flags
  \/ c.func \in {"conn", "autoconn"} /\ "AUTO" \in a.flags

\* A phone can call, or this is one of the exceptions.
Settled(a, pd) ==
  \/ a.scan /\ ~Trying(a)
  \/ "RECONN" \in a.flags /\ a.reason = "other"
  \/ "AUTO" \in a.flags /\ a.retry > MaxRetry /\ a.reason # "user"
  \/ a.scan /\ a.reason # "user"
  \/ ~Trying(a) /\ ~pd

\* The unit is coming up: then the phone is called or the device listens.
Coming(a) == work = "enabling" /\ ("AUTO" \in a.flags \/ ~Trying(a))

Heard(a, pd) == Settled(a, pd) \/ Works(a, a.task) \/ Coming(a)

Listening == Bt /\ ~Linked => Heard(app, paired) \/ Works(app, posted)

IInv ==
  /\ TypeOK
  /\ LinkAir
  /\ Asked(app, app.task)
  /\ PostedOK
  /\ Listening

------------------------------------------------------------------------------
\* What the handlers leave of the application's state.

\* The attempt goes on, or is begun by scheduling it.
GoesOn(a, b) ==
  /\ a.flags \cap {"AUTO", "RECONN"} \subseteq b.flags
  /\ "AUTO" \in b.flags /\ "AUTO" \notin a.flags => b.task.func = "conn"

\* No attempt and nothing scheduled.
Ends(b) == ~Trying(b) /\ b.task = None

\* What holds of every event, whatever was scheduled before.
Handled(a, b) ==
  b \in App /\ (Asked(a, a.task) => Asked(b, b.task)) /\ (GoesOn(a, b) \/ Ends(b))

\* What TypeOK says of the application's state, under the name the lemmas use.
LEMMA AppType == TypeOK => app \in App /\ posted \in Callback
BY DEF TypeOK, App

\* The callbacks there are, and that a retry count below the limit may be
\* raised.
LEMMA Callbacks ==
  /\ None \in Callback /\ None.func = "none"
  /\ \A f \in Func, n \in 0 .. MaxRetry + 1 : [func |-> f, arg |-> n] \in Callback
  /\ \A c \in Callback : c # None => c.func \in Func /\ c.arg \in 0 .. MaxRetry + 1
  /\ {0, MaxRetry + 1} \subseteq 0 .. MaxRetry + 1
  /\ \A n \in 0 .. MaxRetry : n + 1 \in 0 .. MaxRetry + 1 /\ n \in 0 .. MaxRetry + 1
  BY ReconnectAssumption DEF ReconnectAssumption, None, Callback, Func

\* bt_auto_connect_stop leaves nothing to do, and opens the scan with no link.
LEMMA StopApp ==
  ASSUME NEW a \in App, NEW linked \in BOOLEAN
  PROVE  LET b == auto_connect_stop(a, linked)
         IN  /\ b \in App /\ Ends(b) /\ Asked(b, b.task)
             /\ ~linked /\ Bt => b.scan
<1> DEFINE free == ~linked /\ Bt
           s == IF Trying(a) THEN free ELSE a.scan \/ free
           b == [flags |-> a.flags \ {"AUTO", "RECONN"}, scan |-> s, retry |-> 0,
                 status |-> "STOP", reason |-> a.reason, task |-> None]
<1>1. auto_connect_stop(a, linked) = b
  <2> DEFINE c == Cleared(Stopped(a))
             t == IF Trying(a) THEN free ELSE c.scan \/ free
  <2>1. Stopped(a) = [flags |-> a.flags, scan |-> a.scan, retry |-> a.retry,
                      status |-> a.status, reason |-> a.reason, task |-> None]
    BY DEF App, Stopped
  <2>2. c = [flags |-> a.flags \ {"AUTO", "RECONN"}, scan |-> a.scan, retry |-> a.retry,
             status |-> a.status, reason |-> a.reason, task |-> None]
    BY <2>1 DEF Cleared
  <2>3. c.scan = a.scan
    BY <2>2
  <2>4. t = s
    BY <2>3
  <2>5. auto_connect_stop(a, linked) =
          [c EXCEPT !.retry = 0, !.status = "STOP", !.scan = t]
    BY DEF auto_connect_stop
  <2> HIDE DEF t, s, c
  <2> QED BY <2>2, <2>4, <2>5
<1>2. s \in BOOLEAN /\ (free => s)
  BY DEF App, Bt
<1> HIDE DEF s
<1>3. b \in App
  BY <1>2, Callbacks DEF App
<1>4. Ends(b) /\ Asked(b, b.task)
  BY Callbacks DEF Ends, Trying, Asked
<1>5. b.scan = s
  OBVIOUS
<1> QED BY <1>1, <1>2, <1>3, <1>4, <1>5

\* A schedule replaces the timer and nothing else.
LEMMA ScheduleApp ==
  ASSUME NEW a \in App, NEW f \in Func, NEW n \in 0 .. MaxRetry + 1
  PROVE  LET b == Schedule(a, f, n)
         IN  /\ b \in App /\ b.task = [func |-> f, arg |-> n]
             /\ b.flags = a.flags /\ b.scan = a.scan /\ b.retry = a.retry
             /\ b.status = a.status /\ b.reason = a.reason
BY Callbacks DEF App, Schedule

\* jtask_stop takes the timer away and nothing else.
LEMMA StoppedApp ==
  ASSUME NEW a \in App
  PROVE  LET b == Stopped(a)
         IN  /\ b \in App /\ b.task = None /\ Asked(b, b.task)
             /\ b.flags = a.flags /\ b.scan = a.scan /\ b.retry = a.retry
             /\ b.status = a.status /\ b.reason = a.reason
BY Callbacks DEF App, Stopped, Asked

\* A change that leaves the flags and the timer alone.
LEMMA SameApp ==
  ASSUME NEW a \in App, NEW b \in App,
         b.flags \cap {"AUTO", "RECONN"} = a.flags \cap {"AUTO", "RECONN"}, b.task = a.task
  PROVE  Handled(a, b)
BY DEF Handled, GoesOn, Asked

\* bt_allpro_conn_start goes on with the attempt, or leaves it alone.
LEMMA AllproApp ==
  ASSUME NEW a \in App
  PROVE  Handled(a, allpro_conn_start(a))
<1>1. CASE a.status = "START" /\ Trying(a)
  <2>1. allpro_conn_start(a) = Schedule(a, "profiles", 0)
    BY <1>1 DEF allpro_conn_start
  <2>2. "profiles" \in Func /\ 0 \in 0 .. MaxRetry + 1
    BY Callbacks DEF Func
  <2>3. /\ Schedule(a, "profiles", 0) \in App
        /\ Schedule(a, "profiles", 0).flags = a.flags
        /\ Schedule(a, "profiles", 0).task = [func |-> "profiles", arg |-> 0]
    BY <2>2, ScheduleApp
  <2> QED BY <2>1, <2>3 DEF Handled, GoesOn, Asked
<1>2. CASE ~(a.status = "START" /\ Trying(a))
  BY <1>2, SameApp DEF allpro_conn_start
<1> QED BY <1>1, <1>2

\* What a completed link does to the attempt.
LEMMA ConnComplApp ==
  ASSUME NEW a \in App
  PROVE  Handled(a, conn_compl(a))
<1>1. CASE ~Bt
  <2>1. conn_compl(a) = auto_connect_stop(a, TRUE)
    BY <1>1 DEF conn_compl
  <2> QED BY <2>1, StopApp DEF Handled
<1>2. CASE Bt /\ "RECONN" \in a.flags
  <2>1. conn_compl(a) = Stopped(a)
    BY <1>2 DEF conn_compl
  <2> QED BY <2>1, StoppedApp DEF Handled, GoesOn
<1>3. CASE Bt /\ "RECONN" \notin a.flags
  <2>1. conn_compl(a) = a
    BY <1>3 DEF conn_compl
  <2> QED BY <2>1, SameApp
<1> QED BY <1>1, <1>2, <1>3 DEF Bt

\* An attempt that is abandoned leaves neither its flags nor a timer.
LEMMA AbandonApp ==
  ASSUME NEW a \in App
  PROVE  LET b == Abandon(a)
         IN  /\ b \in App /\ b.scan = a.scan /\ b.retry = a.retry /\ b.status = a.status
             /\ b.reason = a.reason /\ b.flags = a.flags \ {"AUTO", "RECONN"}
             /\ IF Trying(a) THEN b.task = None ELSE b = a
             /\ ~Trying(b)
<1>1. CASE Trying(a)
  <2>1. Abandon(a) = Cleared(Stopped(a))
    BY <1>1 DEF Abandon
  <2>2. Stopped(a) = [flags |-> a.flags, scan |-> a.scan, retry |-> a.retry,
                      status |-> a.status, reason |-> a.reason, task |-> None]
    BY DEF App, Stopped
  <2>3. Abandon(a) = [flags |-> a.flags \ {"AUTO", "RECONN"}, scan |-> a.scan,
                      retry |-> a.retry, status |-> a.status, reason |-> a.reason,
                      task |-> None]
    BY <2>1, <2>2 DEF Cleared
  <2> QED BY <1>1, <2>3, Callbacks DEF App, Trying
<1>2. CASE ~Trying(a)
  BY <1>2 DEF Abandon, Trying
<1> QED BY <1>1, <1>2

\* What is to follow a loss.
LEMMA FollowApp ==
  ASSUME NEW a \in App, a.task = None, NEW r \in Reason, a.reason = r
  PROVE  LET b == Follow(a, r)
         IN  /\ b \in App /\ b.scan = a.scan /\ b.reason = r /\ Asked(b, b.task)
             /\ b.flags \in {a.flags, a.flags \cup {"RECONN"}}
             /\ \/ Works(b, b.task)
                \/ r # "user" /\ "MATCH_BUTTON" \in a.flags
                \/ r # "user" /\ "AUTO" \in b.flags /\ b.retry > MaxRetry
                \/ r = "other" /\ "AUTO" \notin b.flags
<1> DEFINE auto == "AUTO" \in a.flags
           match == "MATCH_BUTTON" \in a.flags
<1>1. CASE r = "user"
  <2>1. Follow(a, r) = Schedule(a, "stop", 0)
    BY <1>1 DEF Follow
  <2>2. "stop" \in Func /\ 0 \in 0 .. MaxRetry + 1
    BY Callbacks DEF Func
  <2>3. LET b == Schedule(a, "stop", 0)
        IN  /\ b \in App /\ b.task = [func |-> "stop", arg |-> 0]
            /\ b.flags = a.flags /\ b.scan = a.scan /\ b.reason = a.reason
    BY <2>2, ScheduleApp
  <2> QED BY <2>1, <2>3 DEF Works, Asked
<1>2. CASE r # "user" /\ match
  <2>1. Follow(a, r) = a
    BY <1>2 DEF Follow
  <2> QED BY <1>2, <2>1, Callbacks DEF Asked
<1>3. CASE r = "timeout" /\ ~match /\ ~auto
  <2> DEFINE c == [a EXCEPT !.flags = a.flags \cup {"RECONN"}]
  <2>1. Follow(a, r) = Schedule(c, "reconn", 0)
    BY <1>3 DEF Follow
  <2>2. /\ c \in App /\ c.flags = a.flags \cup {"RECONN"} /\ c.scan = a.scan
        /\ c.reason = a.reason
    BY DEF App
  <2>3. "reconn" \in Func /\ 0 \in 0 .. MaxRetry + 1
    BY Callbacks DEF Func
  <2> HIDE DEF c
  <2>4. LET b == Schedule(c, "reconn", 0)
        IN  /\ b \in App /\ b.task = [func |-> "reconn", arg |-> 0]
            /\ b.flags = c.flags /\ b.scan = c.scan /\ b.reason = c.reason
    BY <2>2, <2>3, ScheduleApp
  <2> QED BY <2>1, <2>2, <2>4 DEF Works, Asked
<1>4. CASE r # "user" /\ ~match /\ auto
  <2>1. CASE a.retry <= MaxRetry
    <3>1. Follow(a, r) = Schedule(a, "conn", a.retry)
      BY <1>4, <2>1 DEF Follow
    <3>2. "conn" \in Func /\ a.retry \in 0 .. MaxRetry + 1
      BY DEF Func, App
    <3>3. LET b == Schedule(a, "conn", a.retry)
          IN  /\ b \in App /\ b.task = [func |-> "conn", arg |-> a.retry]
              /\ b.flags = a.flags /\ b.scan = a.scan /\ b.reason = a.reason
      BY <3>2, ScheduleApp
    <3> QED BY <1>4, <3>1, <3>3 DEF Works, Asked
  <2>2. CASE ~(a.retry <= MaxRetry)
    <3>1. Follow(a, r) = [a EXCEPT !.status = "STOP"]
      BY <1>4, <2>2 DEF Follow
    <3>2. LET b == [a EXCEPT !.status = "STOP"]
          IN  /\ b \in App /\ b.task = a.task /\ b.flags = a.flags
              /\ b.scan = a.scan /\ b.reason = a.reason /\ b.retry = a.retry
      BY DEF App
    <3>3. a.retry > MaxRetry
      BY <2>2, ReconnectAssumption DEF App, ReconnectAssumption
    <3> QED BY <1>4, <3>1, <3>2, <3>3, Callbacks DEF Asked
  <2> QED BY <2>1, <2>2
<1>5. CASE r = "other" /\ ~match /\ ~auto
  <2>1. Follow(a, r) = a
    BY <1>5 DEF Follow
  <2> QED BY <1>5, <2>1, Callbacks DEF Asked
<1> QED BY <1>1, <1>2, <1>3, <1>4, <1>5 DEF Reason

\* A lost link: in Bluetooth mode an attempt follows, or the device can be
\* called, or one of the exceptions holds.
LEMMA DisconnApp ==
  ASSUME NEW a \in App, NEW r \in Reason, NEW pd
  PROVE  LET b == disconn(a, r)
         IN  Handled(a, b) /\ (Bt => Settled(b, pd) \/ Works(b, b.task))
<1> DEFINE c == [Stopped(a) EXCEPT !.reason = r]
           f == Follow(c, r)
           s == f.scan \/ "MATCH_BUTTON" \in a.flags \/ (Bt /\ ~Trying(f))
           b == disconn(a, r)
<1>1. c \in App /\ c.task = None /\ c.reason = r /\ c.flags = a.flags
  <2>1. Stopped(a) \in App /\ Stopped(a).task = None /\ Stopped(a).flags = a.flags
    BY StoppedApp
  <2> QED BY <2>1 DEF App
<1> HIDE DEF c
<1>2. /\ f \in App /\ f.reason = r /\ Asked(f, f.task)
      /\ f.flags \in {a.flags, a.flags \cup {"RECONN"}}
      /\ \/ Works(f, f.task)
         \/ r # "user" /\ "MATCH_BUTTON" \in a.flags
         \/ r # "user" /\ "AUTO" \in f.flags /\ f.retry > MaxRetry
         \/ r = "other" /\ "AUTO" \notin f.flags
  BY <1>1, FollowApp
<1>3. b = [f EXCEPT !.flags = f.flags \ {"MATCH_BUTTON"}, !.scan = s]
  BY DEF disconn, c
<1> HIDE DEF f
<1>4. s \in BOOLEAN
  <2>1. f.scan \in BOOLEAN
    BY <1>2 DEF App
  <2> QED BY <2>1 DEF Bt, Trying
<1>5. /\ "MATCH_BUTTON" \in a.flags => s
      /\ Bt /\ ~Trying(f) => s
  OBVIOUS
<1> HIDE DEF s
<1>6. b = [flags |-> f.flags \ {"MATCH_BUTTON"}, scan |-> s, retry |-> f.retry,
           status |-> f.status, reason |-> f.reason, task |-> f.task]
  BY <1>2, <1>3 DEF App
<1> HIDE DEF b
<1>7. b \in App
  BY <1>2, <1>4, <1>6 DEF App
<1>8. Asked(b, b.task)
  BY <1>2, <1>6 DEF Asked
<1>9. GoesOn(a, b)
  BY <1>2, <1>6 DEF GoesOn
<1>10. ASSUME Bt PROVE Settled(b, pd) \/ Works(b, b.task)
  <2>1. CASE Works(f, f.task)
    BY <1>6, <2>1 DEF Works
  <2>2. CASE r # "user" /\ "MATCH_BUTTON" \in a.flags
    <3>1. b.scan = s /\ b.reason = r /\ s
      BY <1>2, <1>5, <1>6, <2>2
    <3> QED BY <2>2, <3>1 DEF Settled
  <2>3. CASE r # "user" /\ "AUTO" \in f.flags /\ f.retry > MaxRetry
    BY <1>2, <1>6, <2>3 DEF Settled
  <2>4. CASE r = "other" /\ "AUTO" \notin f.flags
    <3>1. CASE "RECONN" \in f.flags
      BY <1>2, <1>6, <2>4, <3>1 DEF Settled
    <3>2. CASE ~Trying(f)
      BY <1>5, <1>6, <1>10, <3>2 DEF Settled, Trying
    <3> QED BY <2>4, <3>1, <3>2 DEF Trying
  <2> QED BY <1>2, <2>1, <2>2, <2>3, <2>4
<1> QED BY <1>7, <1>8, <1>9, <1>10 DEF Handled, b

\* An attempt is begun where it can be, and ended where it cannot.
LEMMA StartApp ==
  ASSUME TypeOK, NEW a \in App, NEW c \in App, c.task = a.task,
         c.flags \in {a.flags, a.flags \cup {"AUTO"}}, "AUTO" \in c.flags
  PROVE  LET b == auto_connect_start(c)
         IN  /\ Handled(a, b)
             /\ Bt /\ ~Linked => Settled(b, paired) \/ Works(b, b.task)
<1>1. CASE ~Bt \/ ~paired
  <2>1. auto_connect_start(c) = auto_connect_stop(c, Linked)
    BY <1>1 DEF auto_connect_start
  <2>2. Linked \in BOOLEAN
    BY DEF Linked
  <2> QED BY <2>1, <2>2, StopApp DEF Handled, Settled, Ends
<1>2. CASE Bt /\ paired
  <2> DEFINE d == Schedule(c, "conn", 0)
  <2>1. auto_connect_start(c) = [d EXCEPT !.status = "START"]
    BY <1>2 DEF auto_connect_start, TypeOK, Bt
  <2>2. "conn" \in Func /\ 0 \in 0 .. MaxRetry + 1
    BY Callbacks DEF Func
  <2>3. /\ d \in App /\ d.task = [func |-> "conn", arg |-> 0] /\ d.flags = c.flags
    BY <2>2, ScheduleApp
  <2> HIDE DEF d
  <2>4. LET b == [d EXCEPT !.status = "START"]
        IN  b \in App /\ b.task = d.task /\ b.flags = d.flags
    BY <2>3 DEF App
  <2> QED BY <2>1, <2>3, <2>4 DEF Handled, GoesOn, Asked, Works
<1> QED BY <1>1, <1>2

------------------------------------------------------------------------------
\* The steps of the phone, the controller and the user.

Unposted == posted' = None \/ posted' = posted

\* The count of events ahead stays bounded, and one is all that fits.
LEMMA OvertakeType ==
  ASSUME TypeOK, Overtake
  PROVE  /\ ahead' \in 0 .. MaxAhead
         /\ MaxAhead <= 1 /\ posted # None => ahead' = 0
BY ReconnectAssumption DEF ReconnectAssumption, TypeOK, Overtake

\* An event that handles the attempt leaves a posted callback asked for or
\* overtaken.
LEMMA PostedStep ==
  ASSUME MaxAhead <= 1, IInv, Overtake, Handled(app, app'), Unposted
  PROVE  PostedOK'
<1>1. CASE posted' = None
  BY <1>1, Callbacks DEF PostedOK, Asked
<1>2. CASE posted' = posted /\ posted # None
  <2>1. ahead' = 0 /\ ahead # 0
    BY <1>2, OvertakeType DEF IInv, TypeOK, Overtake
  <2>2. Asked(app, posted)
    BY <2>1 DEF IInv, PostedOK
  <2>3. \/ Asked(app', posted)
        \/ IF posted.func = "reconn" THEN app'.task.func = "conn" ELSE Ends(app')
    <3>1. CASE GoesOn(app, app')
      BY <2>2, <3>1 DEF GoesOn, Asked
    <3>2. CASE Ends(app')
      BY <2>2, <3>2 DEF Ends, Trying, Asked
    <3> QED BY <3>1, <3>2 DEF Handled
  <2> QED BY <1>2, <2>1, <2>3 DEF PostedOK, Overtaken, Ends, Trying
<1> QED BY <1>1, <1>2 DEF Unposted

\* What the page, the phone and the loss of a link leave.
LEMMA LinkEvents ==
  ASSUME TypeOK,
         \/ PageAnswered \/ PageTimeout \/ PhoneConnects \/ Secured
         \/ \E r \in Reason : LinkLost(r)
         \/ OrphanLost
  PROVE  Handled(app, app') /\ UNCHANGED <<work, posted>>
<1>1. app \in App
  BY AppType
<1>2. Handled(app, app) /\ Handled(app, conn_compl(app)) /\ Handled(app, allpro_conn_start(app))
  BY <1>1, SameApp, ConnComplApp, AllproApp
<1>3. CASE PageAnswered
  BY <1>2, <1>3 DEF PageAnswered, LinkUp
<1>4. CASE PageTimeout \/ OrphanLost
  BY <1>2, <1>4 DEF PageTimeout, OrphanLost
<1>5. CASE PhoneConnects
  BY <1>2, <1>5 DEF PhoneConnects, LinkUp
<1>6. CASE Secured
  BY <1>2, <1>6 DEF Secured
<1>7. ASSUME NEW r \in Reason, LinkLost(r)
      PROVE  Handled(app, app') /\ UNCHANGED <<work, posted>>
  <2>1. app' = disconn(app, r) /\ UNCHANGED <<work, posted>>
    BY <1>7 DEF LinkLost
  <2> QED BY <1>1, <2>1, DisconnApp
<1> QED BY <1>3, <1>4, <1>5, <1>6, <1>7

\* The profiles come and go on an open link.
LEMMA ProfileEvents ==
  ASSUME TypeOK,
         \/ \E p \in Profile : ProfileUp(p)
         \/ HfpDown \/ A2dpDown \/ AvrcpDown \/ CallSetup
  PROVE  Handled(app, app') /\ link = "open" /\ UNCHANGED <<work, link, air, posted>>
<1>1. app \in App
  BY AppType
<1>2. /\ Handled(app, app) /\ Handled(app, allpro_conn_start(app))
      /\ Handled(app, auto_connect_stop(app, TRUE)) /\ Handled(app, Stopped(app))
  BY <1>1, SameApp, AllproApp, StopApp, StoppedApp DEF Handled, GoesOn
<1>3. ASSUME NEW p \in Profile, ProfileUp(p) PROVE Handled(app, app')
  <2> DEFINE first == p # "AVRCP" /\ prof \cap {"HFP", "A2DP"} = {}
             next == \/ p = "AVRCP"
                     \/ p = "HFP" /\ ("A2DP" \in prof => "AVRCP" \in prof)
             why == IF p = "AVRCP" THEN app.reason ELSE "none"
             heard == app.scan /\ ~(first /\ ~Trying(app))
             b == [app EXCEPT !.reason = why, !.scan = heard]
  <2>1. app' = IF next THEN allpro_conn_start(b) ELSE b
    BY <1>3 DEF ProfileUp
  <2>2. why \in Reason \cup {"none"} /\ heard \in BOOLEAN
    BY <1>1 DEF App
  <2> HIDE DEF why, heard, next
  <2>3. b \in App /\ b.flags = app.flags /\ b.task = app.task
    BY <1>1, <2>2 DEF App
  <2> HIDE DEF b
  <2>4. Handled(b, b) /\ Handled(b, allpro_conn_start(b))
    BY <2>3, SameApp, AllproApp
  <2>5. Handled(b, app')
    BY <2>1, <2>4
  <2> QED BY <2>3, <2>5 DEF Handled, GoesOn, Asked
<1>4. CASE HfpDown
  BY <1>2, <1>4 DEF HfpDown
<1>5. ASSUME A2dpDown PROVE Handled(app, app')
  <2>1. CASE app' = allpro_conn_start(app)
    BY <1>2, <2>1
  <2>2. CASE ~Trying(app) /\ app' = app
    BY <1>2, <2>2
  <2>3. CASE Trying(app) /\ "RECONN" \in app.flags /\ app' = auto_connect_stop(app, TRUE)
    BY <1>2, <2>3
  <2>4. CASE app' = Schedule([app EXCEPT !.retry = MaxRetry + 1], "stop", 0)
    <3> DEFINE c == [app EXCEPT !.retry = MaxRetry + 1]
    <3>1. c \in App /\ c.flags = app.flags
      BY <1>1, Callbacks DEF App
    <3>2. "stop" \in Func /\ 0 \in 0 .. MaxRetry + 1
      BY Callbacks DEF Func
    <3> HIDE DEF c
    <3>3. LET b == Schedule(c, "stop", 0)
          IN  b \in App /\ b.flags = c.flags /\ b.task = [func |-> "stop", arg |-> 0]
      BY <3>1, <3>2, ScheduleApp
    <3> QED BY <2>4, <3>1, <3>3 DEF Handled, GoesOn, Asked, c
  <2>5. \/ ~Trying(app) \/ "RECONN" \in app.flags
        \/ app.flags \cap {"AUTO", "RECONN"} = {"AUTO"}
    BY DEF Trying
  <2> QED BY <1>5, <2>1, <2>2, <2>3, <2>4, <2>5 DEF A2dpDown, Trying
<1>6. CASE AvrcpDown
  BY <1>2, <1>6 DEF AvrcpDown
<1>7. CASE CallSetup
  BY <1>2, <1>7 DEF CallSetup
<1>8. link = "open" /\ UNCHANGED <<work, link, air, posted>>
  BY DEF ProfileUp, HfpDown, A2dpDown, AvrcpDown, CallSetup
<1> QED BY <1>3, <1>4, <1>5, <1>6, <1>7, <1>8

\* The keys.
LEMMA KeyEvents ==
  ASSUME TypeOK, KeyMatch \/ KeyClear \/ KeyConnect
  PROVE  /\ Handled(app, app') /\ UNCHANGED <<work, link, air, posted>>
         /\ ~Linked => Settled(app', paired') \/ Works(app', app'.task)
<1>1. app \in App
  BY AppType
<1> DEFINE z == Abandon(app)
<1>2. /\ z \in App /\ z.flags = app.flags \ {"AUTO", "RECONN"} /\ ~Trying(z)
      /\ IF Trying(app) THEN z.task = None ELSE z = app
  BY <1>1, AbandonApp
<1>3. CASE KeyMatch
  <2> DEFINE hung == [z EXCEPT !.flags = z.flags \cup {"MATCH_BUTTON"}]
             heard == [z EXCEPT !.scan = TRUE]
  <2>1. app' = IF Linked THEN hung ELSE heard
    BY <1>3 DEF KeyMatch
  <2> HIDE DEF z
  <2>2. /\ hung \in App /\ hung.flags = z.flags \cup {"MATCH_BUTTON"} /\ hung.task = z.task
        /\ heard \in App /\ heard.flags = z.flags /\ heard.task = z.task /\ heard.scan
    BY <1>2 DEF App
  <2> HIDE DEF hung, heard
  <2>3. ~Trying(hung) /\ ~Trying(heard)
    BY <1>2, <2>2 DEF Trying
  <2>4. Handled(app, hung) /\ Handled(app, heard)
    <3>1. CASE Trying(app)
      BY <1>2, <2>2, <2>3, <3>1, Callbacks DEF Handled, Ends, Asked
    <3>2. CASE ~Trying(app)
      BY <1>1, <1>2, <2>2, <3>2, SameApp
    <3> QED BY <3>1, <3>2
  <2>5. Settled(heard, paired')
    BY <2>2, <2>3 DEF Settled
  <2> QED BY <1>3, <2>1, <2>4, <2>5 DEF KeyMatch
<1>4. CASE KeyClear
  <2> DEFINE m == IF Linked THEN {"MATCH_BUTTON"} ELSE {}
             b == [z EXCEPT !.flags = z.flags \cup m]
  <2>1. app' = b /\ paired' = FALSE
    BY <1>4 DEF KeyClear
  <2>2. m \in SUBSET {"MATCH_BUTTON"}
    OBVIOUS
  <2>3. ~Linked => b = z
    BY <1>2 DEF App
  <2> HIDE DEF m, z
  <2>4. b \in App /\ b.flags = z.flags \cup m /\ b.task = z.task
    BY <1>2, <2>2 DEF App
  <2> HIDE DEF b
  <2>5. ~Trying(b)
    BY <1>2, <2>2, <2>4 DEF Trying
  <2>6. Handled(app, b)
    <3>1. CASE Trying(app)
      BY <1>2, <2>4, <2>5, <3>1, Callbacks DEF Handled, Ends, Asked
    <3>2. CASE ~Trying(app)
      BY <1>1, <1>2, <2>2, <2>4, <3>2, SameApp
    <3> QED BY <3>1, <3>2
  <2>7. Settled(b, FALSE)
    BY <2>5 DEF Settled
  <2> QED BY <1>4, <2>1, <2>6, <2>7 DEF KeyClear
<1>5. CASE KeyConnect
  <2> DEFINE c == [app EXCEPT !.flags = app.flags \cup {"AUTO"}]
  <2>1. app' = auto_connect_start(c) /\ UNCHANGED <<work, link, air, posted, paired>> /\ Bt
    BY <1>5 DEF KeyConnect, Bt
  <2>2. c \in App /\ c.flags = app.flags \cup {"AUTO"} /\ c.task = app.task
    BY <1>1 DEF App
  <2> HIDE DEF c
  <2>3. /\ Handled(app, auto_connect_start(c))
        /\ Bt /\ ~Linked => \/ Settled(auto_connect_start(c), paired)
                            \/ Works(auto_connect_start(c), auto_connect_start(c).task)
    BY <1>1, <2>2, StartApp
  <2> QED BY <2>1, <2>3
<1> QED BY <1>3, <1>4, <1>5

\* Leaving Bluetooth ends the attempt.
LEMMA LeaveEvent ==
  ASSUME TypeOK, Leave
  PROVE  Handled(app, app') /\ Unposted /\ work' = "off" /\ UNCHANGED <<link, air>>
<1> DEFINE c == Cleared(app)
           d == auto_connect_stop(c, Linked)
<1>1. app' = [d EXCEPT !.scan = FALSE]
  BY DEF Leave
<1>2. c \in App /\ Linked \in BOOLEAN
  BY AppType DEF App, Cleared, Linked
<1> HIDE DEF c
<1>3. d \in App /\ Ends(d) /\ Asked(d, d.task)
  BY <1>2, StopApp
<1> HIDE DEF d
<1>4. app' \in App /\ app'.flags = d.flags /\ app'.task = d.task
  BY <1>1, <1>3 DEF App
<1>5. Ends(app') /\ Asked(app', app'.task)
  BY <1>3, <1>4 DEF Ends, Trying, Asked
<1> QED BY <1>4, <1>5 DEF Handled, Leave, Unposted

\* Entering Bluetooth asks for the automatic connection and leaves what was
\* posted.
LEMMA EnterEvent ==
  ASSUME TypeOK, Enter
  PROVE  /\ app' \in App /\ app'.task = None /\ app'.flags = app.flags \cup {"AUTO"}
         /\ Unposted /\ work' = "enabling" /\ link' = "none" /\ air' = "idle"
<1> DEFINE c == Stopped(app)
<1>1. c \in App /\ c.task = None /\ c.flags = app.flags
  BY AppType, StoppedApp
<1>2. app' = [c EXCEPT !.flags = c.flags \cup {"AUTO"}, !.scan = FALSE]
  BY DEF Enter
<1> HIDE DEF c
<1>3. app' \in App /\ app'.task = None /\ app'.flags = app.flags \cup {"AUTO"}
  BY <1>1, <1>2 DEF App
<1> QED BY <1>3 DEF Enter, Unposted

\* What it leaves was asked for, or finds the attempt it has begun.
LEMMA EnterPosted ==
  ASSUME MaxAhead <= 1, IInv, Overtake, Enter
  PROVE  PostedOK'
<1>1. app'.flags = app.flags \cup {"AUTO"} /\ Unposted /\ work' = "enabling"
  BY EnterEvent DEF IInv
<1>2. CASE posted' = None
  BY <1>2, Callbacks DEF PostedOK, Asked
<1>3. CASE posted' = posted /\ posted # None
  <2>1. ahead' = 0 /\ ahead # 0
    BY <1>3, OvertakeType DEF IInv, TypeOK, Overtake
  <2>2. Asked(app, posted)
    BY <2>1 DEF IInv, PostedOK
  <2>3. Asked(app', posted) \/ posted.func = "reconn"
    BY <1>1, <2>2 DEF Asked
  <2> QED BY <1>1, <1>3, <2>1, <2>3 DEF PostedOK, Overtaken
<1> QED BY <1>1, <1>2, <1>3 DEF Unposted

\* With the unit up, the phone is called or the device listens.
LEMMA EnableEvent ==
  ASSUME TypeOK, EnableComplete
  PROVE  /\ Handled(app, app') /\ UNCHANGED <<link, air, posted, paired>> /\ work' = "on"
         /\ ~Linked /\ Listening =>
              Settled(app', paired) \/ Works(app', app'.task) \/ Works(app', posted)
<1> DEFINE c == [app EXCEPT !.scan = TRUE]
<1>1. /\ app' = auto_connect_start(c) /\ Bt /\ work' = "on"
      /\ UNCHANGED <<link, air, posted, paired>>
  BY DEF EnableComplete, Bt
<1>2. /\ app \in App /\ c \in App /\ c.flags = app.flags /\ c.task = app.task /\ c.scan
      /\ c.retry = app.retry /\ c.reason = app.reason
  BY AppType DEF App
<1> HIDE DEF c
<1>3. CASE "AUTO" \in app.flags
  <2>1. /\ Handled(app, auto_connect_start(c))
        /\ ~Linked => \/ Settled(auto_connect_start(c), paired)
                      \/ Works(auto_connect_start(c), auto_connect_start(c).task)
    BY <1>1, <1>2, <1>3, StartApp
  <2> QED BY <1>1, <2>1
<1>4. CASE "AUTO" \notin app.flags /\ ~paired
  <2>1. app' = auto_connect_stop(c, Linked) /\ Linked \in BOOLEAN
    BY <1>1, <1>4 DEF auto_connect_start, Linked
  <2>2. app' \in App /\ Ends(app') /\ Asked(app', app'.task)
    BY <1>2, <2>1, StopApp
  <2>3. Settled(app', paired)
    BY <1>4, <2>2 DEF Settled, Ends
  <2> QED BY <1>1, <2>2, <2>3 DEF Handled
<1>5. CASE "AUTO" \notin app.flags /\ paired
  <2>1. app' = c
    BY <1>1, <1>2, <1>5 DEF auto_connect_start
  <2>2. Handled(app, app')
    BY <1>2, <2>1, SameApp
  <2>3. ASSUME ~Linked, Listening
        PROVE  Settled(c, paired) \/ Works(c, c.task) \/ Works(c, posted)
    <3>1. Settled(app, paired) \/ Works(app, app.task) \/ Works(app, posted) \/ ~Trying(app)
      BY <1>1, <1>5, <2>3 DEF Listening, Heard, Coming
    <3> QED BY <1>2, <3>1 DEF Settled, Works, Trying
  <2> QED BY <1>1, <2>1, <2>2, <2>3
<1> QED BY <1>3, <1>4, <1>5 DEF TypeOK

------------------------------------------------------------------------------
\* The callbacks.

\* What a callback leaves: a state of the application, and, where the invariant
\* held, no more than the attempt under way asks for, and a device that listens.
Ran ==
  /\ app' \in App
  /\ IInv => Asked(app', app'.task)
  /\ IInv /\ Bt /\ ~Linked' => Heard(app', paired')

\* The callback that runs is the one that was posted.
LEMMA TakeType ==
  ASSUME TypeOK, NEW f \in Func, Take(f)
  PROVE  posted # None /\ posted.func = f /\ posted.arg \in 0 .. MaxRetry + 1
BY Callbacks DEF TypeOK, Take, Func

\* Paging does not make a link by itself.
LEMMA ConnectLink == acl_connect => (Linked' <=> Linked)
BY DEF acl_connect, Linked

\* The callbacks of a reconnection after a loss.
LEMMA ReconnCallbacks ==
  ASSUME TypeOK, ReconnOver \/ ReconnPage \/ ReconnFree \/ Reconnect
  PROVE  Ran
<1>1. app \in App
  BY AppType
<1> DEFINE n == posted.arg
           a == [app EXCEPT !.retry = n]
<1>2. /\ {"reconn", "reconnect"} \subseteq Func
      /\ n \in 0 .. MaxRetry + 1 /\ posted.func \in {"reconn", "reconnect"}
  <2>1. {"reconn", "reconnect"} \subseteq Func
    BY DEF Func
  <2> QED BY <2>1, TakeType DEF ReconnOver, ReconnPage, ReconnFree, Reconnect
<1>3. /\ a \in App /\ a.flags = app.flags /\ a.task = app.task /\ a.scan = app.scan
      /\ a.reason = app.reason
  BY <1>1, <1>2 DEF App
<1>4. IInv => Asked(a, a.task)
  BY <1>3 DEF IInv, Asked
<1>5. CASE ReconnOver
  <2>0. /\ app' = CASE "RECONN" \notin a.flags -> a
                    [] "RECONN" \in a.flags /\ ~Bt ->
                         auto_connect_stop([a EXCEPT !.flags = a.flags \ {"RECONN"}], Linked)
                    [] "RECONN" \in a.flags /\ Bt /\ n > MaxRetry ->
                         auto_connect_stop(a, Linked)
                    [] OTHER -> a
        /\ "RECONN" \in app.flags /\ Bt /\ n <= MaxRetry => link = "open"
        /\ posted.func = "reconn" /\ UNCHANGED <<link, paired>>
    BY <1>5 DEF ReconnOver, Take
  <2> HIDE DEF a
  <2>1. CASE "RECONN" \notin app.flags
    <3>1. app' = a
      BY <1>3, <2>0, <2>1
    <3>2. ASSUME IInv, Bt, ~Linked PROVE Heard(a, paired)
      <4>1. Heard(app, paired)
        BY <2>0, <2>1, <3>2 DEF IInv, Listening, Works
      <4>2. CASE "AUTO" \in app.flags
        <5>1. app.task.func = "conn" \/ work = "enabling"
          BY <2>0, <2>1, <3>2, <4>2 DEF IInv, PostedOK, Asked, Overtaken
        <5> QED BY <1>3, <4>2, <5>1 DEF Heard, Works, Coming
      <4>3. CASE "AUTO" \notin app.flags
        BY <1>3, <4>1, <4>3 DEF Heard, Settled, Works, Coming, Trying
      <4> QED BY <4>2, <4>3
    <3> QED BY <1>3, <1>4, <2>0, <3>1, <3>2 DEF Ran, Linked
  <2>2. CASE "RECONN" \in app.flags /\ ~Bt
    <3> DEFINE c == [a EXCEPT !.flags = a.flags \ {"RECONN"}]
    <3>1. app' = auto_connect_stop(c, Linked)
      BY <1>3, <2>0, <2>2
    <3>2. c \in App /\ Linked \in BOOLEAN
      BY <1>3 DEF App, Linked
    <3> HIDE DEF c
    <3>3. app' \in App /\ Asked(app', app'.task)
      BY <3>1, <3>2, StopApp
    <3> QED BY <2>2, <3>3 DEF Ran, Bt
  <2>3. CASE "RECONN" \in app.flags /\ Bt /\ n > MaxRetry
    <3>1. app' = auto_connect_stop(a, Linked)
      BY <1>3, <2>0, <2>3
    <3>2. Linked \in BOOLEAN
      BY DEF Linked
    <3>3. /\ app' \in App /\ Asked(app', app'.task) /\ Ends(app')
          /\ ~Linked => app'.scan
      BY <1>3, <2>3, <3>1, <3>2, StopApp
    <3> QED BY <2>0, <3>3 DEF Ran, Heard, Settled, Ends, Linked
  <2>4. CASE "RECONN" \in app.flags /\ Bt /\ ~(n > MaxRetry)
    <3>1. app' = a
      BY <1>3, <2>0, <2>4
    <3>2. n <= MaxRetry
      BY <1>2, <2>4, ReconnectAssumption DEF ReconnectAssumption
    <3>3. link' = "open"
      BY <2>0, <2>4, <3>2
    <3> QED BY <1>3, <1>4, <3>1, <3>3 DEF Ran, Linked
  <2> QED BY <2>1, <2>2, <2>3, <2>4
<1>6. CASE ReconnPage
  <2> DEFINE m == n + 1
             c == [app EXCEPT !.retry = m, !.scan = FALSE, !.status = "START"]
  <2>1. app' = Schedule(c, "reconnect", m) /\ "RECONN" \in app.flags
    BY <1>6 DEF ReconnPage
  <2>2. m \in 0 .. MaxRetry + 1
    BY <1>2, <1>6, ReconnectAssumption DEF ReconnectAssumption, ReconnPage
  <2> HIDE DEF m
  <2>3. c \in App /\ c.flags = app.flags
    BY <1>1, <2>2 DEF App
  <2> HIDE DEF c
  <2>4. app' \in App /\ app'.flags = app.flags /\ app'.task = [func |-> "reconnect", arg |-> m]
    BY <1>2, <2>1, <2>2, <2>3, ScheduleApp
  <2> QED BY <2>1, <2>4 DEF Ran, Asked, Heard, Works
<1>7. CASE ReconnFree
  <2>1. app' = Schedule(a, "reconnect", n) /\ "RECONN" \in app.flags
    BY <1>7 DEF ReconnFree
  <2> HIDE DEF n, a
  <2>2. app' \in App /\ app'.flags = app.flags /\ app'.task = [func |-> "reconnect", arg |-> n]
    BY <1>2, <1>3, <2>1, ScheduleApp
  <2> QED BY <2>1, <2>2 DEF Ran, Asked, Heard, Works
<1>8. CASE Reconnect
  <2>1. app' = Schedule(app, "reconn", n) /\ posted.func = "reconnect"
        /\ UNCHANGED <<link, paired>>
    BY <1>8 DEF Reconnect, Take
  <2> HIDE DEF n
  <2>2. /\ app' \in App /\ app'.flags = app.flags /\ app'.task = [func |-> "reconn", arg |-> n]
        /\ app'.scan = app.scan /\ app'.reason = app.reason /\ app'.retry = app.retry
    BY <1>1, <1>2, <2>1, ScheduleApp
  <2>3. CASE "RECONN" \in app.flags
    BY <2>2, <2>3 DEF Ran, Asked, Heard, Works
  <2>4. CASE "RECONN" \notin app.flags
    <3> SUFFICES ASSUME IInv
                 PROVE  /\ Asked(app', app'.task)
                        /\ Bt /\ ~Linked => Settled(app', paired) \/ Coming(app')
      BY <2>1, <2>2 DEF Ran, Heard, Linked
    <3>1. ~Trying(app) /\ app.task = None
      BY <2>1, <2>4 DEF IInv, PostedOK, Asked, Overtaken
    <3>2. Asked(app', app'.task)
      BY <2>2, <3>1 DEF Asked, Trying
    <3>3. ASSUME Bt, ~Linked PROVE Settled(app, paired) \/ Coming(app)
      BY <2>1, <2>4, <3>1, <3>3, Callbacks DEF IInv, Listening, Heard, Works
    <3> QED BY <2>2, <3>2, <3>3 DEF Settled, Coming, Trying
  <2> QED BY <2>3, <2>4
<1> QED BY <1>5, <1>6, <1>7, <1>8

\* The callbacks of the automatic connection.
LEMMA ConnCallbacks ==
  ASSUME TypeOK, ConnPage \/ ConnOver \/ AutoConn
  PROVE  Ran
<1>1. app \in App
  BY AppType
<1> DEFINE n == posted.arg
           a == [app EXCEPT !.retry = n]
<1>2. /\ {"conn", "autoconn", "stop"} \subseteq Func
      /\ n \in 0 .. MaxRetry + 1 /\ posted.func \in {"conn", "autoconn"}
      /\ 0 \in 0 .. MaxRetry + 1
  <2>1. {"conn", "autoconn", "stop"} \subseteq Func
    BY DEF Func
  <2> QED BY <2>1, TakeType, Callbacks DEF ConnPage, ConnOver, AutoConn
<1>3. /\ a \in App /\ a.flags = app.flags /\ a.task = app.task /\ a.scan = app.scan
      /\ a.reason = app.reason
  BY <1>1, <1>2 DEF App
<1>4. IInv => Asked(a, a.task)
  BY <1>3 DEF IInv, Asked
<1>5. CASE ConnPage
  <2> DEFINE m == n + 1
             c == [app EXCEPT !.retry = m, !.scan = FALSE]
  <2>1. app' = Schedule(c, "autoconn", m) /\ "AUTO" \in app.flags
    BY <1>5 DEF ConnPage
  <2>2. m \in 0 .. MaxRetry + 1
    BY <1>2, <1>5, ReconnectAssumption DEF ReconnectAssumption, ConnPage
  <2> HIDE DEF m
  <2>3. c \in App /\ c.flags = app.flags
    BY <1>1, <2>2 DEF App
  <2> HIDE DEF c
  <2>4. app' \in App /\ app'.flags = app.flags /\ app'.task = [func |-> "autoconn", arg |-> m]
    BY <1>2, <2>1, <2>2, <2>3, ScheduleApp
  <2> QED BY <2>1, <2>4 DEF Ran, Asked, Heard, Works
<1>6. CASE ConnOver
  <2> DEFINE more == n < MaxRetry /\ paired
  <2>0. /\ app' = CASE "AUTO" \notin a.flags      -> a
                    [] "AUTO" \in a.flags /\ more  -> auto_connect_stop(a, TRUE)
                    [] "AUTO" \in a.flags /\ ~more -> Schedule(a, "stop", 0)
        /\ "AUTO" \in a.flags /\ more => Linked
        /\ posted.func = "conn" /\ UNCHANGED <<link, paired>>
    BY <1>6 DEF ConnOver, Take
  <2> HIDE DEF a, more
  <2>1. CASE "AUTO" \notin app.flags
    <3>1. app' = a
      BY <1>3, <2>0, <2>1
    <3>2. ASSUME IInv, Bt, ~Linked PROVE Heard(a, paired)
      <4>1. Heard(app, paired)
        BY <2>0, <2>1, <3>2 DEF IInv, Listening, Works
      <4> QED BY <1>3, <2>1, <4>1 DEF Heard, Settled, Works, Coming, Trying
    <3> QED BY <1>3, <1>4, <2>0, <3>1, <3>2 DEF Ran, Linked
  <2>2. CASE "AUTO" \in app.flags /\ more
    <3>1. app' = auto_connect_stop(a, TRUE) /\ Linked
      BY <1>3, <2>0, <2>2
    <3>2. app' \in App /\ Asked(app', app'.task)
      BY <1>3, <3>1, StopApp
    <3> QED BY <2>0, <3>1, <3>2 DEF Ran, Linked
  <2>3. CASE "AUTO" \in app.flags /\ ~more
    <3>1. app' = Schedule(a, "stop", 0)
      BY <1>3, <2>0, <2>3
    <3>2. app' \in App /\ app'.task = [func |-> "stop", arg |-> 0]
      BY <1>2, <1>3, <3>1, ScheduleApp
    <3> QED BY <3>2 DEF Ran, Asked, Heard, Works
  <2> QED BY <2>1, <2>2, <2>3
<1>7. CASE AutoConn
  <2>1. /\ app' = Schedule(a, "conn", n) /\ posted.func = "autoconn"
        /\ UNCHANGED <<link, paired>>
    BY <1>7 DEF AutoConn, Take
  <2> HIDE DEF n, a
  <2>2. /\ app' \in App /\ app'.flags = app.flags /\ app'.task = [func |-> "conn", arg |-> n]
        /\ app'.scan = app.scan /\ app'.reason = app.reason
    BY <1>2, <1>3, <2>1, ScheduleApp
  <2>3. Asked(app', app'.task)
    BY <2>2 DEF Asked
  <2>4. CASE "AUTO" \in app.flags
    BY <2>2, <2>3, <2>4 DEF Ran, Heard, Works
  <2>5. CASE "AUTO" \notin app.flags
    <3> SUFFICES ASSUME IInv, Bt, ~Linked PROVE Settled(app', paired) \/ Coming(app')
      BY <2>1, <2>2, <2>3 DEF Ran, Heard, Linked
    <3>1. ~Trying(app) /\ app.task = None
      BY <2>1, <2>5 DEF IInv, PostedOK, Asked, Overtaken
    <3>2. Settled(app, paired) \/ Coming(app)
      BY <2>1, <2>5, <3>1, Callbacks DEF IInv, Listening, Heard, Works
    <3> QED BY <2>2, <2>5, <3>1, <3>2 DEF Settled, Coming, Trying
  <2> QED BY <2>4, <2>5
<1> QED BY <1>5, <1>6, <1>7

\* The callbacks that end an attempt or open its profiles.
LEMMA OtherCallbacks ==
  ASSUME TypeOK, Stop \/ (\E p \in {"HFP", "A2DP"} : ActiveConn(p)) \/ AutoConnOk
  PROVE  Ran
<1>1. app \in App /\ Linked \in BOOLEAN
  BY AppType DEF Linked
<1>2. CASE Stop \/ AutoConnOk
  <2>1. PICK a \in App : app' = auto_connect_stop(a, Linked)
    <3>1. CASE Stop
      BY <1>1, <3>1 DEF Stop
    <3>2. CASE AutoConnOk
      <4>1. Cleared(app) \in App
        BY <1>1 DEF App, Cleared
      <4> QED BY <3>2, <4>1 DEF AutoConnOk
    <3> QED BY <1>2, <3>1, <3>2
  <2>2. /\ app' \in App /\ Asked(app', app'.task) /\ Ends(app')
        /\ ~Linked /\ Bt => app'.scan
    BY <1>1, <2>1, StopApp
  <2>3. Linked' <=> Linked
    BY <1>2 DEF Stop, AutoConnOk, Linked
  <2> QED BY <2>2, <2>3 DEF Ran, Heard, Settled, Ends
<1>3. ASSUME NEW p \in {"HFP", "A2DP"}, ActiveConn(p) PROVE Ran
  <2>1. app' = app /\ paired' = paired /\ posted.func = "profiles"
    BY <1>3 DEF ActiveConn, Take
  <2>2. Linked' <=> Linked
    BY <1>3, ConnectLink DEF ActiveConn
  <2> QED BY <1>1, <2>1, <2>2 DEF Ran, IInv, Listening, Heard, Coming, Works
<1> QED BY <1>2, <1>3

\* Whatever was posted, the main loop's dispatch of it is a run of a callback.
LEMMA CallbackRuns ==
  ASSUME TypeOK, Dispatch
  PROVE  /\ Ran /\ posted' = None /\ ahead' = 0 /\ work' = work
         /\ posted # None
         /\ LinkAir => LinkAir'
<1>1. Ran
  BY ReconnCallbacks, ConnCallbacks, OtherCallbacks DEF Dispatch
<1>2. /\ posted' = None /\ ahead' = 0 /\ work' = work
      /\ acl_connect \/ UNCHANGED <<link, air>> \/ (link' = "none" /\ air' = air)
  BY DEF Dispatch, ReconnOver, ReconnPage, ReconnFree, Reconnect, ConnPage, ConnOver,
         AutoConn, Stop, ActiveConn, AutoConnOk, Take
<1>3. posted # None
  BY Callbacks DEF Dispatch, ReconnOver, ReconnPage, ReconnFree, Reconnect, ConnPage,
                   ConnOver, AutoConn, Stop, ActiveConn, AutoConnOk, Take
<1>4. LinkAir => LinkAir'
  BY <1>2 DEF acl_connect, LinkAir, Linked
<1> QED BY <1>1, <1>2, <1>3, <1>4

------------------------------------------------------------------------------
\* The types.

\* The types hold at power-on.
LEMMA InitType == Init => TypeOK
<1> SUFFICES ASSUME Init PROVE TypeOK
  OBVIOUS
<1>1. 0 \in 0 .. MaxRetry + 1 /\ ahead \in 0 .. MaxAhead /\ None \in Callback
  BY Callbacks, ReconnectAssumption DEF ReconnectAssumption, Init
<1>2. app \in [flags  : SUBSET {"AUTO", "RECONN", "MATCH_BUTTON"},
              scan   : BOOLEAN,
              retry  : 0 .. MaxRetry + 1,
              status : {"START", "STOP"},
              reason : Reason \cup {"none"},
              task   : Callback]
  BY <1>1 DEF Init
<1>3. /\ work \in {"off", "enabling", "on"} /\ link \in {"none", "wait", "busy", "open"}
      /\ air \in {"idle", "paging", "linked"} /\ posted \in Callback
  BY <1>1 DEF Init
<1>4. /\ prof \subseteq Profile /\ asked \in {"none", "HFP", "A2DP"}
      /\ denied \in BOOLEAN /\ paired \in BOOLEAN
  BY DEF Init
<1> QED BY <1>1, <1>2, <1>3, <1>4 DEF TypeOK

\* Every step keeps the types.
LEMMA TypeStep ==
  ASSUME TypeOK, [Next]_vars
  PROVE  TypeOK'
<1> DEFINE Rest == /\ work' \in {"off", "enabling", "on"}
                   /\ link' \in {"none", "wait", "busy", "open"}
                   /\ air' \in {"idle", "paging", "linked"}
                   /\ prof' \subseteq Profile /\ asked' \in {"none", "HFP", "A2DP"}
                   /\ denied' \in BOOLEAN /\ paired' \in BOOLEAN
<1>0. /\ work \in {"off", "enabling", "on"}
      /\ link \in {"none", "wait", "busy", "open"}
      /\ air \in {"idle", "paging", "linked"}
      /\ prof \subseteq Profile /\ asked \in {"none", "HFP", "A2DP"}
      /\ denied \in BOOLEAN /\ paired \in BOOLEAN
  BY DEF TypeOK
<1>1. ASSUME Rest, app' \in App, posted' \in Callback, ahead' \in 0 .. MaxAhead
      PROVE  TypeOK'
  BY <1>1 DEF TypeOK, App
<1>2. /\ app \in App /\ posted \in Callback /\ None \in Callback
      /\ 0 \in 0 .. MaxAhead /\ MaxAhead \in 0 .. MaxAhead
  BY AppType, Callbacks, ReconnectAssumption DEF ReconnectAssumption
<1>3. CASE Expire
  <2>1. Stopped(app) \in App /\ app.task \in Callback
    BY <1>2, StoppedApp DEF App
  <2>2. Rest
    BY <1>3 DEF Expire, TypeOK
  <2> HIDE DEF Rest
  <2> QED BY <1>1, <1>2, <1>3, <2>1, <2>2 DEF Expire
<1>4. CASE Dispatch
  <2>1. Rest
    <3>1. CASE ReconnOver \/ ReconnPage \/ ReconnFree \/ Reconnect
      BY <1>0, <3>1 DEF ReconnOver, ReconnPage, ReconnFree, Reconnect, acl_connect
    <3>2. CASE ConnPage \/ ConnOver \/ AutoConn \/ Stop
      BY <1>0, <3>2 DEF ConnPage, ConnOver, AutoConn, Stop, acl_connect
    <3>3. CASE \E p \in {"HFP", "A2DP"} : ActiveConn(p)
      <4>1. asked' \in {"HFP", "A2DP"} /\ denied' = (denied /\ asked' = "HFP")
        BY <3>3 DEF ActiveConn
      <4>2. acl_connect /\ UNCHANGED <<work, prof, paired>>
        BY <3>3 DEF ActiveConn
      <4> QED BY <1>0, <4>1, <4>2 DEF acl_connect
    <3>4. CASE AutoConnOk
      BY <1>0, <3>4 DEF AutoConnOk
    <3> QED BY <1>4, <3>1, <3>2, <3>3, <3>4 DEF Dispatch
  <2> HIDE DEF Rest
  <2> QED BY <1>1, <1>2, <1>4, <2>1, CallbackRuns DEF Ran
<1>5. CASE PageEnds
  <2>1. Rest
    BY <1>5 DEF PageEnds, PageAnswered, PageTimeout, LinkUp, TypeOK
  <2> HIDE DEF Rest
  <2> QED BY <1>1, <1>2, <1>5, <2>1, LinkEvents, OvertakeType DEF PageEnds, Handled
<1>6. CASE Event /\ Overtake
  <2>1. Rest
    <3>1. CASE PhoneConnects \/ Secured \/ (\E r \in Reason : LinkLost(r)) \/ OrphanLost
      BY <1>0, <3>1 DEF PhoneConnects, Secured, LinkLost, OrphanLost, LinkUp
    <3>2. CASE \/ \E p \in Profile : ProfileUp(p)
               \/ HfpDown \/ A2dpDown \/ AvrcpDown \/ CallSetup
      <4>1. ASSUME NEW p \in Profile, ProfileUp(p) PROVE Rest
        BY <1>0, <4>1 DEF ProfileUp
      <4>2. CASE HfpDown
        BY <1>0, <4>2 DEF HfpDown
      <4>3. CASE A2dpDown \/ AvrcpDown \/ CallSetup
        BY <1>0, <4>3 DEF A2dpDown, AvrcpDown, CallSetup
      <4> HIDE DEF Rest
      <4> QED BY <3>2, <4>1, <4>2, <4>3
    <3>3. CASE KeyMatch \/ KeyClear \/ KeyConnect
      BY <1>0, <3>3 DEF KeyMatch, KeyClear, KeyConnect
    <3>4. CASE Leave \/ Enter \/ EnableComplete
      BY <1>0, <3>4 DEF Leave, Enter, EnableComplete
    <3> QED BY <1>6, <3>1, <3>2, <3>3, <3>4 DEF Event
  <2>2. app' \in App /\ posted' \in Callback
    <3>1. CASE PhoneConnects \/ Secured \/ (\E r \in Reason : LinkLost(r)) \/ OrphanLost
      BY <1>2, <3>1, LinkEvents DEF Handled
    <3>2. CASE \/ \E p \in Profile : ProfileUp(p)
               \/ HfpDown \/ A2dpDown \/ AvrcpDown \/ CallSetup
      BY <1>2, <3>2, ProfileEvents DEF Handled
    <3>3. CASE KeyMatch \/ KeyClear \/ KeyConnect
      BY <1>2, <3>3, KeyEvents DEF Handled
    <3>4. CASE Leave
      BY <1>2, <3>4, LeaveEvent DEF Handled, Unposted
    <3>5. CASE Enter
      BY <1>2, <3>5, EnterEvent DEF Unposted
    <3>6. CASE EnableComplete
      <4> DEFINE c == [app EXCEPT !.scan = TRUE]
      <4>1. app' = auto_connect_start(c) /\ posted' = posted
        BY <3>6 DEF EnableComplete
      <4>2. c \in App /\ c.flags = app.flags /\ c.task = app.task
        BY <1>2 DEF App
      <4> HIDE DEF c
      <4>3. auto_connect_start(c) \in App
        <5>1. CASE ~Bt \/ ~paired \/ "AUTO" \in c.flags
          <6>1. Linked \in BOOLEAN
            BY DEF Linked
          <6> QED BY <1>2, <4>2, <5>1, <6>1, StartApp, StopApp DEF auto_connect_start, Handled
        <5>2. CASE Bt /\ paired /\ "AUTO" \notin c.flags
          BY <4>2, <5>2 DEF auto_connect_start
        <5> QED BY <5>1, <5>2 DEF TypeOK, Bt
      <4> QED BY <1>2, <4>1, <4>3
    <3> QED BY <1>6, <3>1, <3>2, <3>3, <3>4, <3>5, <3>6 DEF Event
  <2> HIDE DEF Rest
  <2> QED BY <1>1, <1>6, <2>1, <2>2, OvertakeType
<1>7. CASE UNCHANGED vars
  BY <1>7 DEF vars, TypeOK
<1> QED BY <1>3, <1>4, <1>5, <1>6, <1>7 DEF Next

\* Whatever overtakes its callbacks, the application's state keeps its types: no
\* retry count leaves its range.
THEOREM TypeCorrect == Spec => []TypeOK
<1>1. Init => TypeOK
  BY InitType
<1> QED BY <1>1, TypeStep, PTL DEF Spec

------------------------------------------------------------------------------
\* The device listens, with at most one event ahead of a callback.

\* Every event of the phone, the host, a key or a mode keeps the other parts.
LEMMA EventStep ==
  ASSUME MaxAhead <= 1, IInv, PageEnds \/ (Event /\ Overtake)
  PROVE  LinkAir' /\ Asked(app', app'.task) /\ PostedOK' /\ Listening'
<1>1. TypeOK /\ LinkAir /\ Asked(app, app.task) /\ Overtake
  BY DEF IInv, PageEnds
<1>2. CASE \/ PageAnswered \/ PageTimeout \/ PhoneConnects \/ Secured
           \/ \E r \in Reason : LinkLost(r)
           \/ OrphanLost
  <2>1. Handled(app, app') /\ UNCHANGED <<work, posted>>
    BY <1>1, <1>2, LinkEvents
  <2>2. PostedOK'
    BY <1>1, <2>1, PostedStep DEF Unposted
  <2>3. LinkAir'
    BY <1>1, <1>2 DEF LinkAir, Linked, PageAnswered, PageTimeout, PhoneConnects, Secured,
                      LinkLost, OrphanLost, LinkUp
  <2>4. Listening'
    <3>1. CASE PageAnswered \/ PhoneConnects \/ Secured \/ PageTimeout \/ OrphanLost
      <4>1. Linked' \/ (app' = app /\ ~Linked /\ paired' = paired)
        BY <1>1, <3>1 DEF PageAnswered, PhoneConnects, Secured, PageTimeout, OrphanLost,
                          LinkUp, Linked, LinkAir
      <4> QED BY <2>1, <4>1 DEF IInv, Listening, Heard, Coming, Bt
    <3>2. ASSUME NEW r \in Reason, LinkLost(r) PROVE Listening'
      <4>1. app' = disconn(app, r) /\ app \in App
        BY <1>1, <3>2, AppType DEF LinkLost
      <4>2. Bt => Settled(app', paired') \/ Works(app', app'.task)
        BY <4>1, DisconnApp
      <4> QED BY <2>1, <4>2 DEF Listening, Heard, Bt
    <3> QED BY <1>2, <3>1, <3>2
  <2> QED BY <1>1, <2>1, <2>2, <2>3, <2>4 DEF Handled
<1>3. CASE \/ \E p \in Profile : ProfileUp(p)
           \/ HfpDown \/ A2dpDown \/ AvrcpDown \/ CallSetup
  <2>1. Handled(app, app') /\ link = "open" /\ UNCHANGED <<work, link, air, posted>>
    BY <1>1, <1>3, ProfileEvents
  <2>2. PostedOK'
    BY <1>1, <2>1, PostedStep DEF Unposted
  <2>3. LinkAir' /\ Listening'
    BY <1>1, <2>1 DEF LinkAir, Linked, Listening
  <2> QED BY <1>1, <2>1, <2>2, <2>3 DEF Handled
<1>4. CASE KeyMatch \/ KeyClear \/ KeyConnect
  <2>1. /\ Handled(app, app') /\ UNCHANGED <<work, link, air, posted>>
        /\ ~Linked => Settled(app', paired') \/ Works(app', app'.task)
    BY <1>1, <1>4, KeyEvents
  <2>2. PostedOK'
    BY <1>1, <2>1, PostedStep DEF Unposted
  <2>3. LinkAir' /\ Listening'
    BY <1>1, <2>1 DEF LinkAir, Linked, Listening, Heard
  <2> QED BY <1>1, <2>1, <2>2, <2>3 DEF Handled
<1>5. CASE Leave
  <2>1. Handled(app, app') /\ Unposted /\ work' = "off" /\ UNCHANGED <<link, air>>
    BY <1>1, <1>5, LeaveEvent
  <2>2. PostedOK'
    BY <1>1, <2>1, PostedStep
  <2>3. LinkAir' /\ Listening'
    BY <1>1, <2>1 DEF LinkAir, Linked, Listening, Bt
  <2> QED BY <1>1, <2>1, <2>2, <2>3 DEF Handled
<1>6. CASE Enter
  <2>1. /\ app' \in App /\ app'.task = None /\ "AUTO" \in app'.flags
        /\ work' = "enabling" /\ link' = "none" /\ air' = "idle"
    BY <1>1, <1>6, EnterEvent
  <2>2. PostedOK'
    BY <1>1, <1>6, EnterPosted
  <2> QED BY <2>1, <2>2, Callbacks DEF LinkAir, Linked, Listening, Heard, Coming, Asked
<1>7. CASE EnableComplete
  <2>1. /\ Handled(app, app') /\ UNCHANGED <<link, air, posted, paired>> /\ work' = "on"
        /\ ~Linked => Settled(app', paired) \/ Works(app', app'.task) \/ Works(app', posted)
    BY <1>1, <1>7, EnableEvent DEF IInv
  <2>2. PostedOK'
    BY <1>1, <2>1, PostedStep DEF Unposted
  <2>3. LinkAir' /\ Listening'
    BY <1>1, <2>1 DEF LinkAir, Linked, Listening, Heard
  <2> QED BY <1>1, <2>1, <2>2, <2>3 DEF Handled
<1> QED BY <1>2, <1>3, <1>4, <1>5, <1>6, <1>7 DEF PageEnds, Event

\* So does every callback,
LEMMA CallbackStep ==
  ASSUME IInv, Dispatch
  PROVE  LinkAir' /\ Asked(app', app'.task) /\ PostedOK' /\ Listening'
<1>1. /\ Ran /\ posted' = None /\ work' = work /\ posted # None
      /\ LinkAir => LinkAir'
  BY CallbackRuns DEF IInv
<1>2. LinkAir' /\ Asked(app', app'.task)
  BY <1>1 DEF IInv, Ran
<1>3. PostedOK'
  BY <1>1, Callbacks DEF PostedOK, Asked
<1>4. Listening'
  BY <1>1 DEF Listening, Ran, Heard, Coming, Bt
<1> QED BY <1>2, <1>3, <1>4

\* and the tick that posts it.
LEMMA ExpireStep ==
  ASSUME IInv, Expire
  PROVE  LinkAir' /\ Asked(app', app'.task) /\ PostedOK' /\ Listening'
<1>1. /\ app' = Stopped(app) /\ posted' = app.task /\ app.task # None /\ posted = None
      /\ UNCHANGED <<work, link, air, paired>>
  BY DEF Expire
<1>2. /\ app'.task = None /\ Asked(app', app'.task) /\ app'.flags = app.flags
      /\ app'.scan = app.scan /\ app'.retry = app.retry /\ app'.reason = app.reason
  BY <1>1, AppType, StoppedApp DEF IInv
<1>3. LinkAir'
  BY <1>1 DEF IInv, LinkAir, Linked
<1>4. PostedOK'
  BY <1>1, <1>2 DEF IInv, PostedOK, Asked
<1>5. ASSUME Bt, ~Linked
      PROVE  Settled(app', paired) \/ Coming(app') \/ Works(app', app.task)
  <2>1. Settled(app, paired) \/ Coming(app) \/ Works(app, app.task)
    BY <1>1, <1>5, Callbacks DEF IInv, Listening, Heard, Works
  <2>2. CASE Settled(app, paired) \/ Coming(app)
    BY <1>2, <2>2 DEF Settled, Coming, Trying
  <2>3. CASE Works(app, app.task)
    BY <1>2, <2>3 DEF Works
  <2> QED BY <2>1, <2>2, <2>3
<1>6. Listening'
  BY <1>1, <1>5 DEF Listening, Heard, Coming, Bt, Linked
<1> QED BY <1>2, <1>3, <1>4, <1>6

\* With at most one event ahead of a posted callback, the application's state and
\* what is posted fit each other in every state.
THEOREM Inductive == MaxAhead <= 1 => (Spec => []IInv)
<1>1. Init => IInv
  <2> SUFFICES ASSUME Init PROVE IInv
    OBVIOUS
  <2>1. TypeOK
    BY InitType
  <2>2. LinkAir /\ Asked(app, app.task) /\ PostedOK /\ Listening
    BY Callbacks DEF Init, LinkAir, Linked, PostedOK, Asked, Listening, Heard, Coming
  <2> QED BY <2>1, <2>2 DEF IInv
<1>2. MaxAhead <= 1 /\ IInv /\ [Next]_vars => IInv'
  <2> SUFFICES ASSUME MaxAhead <= 1, IInv, [Next]_vars PROVE IInv'
    OBVIOUS
  <2>1. TypeOK'
    BY TypeStep DEF IInv
  <2>2. CASE Next
    BY <2>1, <2>2, EventStep, CallbackStep, ExpireStep DEF Next, IInv
  <2>3. CASE UNCHANGED vars
    <3>1. UNCHANGED <<work, link, air, app, posted, ahead, paired>>
      BY <2>3 DEF vars
    <3> QED BY <2>1, <3>1 DEF IInv, LinkAir, Linked, PostedOK, Overtaken, Listening, Heard,
                             Coming, Bt
  <2> QED BY <2>2, <2>3
<1> SUFFICES ASSUME MaxAhead <= 1 PROVE Spec => []IInv
  OBVIOUS
<1>3. IInv /\ [Next]_vars => IInv'
  BY <1>2
<1> QED BY <1>1, <1>3, PTL DEF Spec

\* With nothing scheduled and no link the device lets a phone connect, but for
\* the exceptions listed, for every retry count.
THEOREM OpenWhenIdle == MaxAhead <= 1 => (Spec => []OpenToPhoneWhenIdle)
<1>1. IInv => OpenToPhoneWhenIdle
  <2> SUFFICES ASSUME IInv, Deaf PROVE OpenToPhoneWhenIdle
    BY DEF OpenToPhoneWhenIdle
  <2>1. work = "on" /\ ~Linked /\ app.task = None /\ posted = None /\ (app.scan => Trying(app))
    BY DEF Deaf, Linked
  <2>2. Settled(app, paired)
    BY <2>1, Callbacks DEF IInv, Listening, Heard, Works, Coming, Bt
  <2> QED BY <2>1, <2>2 DEF Settled, OpenToPhoneWhenIdle
<1> SUFFICES ASSUME MaxAhead <= 1 PROVE Spec => []OpenToPhoneWhenIdle
  OBVIOUS
<1>2. Spec => []IInv
  BY Inductive
<1> QED BY <1>1, <1>2, PTL
==============================================================================
