---------------------------- MODULE ExecutorProofs ----------------------------
(***************************************************************************)
(* Theorems about Executor, for any phones, ports, tables and number of    *)
(* calls: what one that says Ready is connected to, what its session       *)
(* shows, what its tables hold after a load, and where a job that goes by  *)
(* a partition's name writes.                                              *)
(***************************************************************************)
EXTENDS Executor, SequenceTheorems, NatRecursion, TLAPS

(* init_firehose_only tries the port right after its connect, so in what a *)
(* call has still to do, "direct" comes only behind "connect".             *)
Ordered(s) == \A k \in 2..Len(s) : s[k] = "direct" => s[k - 1] = "connect"

Steps == SingleSteps \cup JobSteps \cup {"direct", "storage"}
TodoOK == todo \in Seq(Steps) /\ Ordered(todo)

(* What is plugged in has the types it should have.                        *)
WorldOK ==
  /\ plugs \in 0..MaxPlugs /\ since \in [Ports -> 0..MaxPlugs]
  /\ plugged \in [Ports -> Phones \cup {None}]

(* A record of the session has the field.                                 *)
HasIds(s) == "ids" \in DOMAIN s

(* The session belongs to the device; with the mode forced to DIAG there   *)
(* is none of either.                                                      *)
SessionOK ==
  /\ device # None => device.port \in Ports /\ HasIds(session)
  /\ setting.force = "Diag" => device = None

(* The session is fresh when the port is tried without a handshake, which  *)
(* would have replaced the chip ids.                                       *)
FreshTurn == Turn("direct") /\ device # None => session.ids = None

Wired ==
  state = "Ready" => /\ transport # None /\ transport.port = device.port
                     /\ HasIds(session) /\ session.ids \in {None, transport.phone}

Core == TodoOK /\ SessionOK /\ FreshTurn /\ Wired
IInv == WorldOK /\ Core

-----------------------------------------------------------------------------
(* What a call has still to do *)

LEMMA ProgramsOrdered ==
  ASSUME NEW p \in Programs
  PROVE  p \in Seq(Steps) /\ Ordered(p) /\ (p # <<>> => Head(p) # "direct")
<1>1. CASE p = InitSteps
  <2>1. p \in Seq(Steps) /\ Len(p) = 4 /\ p # <<>> /\ Head(p) = "connect"
    BY <1>1 DEF InitSteps, Steps, SingleSteps
  <2>2. p[2] # "direct" /\ p[3] # "direct" /\ p[4] # "direct"
    BY <1>1 DEF InitSteps
  <2>3. \A k \in 2..4 : k = 2 \/ k = 3 \/ k = 4
    OBVIOUS
  <2> QED  BY <2>1, <2>2, <2>3 DEF Ordered
<1>2. CASE p = InitOnlySteps
  <2>1. p \in Seq(Steps) /\ Len(p) = 2 /\ p # <<>> /\ Head(p) = "connect"
    BY <1>2 DEF InitOnlySteps, Steps, SingleSteps
  <2>2. p[1] = "connect" /\ \A k \in 2..2 : k - 1 = 1
    BY <1>2 DEF InitOnlySteps
  <2> QED  BY <2>1, <2>2 DEF Ordered
<1>3. ASSUME NEW step \in SingleSteps \cup JobSteps, p = <<step>>
      PROVE  p \in Seq(Steps) /\ Ordered(p) /\ Head(p) # "direct"
  <2>1. step \in Steps /\ step # "direct"
    BY DEF Steps, SingleSteps, JobSteps
  <2>2. p \in Seq(Steps) /\ Len(p) = 1 /\ Head(p) = step
    BY <1>3, <2>1
  <2> QED  BY <2>1, <2>2 DEF Ordered
<1> QED  BY <1>1, <1>2, <1>3 DEF Programs

LEMMA TailOrdered ==
  ASSUME TodoOK, NEW step, Turn(step), Succeed
  PROVE  TodoOK' /\ (Turn("direct")' => step = "connect")
<1>1. todo' \in Seq(Steps) /\ Len(todo') = Len(todo) - 1 /\ Len(todo) \in Nat \ {0}
  BY HeadTailProperties, EmptySeq DEF TodoOK, Turn, Succeed
<1>2. \A k \in 1..Len(todo') : todo'[k] = todo[k + 1]
  BY HeadTailProperties, <1>1 DEF TodoOK, Turn, Succeed
<1>3. Ordered(todo')
  BY <1>1, <1>2 DEF TodoOK, Ordered
<1>4. ASSUME Turn("direct")' PROVE step = "connect"
  <2>1. todo' # <<>> /\ Len(todo') \in Nat \ {0} /\ todo'[1] = "direct"
    BY <1>1, <1>4, EmptySeq, HeadTailProperties DEF Turn
  <2>2. todo[2] = "direct" /\ 2 \in 2..Len(todo)
    BY <1>1, <1>2, <2>1
  <2>3. todo[1] = "connect"
    BY <2>2 DEF TodoOK, Ordered
  <2> QED  BY <2>3 DEF Turn, TodoOK
<1> QED  BY <1>1, <1>3, <1>4 DEF TodoOK

\* A call that gives up has nothing more to do.
LEMMA GiveUpOrdered ==
  ASSUME GiveUp PROVE TodoOK' /\ ~Turn("direct")'
  BY DEF GiveUp, TodoOK, Turn, Ordered

\* So a step that is not connect, and ends or gives up, keeps both parts.
LEMMA StepOrdered ==
  ASSUME TodoOK, NEW step, step # "connect", Turn(step), Succeed \/ GiveUp
  PROVE  TodoOK' /\ FreshTurn'
  BY TailOrdered, GiveUpOrdered DEF FreshTurn

LEMMA InitIInv == Init => IInv
  BY ExecutorAssumption DEF Init, IInv, WorldOK, Core, TodoOK, Ordered, SessionOK, FreshTurn, Wired, Turn

-----------------------------------------------------------------------------
(* The actions *)

\* Everything the invariant is about, but for the steps to do.
kept == <<state, device, session, transport, setting>>

LEMMA KeptCore ==
  ASSUME Core, UNCHANGED kept PROVE SessionOK' /\ Wired'
  BY DEF Core, kept, SessionOK, Wired, HasIds

LEMMA WorldCore ==
  ASSUME Core, UNCHANGED kept, UNCHANGED todo PROVE Core'
<1>1. TodoOK' /\ FreshTurn'
  BY DEF Core, kept, TodoOK, FreshTurn, Turn
<1> QED  BY <1>1, KeptCore DEF Core

LEMMA CallCore ==
  ASSUME Core, NEW p \in Programs, Call(p) PROVE Core'
<1>1. TodoOK' /\ ~Turn("direct")'
  BY ProgramsOrdered DEF Call, TodoOK, Turn
<1>2. UNCHANGED kept
  BY DEF Call, kept, identity
<1> QED  BY <1>1, <1>2, KeptCore DEF Core, FreshTurn

LEMMA ConnectCore ==
  ASSUME Core, Connect PROVE Core'
<1>1. TodoOK'
  BY TailOrdered, GiveUpOrdered DEF Connect, Core
<1>2. CASE \E p \in Ports :
             /\ setting.force = "Auto"
             /\ device' = [port |-> p, phone |-> plugged[p]]
             /\ state' = StateConnected /\ session' = NewSession(plugged[p])
  <2>1. SessionOK'
    BY <1>2 DEF Connect, SessionOK, NewSession, HasIds
  <2>2. FreshTurn' /\ Wired'
    BY <1>2 DEF FreshTurn, Wired, NewSession, StateConnected
  <2> QED  BY <1>1, <2>1, <2>2 DEF Core
<1>3. CASE UNCHANGED <<device, state, session>> /\ (setting.force = "Diag" \/ GiveUp)
  <2>1. UNCHANGED kept
    BY <1>3 DEF Connect, kept
  <2>2. FreshTurn'
    BY <1>3, <2>1, GiveUpOrdered DEF Core, SessionOK, FreshTurn, kept
  <2> QED  BY <1>1, <2>1, <2>2, KeptCore DEF Core
<1> QED  BY <1>2, <1>3 DEF Connect

LEMMA OpenedPort ==
  ASSUME WorldOK, SessionOK, There
  PROVE  OpenedTo(device.port) # None /\ OpenedTo(device.port).port = device.port
         /\ OpenedTo(device.port).phone = plugged[device.port]
<1>1. device.port \in Ports /\ plugged[device.port] \in Phones /\ since[device.port] \in 0..MaxPlugs
  BY DEF WorldOK, SessionOK, There
<1> QED  BY <1>1, ExecutorAssumption DEF OpenedTo

LEMMA HandshakeCore ==
  ASSUME WorldOK, Core, Handshake PROVE Core'
<1>1. TodoOK' /\ FreshTurn'
  BY StepOrdered DEF Core, Handshake
<1>2. CASE /\ There
           /\ \E ids \in {None, plugged[device.port]} : session' = [session EXCEPT !.ids = ids]
           /\ transport' = OpenedTo(device.port) /\ state' = "Ready"
  <2>1. device' = device /\ setting' = setting /\ HasIds(session)
    BY <1>2 DEF Handshake, There, Core, SessionOK
  <2>2. HasIds(session') /\ session'.ids \in {None, plugged[device.port]}
    BY <1>2, <2>1 DEF HasIds
  <2>3. SessionOK'
    BY <2>1, <2>2 DEF Core, SessionOK
  <2> QED  BY <1>1, <1>2, <2>1, <2>2, <2>3, OpenedPort DEF Core, Wired
<1>3. CASE UNCHANGED <<session, transport, state>>
  <2>1. UNCHANGED kept
    BY <1>3 DEF Handshake, kept
  <2> QED  BY <1>1, <2>1, KeptCore DEF Core
<1> QED  BY <1>2, <1>3 DEF Handshake

LEMMA ToldIds ==
  ASSUME HasIds(session), NEW c, NEW o
  PROVE  HasIds(ToldAfter(c, o)) /\ ToldAfter(c, o).ids = session.ids
  BY DEF HasIds, ToldAfter, Told

\* The two steps that may tell the session what the client knows.
LEMMA TellingCore ==
  ASSUME Core, TodoOK', FreshTurn', UNCHANGED <<state, device, transport, setting>>,
         \/ session' = session
         \/ \E c, o : session' = ToldAfter(c, o)
  PROVE  Core'
<1>1. device # None \/ state = "Ready" =>
        HasIds(session) /\ HasIds(session') /\ session'.ids = session.ids
  BY ToldIds DEF Core, SessionOK, Wired
<1>2. SessionOK' /\ Wired'
  BY <1>1 DEF Core, SessionOK, Wired
<1> QED  BY <1>2 DEF Core

LEMMA InitFirehoseCore ==
  ASSUME Core, InitFirehose PROVE Core'
<1>1. TodoOK' /\ FreshTurn'
  BY StepOrdered DEF Core, InitFirehose
<1>2. session' = session \/ \E c, o : session' = ToldAfter(c, o)
  BY DEF InitFirehose
<1> QED  BY <1>1, <1>2, TellingCore DEF InitFirehose

LEMMA StorageCore ==
  ASSUME Core, Storage PROVE Core'
<1>1. TodoOK' /\ FreshTurn'
  BY StepOrdered DEF Core, Storage
<1>2. session' = session \/ \E c, o : session' = ToldAfter(c, o)
  BY DEF Storage
<1> QED  BY <1>1, <1>2, TellingCore DEF Storage

LEMMA DirectCore ==
  ASSUME WorldOK, Core, Direct PROVE Core'
<1>1. CASE There /\ transport' = OpenedTo(device.port) /\ state' = "Ready" /\ todo' = <<"storage">>
  <2>4. todo' \in Seq(Steps) /\ Len(todo') = 1 /\ Head(todo') # "direct"
    BY <1>1 DEF Steps
  <2>1. TodoOK' /\ FreshTurn'
    BY <2>4 DEF TodoOK, FreshTurn, Turn, Ordered
  <2>2. UNCHANGED <<device, session, setting>> /\ Turn("direct")
    BY DEF Direct
  <2>3. session.ids = None /\ HasIds(session)
    BY <1>1, <2>2 DEF Core, FreshTurn, SessionOK, There
  <2> QED  BY <1>1, <2>1, <2>2, <2>3, OpenedPort DEF Core, SessionOK, Wired
<1>2. CASE /\ UNCHANGED <<transport, state>>
           /\ todo' = <<"handshake", "init_firehose">> \/ GiveUp
  <2>1. TodoOK' /\ FreshTurn'
    <3>1. CASE todo' = <<"handshake", "init_firehose">>
      <4>1. /\ todo' \in Seq(Steps) /\ Len(todo') = 2 /\ Head(todo') # "direct"
            /\ \A k \in 2..2 : todo'[k] # "direct"
        BY <3>1 DEF Steps, SingleSteps
      <4> QED  BY <4>1 DEF TodoOK, FreshTurn, Turn, Ordered
    <3>2. CASE GiveUp
      BY <3>2, GiveUpOrdered DEF FreshTurn
    <3> QED  BY <1>2, <3>1, <3>2
  <2>2. UNCHANGED kept
    BY <1>2 DEF Direct, kept
  <2> QED  BY <2>1, <2>2, KeptCore DEF Core
<1> QED  BY <1>1, <1>2 DEF Direct

\* Steps that change nothing the invariant is about but todo.
LEMMA OtherCore ==
  ASSUME Core, LoadGpt \/ WriteJob \/ FlashJob \/ InfoJob PROVE Core'
<1>1. UNCHANGED kept
  BY DEF LoadGpt, WriteJob, FlashJob, InfoJob, kept, identity, world
<1>2. TodoOK' /\ FreshTurn'
  <2>1. CASE LoadGpt   BY <2>1, StepOrdered DEF Core, LoadGpt
  <2>2. CASE WriteJob  BY <2>2, StepOrdered DEF Core, WriteJob
  <2>3. CASE FlashJob  BY <2>3, StepOrdered DEF Core, FlashJob
  <2>4. CASE InfoJob   BY <2>4, StepOrdered DEF Core, InfoJob
  <2> QED  BY <2>1, <2>2, <2>3, <2>4
<1> QED  BY <1>1, <1>2, KeptCore DEF Core

LEMMA RebootCore ==
  ASSUME Core, Reboot PROVE Core'
<1>1. TodoOK' /\ FreshTurn'
  BY StepOrdered DEF Core, Reboot
<1>2. SessionOK' /\ Wired'
  BY DEF Core, Reboot, SessionOK, Wired, HasIds
<1> QED  BY <1>1, <1>2 DEF Core

LEMMA NextWorld ==
  ASSUME WorldOK, [Next]_vars PROVE WorldOK'
<1>1. CASE UNCHANGED <<plugs, since, plugged>>
  BY <1>1 DEF WorldOK
<1>2. ASSUME NEW p \in Ports, NEW d \in Phones, Plug(p, d) PROVE WorldOK'
  BY <1>2, ExecutorAssumption DEF WorldOK, Plug
<1>3. ASSUME NEW p \in Ports, Unplug(p) PROVE WorldOK'
  BY <1>3, ExecutorAssumption DEF WorldOK, Unplug
<1>4. CASE Reboot
  BY <1>4 DEF WorldOK, Reboot
<1>5. CASE \E p \in Programs : Call(p)
  BY <1>5, <1>1 DEF Call, world
<1>6. CASE Step /\ ~Reboot
  BY <1>6, <1>1 DEF Step, Connect, Handshake, InitFirehose, Direct, Storage, LoadGpt,
     WriteJob, FlashJob, InfoJob, world
<1>7. CASE UNCHANGED vars
  BY <1>7, <1>1 DEF vars, world
<1> QED  BY <1>2, <1>3, <1>4, <1>5, <1>6, <1>7 DEF Next

LEMMA NextIInv ==
  ASSUME IInv, [Next]_vars PROVE IInv'
<1>0. WorldOK'
  BY NextWorld DEF IInv
<1>1. CASE \E p \in Programs : Call(p)
  BY <1>0, <1>1, CallCore DEF IInv
<1>2. CASE Step
  BY <1>0, <1>2, ConnectCore, HandshakeCore, InitFirehoseCore, DirectCore, StorageCore,
     OtherCore, RebootCore DEF IInv, Step
<1>3. CASE \E p \in Ports : Unplug(p) \/ \E d \in Phones : Plug(p, d)
  BY <1>0, <1>3, WorldCore DEF IInv, Plug, Unplug, kept, identity
<1>4. CASE UNCHANGED vars
  BY <1>0, <1>4, WorldCore DEF IInv, vars, kept, identity, world
<1> QED  BY <1>1, <1>2, <1>3, <1>4 DEF Next

-----------------------------------------------------------------------------
(* What the session shows *)

Geometry == {"memory", "ss"}

(* Once told, the session agrees with the client; and it has been told     *)
(* nothing since the connect when the port is tried without a handshake,   *)
(* which configures the client and does not tell the session.              *)
TellOK ==
  /\ Geometry \subseteq DOMAIN client
  /\ device # None \/ transport # None => Geometry \subseteq DOMAIN session
  /\ SessionTold
  /\ Turn("direct") /\ device # None => ~told

\* A step that is not connect does not make it the turn of "direct".
LEMMA NotDirectNext ==
  ASSUME TodoOK, NEW step, step # "connect", Turn(step), Succeed \/ GiveUp
  PROVE  ~Turn("direct")'
  BY TailOrdered, GiveUpOrdered

LEMMA ToldGeometry ==
  ASSUME Geometry \subseteq DOMAIN session, NEW c, NEW o
  PROVE  /\ Geometry \subseteq DOMAIN ToldAfter(c, o)
         /\ ToldAfter(c, o).ss = c.ss /\ ToldAfter(c, o).memory = c.memory
  BY DEF Geometry, ToldAfter, Told

LEMMA ReportedGeometry ==
  ASSUME NEW d, NEW fields, NEW c
  PROVE  Geometry \subseteq DOMAIN Reported(d, fields, c)
  BY DEF Geometry, Reported

LEMMA ConnectTell ==
  ASSUME IInv, TellOK, Connect PROVE TellOK'
<1>1. CASE \E p \in Ports : session' = NewSession(plugged[p]) /\ told' = FALSE
  BY <1>1 DEF Connect, TellOK, Geometry, NewSession, SessionTold
<1>2. CASE UNCHANGED <<device, session, told>> /\ (setting.force = "Diag" \/ GiveUp)
  <2>1. UNCHANGED <<client, transport>>
    BY DEF Connect
  <2>2. Turn("direct")' /\ device' # None => ~told'
    BY <1>2, GiveUpOrdered DEF IInv, Core, SessionOK
  <2> QED  BY <1>2, <2>1, <2>2 DEF TellOK, SessionTold
<1> QED  BY <1>1, <1>2 DEF Connect

LEMMA HandshakeTell ==
  ASSUME IInv, TellOK, Handshake PROVE TellOK'
<1>1. UNCHANGED <<device, client, told>> /\ ~Turn("direct")'
  BY NotDirectNext DEF Handshake, IInv, Core, history
<1>2. CASE There /\ \E ids : session' = [session EXCEPT !.ids = ids]
  <2>1. Geometry \subseteq DOMAIN session
    BY <1>2 DEF TellOK, There
  <2>2. DOMAIN session' = DOMAIN session /\ session'.ss = session.ss
        /\ session'.memory = session.memory
    BY <1>2, <2>1 DEF Geometry
  <2> QED  BY <1>1, <2>1, <2>2 DEF TellOK, SessionTold
<1>3. CASE UNCHANGED <<session, transport>>
  BY <1>1, <1>3 DEF TellOK, SessionTold
<1> QED  BY <1>2, <1>3 DEF Handshake

LEMMA InitFirehoseTell ==
  ASSUME IInv, TellOK, InitFirehose PROVE TellOK'
<1>1. UNCHANGED <<device, transport>> /\ ~Turn("direct")'
  BY NotDirectNext DEF InitFirehose, IInv, Core
<1>2. CASE /\ Talks
           /\ \E d, c, o : client' \in {Configured(d, c), Stored(d, c)} /\ session' = ToldAfter(client', o)
  <2>1. Geometry \subseteq DOMAIN session
    BY <1>2 DEF TellOK, Talks
  <2>2. Geometry \subseteq DOMAIN client'
    BY <1>2, ReportedGeometry DEF Configured, Stored
  <2> QED  BY <1>1, <1>2, <2>1, <2>2, ToldGeometry DEF TellOK, SessionTold
<1>3. CASE UNCHANGED <<client, session, told>>
  BY <1>1, <1>3 DEF TellOK, SessionTold
<1> QED  BY <1>2, <1>3 DEF InitFirehose

LEMMA StorageTell ==
  ASSUME IInv, TellOK, Storage PROVE TellOK'
<1>1. UNCHANGED <<device, transport>> /\ ~Turn("direct")'
  BY NotDirectNext DEF Storage, IInv, Core
<1>2. CASE Talks /\ \E d, c, o : client' \in {client, Stored(d, c)} /\ session' = ToldAfter(client', o)
  <2>1. Geometry \subseteq DOMAIN session
    BY <1>2 DEF TellOK, Talks
  <2>2. Geometry \subseteq DOMAIN client'
    BY <1>2, ReportedGeometry DEF Stored, TellOK
  <2> QED  BY <1>1, <1>2, <2>1, <2>2, ToldGeometry DEF TellOK, SessionTold
<1>3. CASE UNCHANGED <<client, session, told>>
  BY <1>1, <1>3 DEF TellOK, SessionTold
<1> QED  BY <1>2, <1>3 DEF Storage

LEMMA DirectTell ==
  ASSUME IInv, TellOK, Direct PROVE TellOK'
<1>1. UNCHANGED <<device, session, told>> /\ Turn("direct")
  BY DEF Direct, history
<1>2. ~Turn("direct")'
  <2>1. todo' \in {<<"storage">>, <<"handshake", "init_firehose">>, <<>>}
    BY DEF Direct, GiveUp
  <2> QED  BY <2>1 DEF Turn
<1>3. CASE There /\ \E d : client' = Configured(d, client)
  <2>1. Geometry \subseteq DOMAIN client' /\ ~told /\ Geometry \subseteq DOMAIN session
    BY <1>1, <1>3, ReportedGeometry DEF Configured, There, TellOK
  <2> QED  BY <1>1, <1>2, <2>1 DEF TellOK, SessionTold
<1>4. CASE UNCHANGED <<client, transport>>
  BY <1>1, <1>2, <1>4 DEF TellOK, SessionTold
<1> QED  BY <1>3, <1>4 DEF Direct

LEMMA LoadGptTell ==
  ASSUME IInv, TellOK, LoadGpt PROVE TellOK'
<1>1. UNCHANGED <<device, transport, session, told>> /\ ~Turn("direct")'
  BY NotDirectNext DEF LoadGpt, identity, IInv, Core
<1>2. CASE \E total : client' = [client EXCEPT !.total = total]
  <2>1. DOMAIN client' = DOMAIN client /\ client'.ss = client.ss /\ client'.memory = client.memory
    BY <1>2 DEF TellOK, Geometry
  <2> QED  BY <1>1, <2>1 DEF TellOK, SessionTold
<1>3. CASE client' = client
  BY <1>1, <1>3 DEF TellOK, SessionTold
<1> QED  BY <1>2, <1>3 DEF LoadGpt

LEMMA InfoJobTell ==
  ASSUME IInv, TellOK, InfoJob PROVE TellOK'
<1>1. UNCHANGED <<device, transport, session>> /\ ~Turn("direct")'
  BY NotDirectNext DEF InfoJob, identity, IInv, Core
<1>2. CASE \E d, f : client' = Reported(d, f, client) /\ told' = FALSE
  BY <1>1, <1>2, ReportedGeometry DEF TellOK, SessionTold
<1>3. CASE UNCHANGED <<client, told>>
  BY <1>1, <1>3 DEF TellOK, SessionTold
<1> QED  BY <1>2, <1>3 DEF InfoJob

\* Jobs and the reboot: nothing of it changes, and no "direct" follows.
LEMMA OtherTell ==
  ASSUME IInv, TellOK, WriteJob \/ FlashJob \/ Reboot PROVE TellOK'
<1>1. UNCHANGED <<device, transport, session, client, told>>
  BY DEF WriteJob, FlashJob, Reboot, identity, history
<1>2. ~Turn("direct")'
  BY NotDirectNext DEF WriteJob, FlashJob, Reboot, IInv, Core
<1> QED  BY <1>1, <1>2 DEF TellOK, SessionTold

LEMMA NextTell ==
  ASSUME IInv, TellOK, [Next]_vars PROVE TellOK'
<1>1. ASSUME NEW p \in Programs, Call(p) PROVE TellOK'
  <2>1. ~Turn("direct")'
    BY <1>1, ProgramsOrdered DEF Call, Turn
  <2> QED  BY <1>1, <2>1 DEF Call, identity, TellOK, SessionTold
<1>2. CASE Step
  BY <1>2, ConnectTell, HandshakeTell, InitFirehoseTell, DirectTell, StorageTell,
     LoadGptTell, InfoJobTell, OtherTell DEF Step
<1>3. CASE UNCHANGED <<device, transport, session, client, told, todo>>
  BY <1>3 DEF TellOK, SessionTold, Turn
<1>4. CASE \E p \in Ports : Unplug(p) \/ \E d \in Phones : Plug(p, d)
  BY <1>3, <1>4 DEF Plug, Unplug, identity, history
<1>5. CASE UNCHANGED vars
  BY <1>3, <1>5 DEF vars, identity, history
<1> QED  BY <1>1, <1>2, <1>4, <1>5 DEF Next

-----------------------------------------------------------------------------
(* Sequences put together (FlattenSeq) *)

\* t is what the first m sequences of s hold.
Gathers(t, s, m) ==
  /\ \A i \in DOMAIN t : \E k \in 1..m : \E j \in DOMAIN s[k] : t[i] = s[k][j]
  /\ \A k \in 1..m : \A j \in DOMAIN s[k] : \E i \in DOMAIN t : t[i] = s[k][j]

LEMMA GathersOn ==
  ASSUME NEW T, NEW s \in Seq(Seq(T)), NEW m \in Nat, m + 1 <= Len(s),
         NEW t \in Seq(T), Gathers(t, s, m)
  PROVE  Gathers(t \o s[m + 1], s, m + 1)
<1> DEFINE u == t \o s[m + 1]
<1>0. m + 1 \in DOMAIN s /\ s[m + 1] \in Seq(T) /\ m + 1 \in 1..(m + 1) /\ 1..m \subseteq 1..(m + 1)
  BY ElementOfSeq
<1>1. /\ DOMAIN t = 1..Len(t) /\ DOMAIN s[m + 1] = 1..Len(s[m + 1])
      /\ Len(t) \in Nat /\ Len(s[m + 1]) \in Nat
  BY <1>0, LenProperties
<1>2. /\ DOMAIN u = 1..(Len(t) + Len(s[m + 1]))
      /\ \A i \in 1..Len(t) : u[i] = t[i]
      /\ \A j \in 1..Len(s[m + 1]) : u[Len(t) + j] = s[m + 1][j]
  BY <1>0, <1>1, ConcatProperties, LenProperties
<1> HIDE DEF u
<1>3. ASSUME NEW i \in DOMAIN u
      PROVE  \E k \in 1..(m + 1) : \E j \in DOMAIN s[k] : u[i] = s[k][j]
  <2>1. CASE i \in 1..Len(t)
    <3>1. PICK k \in 1..m : \E j \in DOMAIN s[k] : t[i] = s[k][j]
      BY <1>1, <2>1 DEF Gathers
    <3>2. k \in 1..(m + 1) /\ u[i] = t[i]
      BY <1>0, <1>2, <2>1
    <3> QED  BY <3>1, <3>2
  <2>2. CASE i \notin 1..Len(t)
    <3>1. i - Len(t) \in 1..Len(s[m + 1]) /\ i = Len(t) + (i - Len(t))
      BY <1>1, <1>2, <1>3, <2>2
    <3>2. u[i] = s[m + 1][i - Len(t)]
      BY <1>2, <3>1
    <3> QED  BY <1>0, <1>1, <3>1, <3>2
  <2> QED  BY <2>1, <2>2
<1>4. ASSUME NEW k \in 1..(m + 1), NEW j \in DOMAIN s[k]
      PROVE  \E i \in DOMAIN u : u[i] = s[k][j]
  <2>1. CASE k = m + 1
    <3>1. j \in 1..Len(s[m + 1]) /\ Len(t) + j \in DOMAIN u
      BY <1>1, <1>2, <2>1
    <3> QED  BY <1>2, <2>1, <3>1
  <2>2. CASE k \in 1..m
    <3>1. PICK i \in DOMAIN t : t[i] = s[k][j]
      BY <2>2 DEF Gathers
    <3>2. i \in DOMAIN u
      BY <1>1, <1>2
    <3> QED  BY <1>1, <1>2, <3>1, <3>2
  <2> QED  BY <2>1, <2>2
<1> QED  BY <1>3, <1>4 DEF Gathers, u

\* The value of the fold, from its own equation.
LEMMA FlattenRuns ==
  ASSUME NEW T, NEW s \in Seq(Seq(T)), Len(s) # 0
  PROVE  \E f : /\ f = [i \in 1..Len(s) |-> IF i = 1 THEN s[i] ELSE f[i - 1] \o s[i]]
                /\ FlattenSeq(s) = f[Len(s)]
<1> DEFINE n == Len(s)
           g == [p \in (1..n) \X Seq(T) |-> IF p[1] = 1 THEN s[p[1]] ELSE p[2] \o s[p[1]]]
<1>1. n \in Nat /\ \A k \in 1..n : s[k] \in Seq(T)
  BY LenProperties, ElementOfSeq
<1>2. g \in [(1..n) \X Seq(T) -> Seq(T)]
  BY <1>1, ConcatProperties
<1>3. Goes(Seq(T), <<>>, n, g)
  <2> HIDE DEF g, n
  <2>1. <<>> \in Seq(T)
    OBVIOUS
  <2> QED  BY <1>1, <1>2, <2>1, Recursion
<1>4. PICK h \in [0..n -> Seq(T)] : h[0] = <<>> /\ \A k \in 1..n : h[k] = g[<<k, h[k - 1]>>]
  BY <1>3 DEF Goes
<1> DEFINE f == [i \in 1..n |-> h[i]]
<1>5. f = [i \in 1..n |-> IF i = 1 THEN s[i] ELSE f[i - 1] \o s[i]]
  <2>1. ASSUME NEW i \in 1..n PROVE f[i] = IF i = 1 THEN s[i] ELSE f[i - 1] \o s[i]
    <3>0. i - 1 \in 0..n
      BY <1>1
    <3>1. h[i - 1] \in Seq(T)
      BY <3>0
    <3>2. h[i] = IF i = 1 THEN s[i] ELSE h[i - 1] \o s[i]
      BY <1>4, <3>1
    <3>3. i # 1 => f[i - 1] = h[i - 1]
      BY <1>1
    <3> QED  BY <3>2, <3>3
  <2> QED  BY <2>1
<1> HIDE DEF f, g
<1>6. \E x : x = [i \in 1..n |-> IF i = 1 THEN s[i] ELSE x[i - 1] \o s[i]]
  BY <1>5
<1> DEFINE x == CHOOSE x : x = [i \in 1..n |-> IF i = 1 THEN s[i] ELSE x[i - 1] \o s[i]]
<1>7. x = [i \in 1..n |-> IF i = 1 THEN s[i] ELSE x[i - 1] \o s[i]]
  BY <1>6
<1>8. FlattenSeq(s) = x[n]
  BY DEF FlattenSeq
<1> HIDE DEF x
<1> QED  BY <1>7, <1>8

LEMMA FlattenFacts ==
  ASSUME NEW T, NEW s \in Seq(Seq(T))
  PROVE  FlattenSeq(s) \in Seq(T) /\ Gathers(FlattenSeq(s), s, Len(s))
<1>1. CASE Len(s) = 0
  <2>1. FlattenSeq(s) = <<>> /\ s = <<>>
    BY <1>1, EmptySeq DEF FlattenSeq
  <2> QED  BY <1>1, <2>1 DEF Gathers
<1>2. CASE Len(s) # 0
  <2> DEFINE n == Len(s)
  <2>1. PICK f : f = [i \in 1..n |-> IF i = 1 THEN s[i] ELSE f[i - 1] \o s[i]] /\ FlattenSeq(s) = f[n]
    BY <1>2, FlattenRuns
  <2> DEFINE S == {m \in Nat : m + 1 <= n => f[m + 1] \in Seq(T) /\ Gathers(f[m + 1], s, m + 1)}
  <2>2. n \in Nat /\ n # 0 /\ \A k \in 1..n : s[k] \in Seq(T)
    BY <1>2, LenProperties, ElementOfSeq
  <2>3. \A i \in 1..n : f[i] = IF i = 1 THEN s[i] ELSE f[i - 1] \o s[i]
    BY <2>1
  <2>4. 0 \in S
    <3>1. 1 \in 1..n /\ f[1] = s[1] /\ 0 + 1 = 1 /\ s[1] \in Seq(T)
      BY <2>2, <2>3
    <3>2. Gathers(s[1], s, 1)
      BY DEF Gathers
    <3> QED  BY <3>1, <3>2
  <2>5. ASSUME NEW m \in Nat, m \in S PROVE m + 1 \in S
    <3> SUFFICES ASSUME (m + 1) + 1 <= n
                 PROVE  f[(m + 1) + 1] \in Seq(T) /\ Gathers(f[(m + 1) + 1], s, (m + 1) + 1)
      BY DEF S
    <3>1. /\ (m + 1) + 1 \in 1..n /\ (m + 1) + 1 # 1 /\ ((m + 1) + 1) - 1 = m + 1
          /\ m + 1 \in Nat /\ m + 1 <= n
      BY <2>2
    <3>2. f[(m + 1) + 1] = f[m + 1] \o s[(m + 1) + 1] /\ s[(m + 1) + 1] \in Seq(T)
      BY <2>2, <2>3, <3>1
    <3>3. f[m + 1] \in Seq(T) /\ Gathers(f[m + 1], s, m + 1)
      BY <2>5, <3>1
    <3>4. f[m + 1] \o s[(m + 1) + 1] \in Seq(T)
      BY <3>2, <3>3, ConcatProperties
    <3> QED  BY <3>1, <3>2, <3>3, <3>4, GathersOn
  <2>6. n - 1 \in S
    <3> HIDE DEF S
    <3>1. Nat \subseteq S
      BY <2>4, <2>5, Induction
    <3> QED  BY <2>2, <3>1
  <2> QED  BY <2>1, <2>2, <2>6
<1> QED  BY <1>1, <1>2

\* The first of some positions is one of them.
LEMMA MinFacts ==
  ASSUME NEW S \in SUBSET Nat, S # {}
  PROVE  Min(S) \in S
  BY HasLeast DEF Min

-----------------------------------------------------------------------------
(* Partition tables: the entries used, the partitions listed, the LUNs *)

Table == [lun : 0..3, entries : Seq(Entry)]
Place == [name : PartName, first : Nat, last : Nat, lun : 0..3]

LEMMA UsedFacts ==
  ASSUME NEW slots \in Seq(Entry \cup {None})
  PROVE  /\ Used(slots) \in Seq(Entry)
         /\ \A i \in DOMAIN Used(slots) : Used(slots)[i] \in ToSet(slots)
<1> DEFINE s == [i \in DOMAIN slots |-> IF slots[i] = None THEN <<>> ELSE <<slots[i]>>]
<1>1. DOMAIN slots = 1..Len(slots) /\ Len(slots) \in Nat /\ \A i \in 1..Len(slots) : slots[i] \in Entry \cup {None}
  BY LenProperties, ElementOfSeq
<1>2. s \in Seq(Seq(Entry)) /\ Len(s) = Len(slots)
  <2>1. \A i \in 1..Len(slots) : s[i] \in Seq(Entry)
    BY <1>1
  <2> HIDE DEF s
  <2>2. DOMAIN s = 1..Len(slots) /\ s = [i \in 1..Len(slots) |-> s[i]]
    BY <1>1 DEF s
  <2> QED  BY <1>1, <2>1, <2>2
<1>3. FlattenSeq(s) \in Seq(Entry) /\ Gathers(FlattenSeq(s), s, Len(s))
  BY <1>2, FlattenFacts
<1>4. Used(slots) = FlattenSeq(s)
  BY DEF Used
<1>5. ASSUME NEW i \in DOMAIN Used(slots) PROVE Used(slots)[i] \in ToSet(slots)
  <2> HIDE DEF s
  <2>1. PICK k \in 1..Len(s) : \E j \in DOMAIN s[k] : Used(slots)[i] = s[k][j]
    BY <1>3, <1>4, <1>5 DEF Gathers
  <2>2. s[k] = IF slots[k] = None THEN <<>> ELSE <<slots[k]>>
    BY <1>1, <1>2 DEF s
  <2>3. Used(slots)[i] = slots[k]
    BY <2>1, <2>2
  <2> QED  BY <1>1, <1>2, <2>3 DEF ToSet
<1> QED  BY <1>3, <1>4, <1>5

\* What the names a table is loaded under stand for.
LEMMA InfosFacts ==
  ASSUME NEW ts \in Seq(Table)
  PROVE  /\ InfosOf(ts) \in Seq(Place)
         /\ \A n \in DOMAIN InfosOf(ts) : \E k \in DOMAIN ts : \E i \in DOMAIN ts[k].entries :
              InfosOf(ts)[n] = Info(ts[k], ts[k].entries[i], k)
<1> DEFINE Of(k) == [i \in DOMAIN ts[k].entries |-> Info(ts[k], ts[k].entries[i], k)]
           s == [k \in DOMAIN ts |-> Of(k)]
<1>1. DOMAIN ts = 1..Len(ts) /\ Len(ts) \in Nat /\ \A k \in 1..Len(ts) : ts[k] \in Table
  BY LenProperties, ElementOfSeq
<1>2. ASSUME NEW k \in 1..Len(ts) PROVE Of(k) \in Seq(Place)
  <2>1. ts[k] \in Table /\ ts[k].entries \in Seq(Entry) /\ ts[k].lun \in 0..3
    BY <1>1 DEF Table
  <2>2. /\ DOMAIN ts[k].entries = 1..Len(ts[k].entries) /\ Len(ts[k].entries) \in Nat
        /\ \A i \in 1..Len(ts[k].entries) : ts[k].entries[i] \in Entry
    BY <2>1, LenProperties, ElementOfSeq
  <2>3. \A e \in Entry : Info(ts[k], e, k) \in Place
    BY <2>1 DEF Entry, Info, Place
  <2> QED  BY <2>2, <2>3
<1>3. s \in Seq(Seq(Place)) /\ Len(s) = Len(ts)
  <2> HIDE DEF Of
  <2> QED  BY <1>1, <1>2
<1>4. FlattenSeq(s) \in Seq(Place) /\ Gathers(FlattenSeq(s), s, Len(s))
  BY <1>3, FlattenFacts
<1>5. InfosOf(ts) = FlattenSeq(s)
  BY DEF InfosOf
<1>6. ASSUME NEW n \in DOMAIN InfosOf(ts)
      PROVE  \E k \in DOMAIN ts : \E i \in DOMAIN ts[k].entries :
               InfosOf(ts)[n] = Info(ts[k], ts[k].entries[i], k)
  <2> HIDE DEF s, Of
  <2>1. PICK k \in 1..Len(s) : \E j \in DOMAIN s[k] : InfosOf(ts)[n] = s[k][j]
    BY <1>4, <1>5, <1>6 DEF Gathers
  <2>2. s[k] = Of(k) /\ k \in DOMAIN ts
    BY <1>1, <1>3 DEF s
  <2>3. PICK j \in DOMAIN Of(k) : InfosOf(ts)[n] = Of(k)[j]
    BY <2>1, <2>2
  <2>4. j \in DOMAIN ts[k].entries /\ Of(k)[j] = Info(ts[k], ts[k].entries[j], k)
    BY <2>3 DEF Of
  <2> QED  BY <2>2, <2>3, <2>4
<1> QED  BY <1>4, <1>5, <1>6

\* What is known of the LUNs a table was found on, and of the tables added.
FoundTables(found, table) ==
  found \in SUBSET (0..3) /\ \A l \in found : table[l].entries \in Seq(Entry)
Lists(new, found, table) ==
  /\ new \in Seq(Table)
  /\ \A i \in DOMAIN new : new[i].lun \in found /\ new[i].entries = table[new[i].lun].entries
  /\ \A l \in found : \E i \in DOMAIN new : new[i].lun = l

\* The loop adds the table of each LUN it found one on, and no other.
LEMMA InOrderFacts ==
  ASSUME NEW found, NEW table, FoundTables(found, table)
  PROVE  Lists(InOrder(found, table), found, table)
<1>0. found \in SUBSET (0..3) /\ \A l \in found : table[l].entries \in Seq(Entry)
  BY DEF FoundTables
<1> DEFINE One(k) == [lun |-> k - 1, entries |-> table[k - 1].entries]
           s == [k \in 1..4 |-> IF k - 1 \in found THEN <<One(k)>> ELSE <<>>]
           t == FlattenSeq(s)
<1>1. \A k \in 1..4 : k - 1 \in found => One(k) \in Table /\ One(k).lun = k - 1
                                      /\ One(k).entries = table[k - 1].entries
  BY <1>0 DEF Table
<1> HIDE DEF One
<1>2. s \in Seq(Seq(Table)) /\ Len(s) = 4
  BY <1>1
<1>3. t \in Seq(Table) /\ Gathers(t, s, 4)
  BY <1>2, FlattenFacts
<1>4. InOrder(found, table) = t
  BY DEF InOrder, One
<1>5. \A k \in 1..4 : s[k] = IF k - 1 \in found THEN <<One(k)>> ELSE <<>>
  OBVIOUS
<1> HIDE DEF s, t
<1>6. ASSUME NEW i \in DOMAIN t PROVE t[i].lun \in found /\ t[i].entries = table[t[i].lun].entries
  <2>1. PICK k \in 1..4 : \E j \in DOMAIN s[k] : t[i] = s[k][j]
    BY <1>3 DEF Gathers
  <2>2. k - 1 \in found /\ t[i] = One(k)
    BY <1>5, <2>1
  <2> QED  BY <1>1, <2>2
<1>7. ASSUME NEW l \in found PROVE \E i \in DOMAIN t : t[i].lun = l
  <2>1. l + 1 \in 1..4 /\ (l + 1) - 1 = l
    BY <1>0
  <2>2. s[l + 1] = <<One(l + 1)>> /\ One(l + 1).lun = l
    BY <1>1, <1>5, <2>1
  <2>3. 1 \in DOMAIN s[l + 1] /\ s[l + 1][1] = One(l + 1)
    BY <2>2
  <2>4. \E i \in DOMAIN t : t[i] = One(l + 1)
    BY <1>3, <2>1, <2>3 DEF Gathers
  <2> QED  BY <2>2, <2>4
<1> QED  BY <1>3, <1>4, <1>6, <1>7 DEF Lists

-----------------------------------------------------------------------------
(* Reading a table from a LUN *)

LEMMA Quotient ==
  ASSUME NEW a \in Nat, NEW d \in Nat, d >= 1
  PROVE  a \div d \in Nat /\ (a \div d) * d <= a /\ a < (a \div d + 1) * d
  OBVIOUS

LEMMA OneMore ==
  ASSUME NEW q \in Nat, NEW d \in Nat PROVE (q + 1) * d = q * d + d /\ q * d \in Nat
  OBVIOUS

LEMMA Smaller ==
  ASSUME NEW a \in Nat, NEW b \in Nat, NEW d \in Nat, d >= 1, a * d < b * d PROVE a < b
  OBVIOUS

\* The sectors that hold n bytes hold at least n bytes.
LEMMA Covers ==
  ASSUME NEW n \in Nat, NEW d \in Nat, d >= 1
  PROVE  DivCeil(n, d) \in Nat /\ n <= DivCeil(n, d) * d
<1> DEFINE m == n + d - 1   q == DivCeil(n, d)
<1>1. m \in Nat /\ q = m \div d
  BY DEF DivCeil
<1> HIDE DEF q
<1>2. q \in Nat /\ m < (q + 1) * d
  BY <1>1, Quotient
<1>3. (q + 1) * d = q * d + d /\ q * d \in Nat
  BY <1>2, OneMore
<1> HIDE DEF m
<1>4. m = n + d - 1
  BY DEF m
<1>5. n <= q * d
  BY <1>2, <1>3, <1>4
<1> QED  BY <1>2, <1>5 DEF q

\* As many entries lie on those sectors as the header counts.
LEMMA SlotsCovered ==
  ASSUME NEW num \in Nat, NEW ss \in Nat \ {0}
  PROVE  /\ (DivCeil(num * EntrySize, ss) * ss) \div EntrySize \in Nat
         /\ num <= (DivCeil(num * EntrySize, ss) * ss) \div EntrySize
<1> DEFINE a == DivCeil(num * EntrySize, ss) * ss   q == a \div EntrySize
<1>1. num * EntrySize \in Nat /\ EntrySize \in Nat /\ EntrySize >= 1
  BY DEF EntrySize
<1>2. DivCeil(num * EntrySize, ss) \in Nat /\ num * EntrySize <= a
  BY <1>1, Covers
<1>3. a \in Nat
  BY <1>2
<1> HIDE DEF a
<1>4. q \in Nat /\ a < (q + 1) * EntrySize
  BY <1>1, <1>3, Quotient
<1> HIDE DEF q
<1>5. num * EntrySize < (q + 1) * EntrySize
  BY <1>1, <1>2, <1>3, <1>4 DEF EntrySize
<1>6. num < q + 1
  BY <1>1, <1>4, <1>5, Smaller
<1>7. num <= q
  BY <1>4, <1>6
<1> QED  BY <1>4, <1>7 DEF a, q

\* The copy of the table whose entries begin there.
CopyAt(lun, start) == IF start = 2 THEN lun.prim ELSE lun.back

\* So all its slots are read, and the used ones are the entries.
LEMMA ParseWhole ==
  ASSUME NEW lun \in Disk, NEW start, NEW h, h.num = Len(CopyAt(lun, start).slots)
  PROVE  Parse(h, SlotsAt(lun, start, EntrySectors(h, lun.ss))) = Used(CopyAt(lun, start).slots)
<1> DEFINE copy == CopyAt(lun, start)
           n    == Len(copy.slots)
           got  == (EntrySectors(h, lun.ss) * lun.ss) \div EntrySize
<1>1. copy.slots \in Seq(Entry \cup {None}) /\ n \in Nat /\ lun.ss \in Nat \ {0}
  BY LenProperties DEF TableCopy, Disk, CopyAt
<1> HIDE DEF copy
<1>2. got \in Nat /\ n <= got
  BY <1>1, SlotsCovered DEF EntrySectors, copy
<1> HIDE DEF got, n
<1>3. Lowest(n, got) = n /\ Lowest(n, n) = n
  BY <1>1, <1>2 DEF Lowest
<1>4. SubSeq(copy.slots, 1, n) = copy.slots
  BY <1>1 DEF n
<1>5. SlotsAt(lun, start, EntrySectors(h, lun.ss)) = copy.slots
  BY <1>3, <1>4 DEF SlotsAt, n, got, copy, CopyAt
<1> QED  BY <1>3, <1>4, <1>5 DEF Parse, n, copy

LEMMA ReadFacts ==
  ASSUME NEW lun \in Disk, Apart(lun), NEW total, NEW ss
  PROVE  LET t == ReadGpt(lun, ss, total) IN
         /\ t.header # None => /\ ss = lun.ss /\ Readable(lun) /\ t.entries = Reference(lun)
                               /\ t.header.other \in Nat
         /\ t.header = None /\ ss = lun.ss =>
              ~lun.prim.head /\ (total = lun.total => ~lun.back.head)
         /\ t = NoTable \/ t.header # None
<1> DEFINE a == Area(lun, lun.prim)   b == Area(lun, lun.back)
<1>1. /\ lun.prim \in TableCopy /\ lun.back \in TableCopy /\ lun.total \in Nat /\ lun.ss \in Nat \ {0}
      /\ lun.prim.head \in BOOLEAN /\ lun.back.head \in BOOLEAN
      /\ Len(lun.prim.slots) \in Nat /\ Len(lun.back.slots) \in Nat
  BY LenProperties DEF Disk, TableCopy
<1>2. a \in Nat /\ b \in Nat
  <2>1. \A n \in Nat : n * EntrySize \in Nat
    BY DEF EntrySize
  <2>2. \A n \in Nat : DivCeil(n * EntrySize, lun.ss) \in Nat
    <3>1. lun.ss \in Nat /\ lun.ss >= 1
      BY <1>1
    <3> QED  BY <2>1, <3>1, Covers
  <2> QED  BY <1>1, <2>2 DEF Area
<1>3. 3 + a + b < lun.total
  BY DEF Apart
<1> DEFINE back == [start |-> lun.total - 1 - b, num |-> Len(lun.back.slots), other |-> 1]
           prim == [start |-> 2, num |-> Len(lun.prim.slots), other |-> lun.total - 1]
<1> HIDE DEF a, b
<1>4. lun.total - 1 - b \in Nat /\ lun.total - 1 - b # 2 /\ lun.total - 1 # 1 /\ lun.total - 1 \in Nat
      /\ lun.total # 0
  BY <1>1, <1>2, <1>3
<1>5. prim # None /\ back # None
  BY <1>1, <1>4, NoneAssumption
<1>6. HeaderAt(lun, 1) = IF lun.prim.head THEN prim ELSE None
  BY <1>1, <1>4 DEF HeaderAt
<1> DEFINE h == IF HeaderAt(lun, 1) # None \/ total = 0 THEN HeaderAt(lun, 1)
                ELSE HeaderAt(lun, BackupLba(total))
           t == ReadGpt(lun, ss, total)
<1>7. t = IF h = None \/ ss # lun.ss THEN NoTable
          ELSE [header |-> h, entries |-> Parse(h, SlotsAt(lun, EntryLba(h), EntrySectors(h, ss)))]
  BY DEF ReadGpt
<1>8. CASE lun.prim.head
  <2>1. h = prim
    BY <1>5, <1>6, <1>8
  <2>2. Parse(prim, SlotsAt(lun, 2, EntrySectors(prim, lun.ss))) = Used(lun.prim.slots)
    <3>1. prim.num = Len(CopyAt(lun, 2).slots) /\ CopyAt(lun, 2) = lun.prim
      BY DEF CopyAt
    <3> HIDE DEF prim
    <3> QED  BY <3>1, ParseWhole
  <2>3. EntryLba(prim) = 2 /\ Readable(lun) /\ Reference(lun) = Used(lun.prim.slots) /\ prim.other \in Nat
    BY <1>4, <1>8 DEF EntryLba, Readable, Reference
  <2> HIDE DEF prim, back, h, t
  <2>4. t = IF ss # lun.ss THEN NoTable ELSE [header |-> prim, entries |-> Reference(lun)]
    BY <1>5, <1>7, <2>1, <2>2, <2>3
  <2> QED  BY <1>5, <2>3, <2>4 DEF NoTable, t
<1>9. CASE ~lun.prim.head
  <2>1. HeaderAt(lun, 1) = None
    BY <1>6, <1>9
  <2>2. \A x : HeaderAt(lun, x) = IF x = lun.total - 1 /\ lun.back.head THEN back ELSE None
    BY <1>1, <1>4, <1>9 DEF HeaderAt, b
  <2>3. h \in {back, None} /\ (h = back => lun.back.head) /\ (total = lun.total /\ lun.back.head => h = back)
    BY <1>4, <1>5, <2>1, <2>2 DEF BackupLba
  <2>4. Parse(back, SlotsAt(lun, lun.total - 1 - b, EntrySectors(back, lun.ss))) = Used(lun.back.slots)
    <3> DEFINE start == lun.total - 1 - b
    <3>1. back.num = Len(CopyAt(lun, start).slots) /\ CopyAt(lun, start) = lun.back
      BY <1>4 DEF CopyAt
    <3> HIDE DEF back, start
    <3>2. Parse(back, SlotsAt(lun, start, EntrySectors(back, lun.ss))) = Used(lun.back.slots)
      BY <3>1, ParseWhole
    <3> QED  BY <3>2 DEF start
  <2>5. EntryLba(back) = lun.total - 1 - b /\ Reference(lun) = Used(lun.back.slots) /\ back.other \in Nat
    BY <1>9 DEF EntryLba, Reference
  <2>6. lun.back.head => Readable(lun)
    BY DEF Readable
  <2> HIDE DEF prim, back, h, t
  <2>7. t = IF h = None \/ ss # lun.ss THEN NoTable ELSE [header |-> back, entries |-> Reference(lun)]
    BY <1>7, <2>3, <2>4, <2>5
  <2>8. t.header = IF h = None \/ ss # lun.ss THEN None ELSE back
    BY <2>7 DEF NoTable
  <2> QED  BY <1>5, <1>9, <2>3, <2>5, <2>6, <2>7, <2>8 DEF NoTable, t
<1> QED  BY <1>8, <1>9

-----------------------------------------------------------------------------
(* Types: the phones, the executor's fields *)

AllLayouts == UNION {Layouts[d] : d \in Phones}
Memories   == {"eMMC", "UFS"}
ClientType  == [memory : Memories, ss : Nat, total : Nat]
SessionType == [phone : Phones, ids : Phones \cup {None}, memory : Memories, ss : Nat, total : Nat]
DeviceType  == [port : Ports, phone : Phones]
PortType    == [port : Ports, phone : Phones, since : 0..MaxPlugs]

PhonesOK ==
  /\ plugs \in 0..MaxPlugs /\ since \in [Ports -> 0..plugs]
  /\ plugged \in [Ports -> Phones \cup {None}]
  /\ mode \in [Phones -> {"sahara", "firehose"}]
  /\ gpt \in [Phones -> AllLayouts] /\ \A d \in Phones : gpt[d] \in Layouts[d]

FieldsOK ==
  /\ setting \in Settings /\ calls \in 0..MaxCalls
  /\ state \in {"Disconnected", "Connected", "Ready", "Resetting"}
  /\ client \in ClientType
  /\ device \in DeviceType \cup {None} /\ session \in SessionType \cup {None}
  /\ transport \in PortType \cup {None}
  /\ (device = None) = (session = None)
  /\ transport # None => device # None

TypesOK == PhonesOK /\ FieldsOK

LEMMA DiskFacts ==
  ASSUME PhonesOK, NEW d \in Phones
  PROVE  /\ gpt[d] \in Seq(Disk) /\ Len(gpt[d]) \in Nat /\ Len(gpt[d]) >= 1 /\ DOMAIN gpt[d] = 1..Len(gpt[d])
         /\ \A k \in 1..Len(gpt[d]) : gpt[d][k] \in Disk /\ gpt[d][k].ss = gpt[d][1].ss /\ Apart(gpt[d][k])
<1>1. gpt[d] \in Seq(Disk) /\ gpt[d] # <<>>
      /\ \A k \in DOMAIN gpt[d] : gpt[d][k].ss = gpt[d][1].ss /\ Apart(gpt[d][k])
  BY PhoneAssumption DEF PhonesOK
<1>2. Len(gpt[d]) \in Nat /\ Len(gpt[d]) # 0 /\ DOMAIN gpt[d] = 1..Len(gpt[d])
  BY <1>1, EmptySeq, LenProperties
<1>3. \A k \in 1..Len(gpt[d]) : gpt[d][k] \in Disk
  BY <1>1, ElementOfSeq
<1> QED  BY <1>1, <1>2, <1>3

LEMMA NotNone == None \notin DeviceType /\ None \notin SessionType /\ None \notin PortType
<1>1. None \notin DeviceType /\ None \notin SessionType
  BY NoneAssumption DEF DeviceType, SessionType, Memories
<1>2. \A x \in PortType : x # None
  BY ExecutorAssumption DEF PortType
<1> QED  BY <1>1, <1>2

LEMMA InitTypes == Init => TypesOK
<1> SUFFICES ASSUME Init PROVE TypesOK
  OBVIOUS
<1>1. MaxPlugs \in Nat /\ MaxCalls \in Nat /\ 0 \in 0..0
  BY ExecutorAssumption
<1>2. plugs \in 0..MaxPlugs /\ since \in [Ports -> 0..plugs] /\ plugged \in [Ports -> Phones \cup {None}]
  BY <1>1 DEF Init
<1>3. mode \in [Phones -> {"sahara", "firehose"}] /\ gpt \in [Phones -> AllLayouts]
      /\ \A d \in Phones : gpt[d] \in Layouts[d]
  BY DEF Init, AllLayouts
<1>4. FieldsOK
  BY <1>1 DEF Init, FieldsOK, DefaultClient, ClientType, Memories
<1> QED  BY <1>2, <1>3, <1>4 DEF TypesOK, PhonesOK

\* What a phone reports are numbers and a memory of the two.
LEMMA ReportedType ==
  ASSUME PhonesOK, NEW d \in Phones, NEW fields, NEW c \in ClientType
  PROVE  Reported(d, fields, c) \in ClientType
<1>1. Hardware[d].memory \in Memories /\ Hardware[d].ss \in Nat
  BY PhoneAssumption DEF Memories
<1>2. TotalOf(d) \in Nat
  BY DiskFacts DEF TotalOf, Disk
<1> QED  BY <1>1, <1>2 DEF Reported, ClientType

LEMMA ToldType ==
  ASSUME session \in SessionType, NEW c \in ClientType, NEW o
  PROVE  ToldAfter(c, o) \in SessionType
  BY DEF SessionType, ClientType, ToldAfter, Told

\* An open port leads to a phone.
LEMMA TalksTo ==
  ASSUME TypesOK, Talks
  PROVE  /\ transport \in PortType /\ transport.port \in Ports /\ transport.phone \in Phones
         /\ device # None /\ session \in SessionType
  BY DEF TypesOK, FieldsOK, Talks, PortType

LEMMA ThereTypes ==
  ASSUME TypesOK, There
  PROVE  /\ device \in DeviceType /\ device.port \in Ports /\ plugged[device.port] \in Phones
         /\ session \in SessionType /\ OpenedTo(device.port) \in PortType
<1>1. device \in DeviceType /\ device.port \in Ports /\ plugged[device.port] \in Phones
      /\ session \in SessionType
  BY DEF TypesOK, FieldsOK, PhonesOK, There, DeviceType
<1>2. since[device.port] \in 0..MaxPlugs
  BY <1>1, ExecutorAssumption DEF TypesOK, PhonesOK
<1> QED  BY <1>1, <1>2 DEF OpenedTo, PortType

LEMMA PlugTypes ==
  ASSUME TypesOK, NEW p \in Ports, Unplug(p) \/ \E d \in Phones : Plug(p, d)
  PROVE  TypesOK'
<1>0. UNCHANGED <<setting, state, device, session, transport, client, calls>>
  BY DEF Unplug, Plug, identity
<1>1. FieldsOK'
  BY <1>0 DEF TypesOK, FieldsOK
<1>2. MaxPlugs \in Nat /\ plugs' = plugs + 1 /\ plugs' \in 0..MaxPlugs /\ UNCHANGED gpt
  BY ExecutorAssumption DEF TypesOK, PhonesOK, Unplug, Plug
<1>3. since' \in [Ports -> 0..plugs']
  BY <1>2 DEF TypesOK, PhonesOK, Unplug, Plug
<1>4. plugged' \in [Ports -> Phones \cup {None}] /\ mode' \in [Phones -> {"sahara", "firehose"}]
  BY DEF TypesOK, PhonesOK, Unplug, Plug
<1> QED  BY <1>1, <1>2, <1>3, <1>4 DEF TypesOK, PhonesOK

LEMMA CallTypes ==
  ASSUME TypesOK, NEW p, Call(p) PROVE TypesOK'
<1>1. PhonesOK'
  BY DEF TypesOK, PhonesOK, Call, world
<1>2. FieldsOK'
  BY ExecutorAssumption DEF TypesOK, FieldsOK, Call, identity
<1> QED  BY <1>1, <1>2 DEF TypesOK

LEMMA ConnectTypes ==
  ASSUME TypesOK, Connect PROVE TypesOK'
<1>1. PhonesOK'
  BY DEF TypesOK, PhonesOK, Connect, world
<1>2. CASE UNCHANGED <<device, state, session>>
  BY <1>1, <1>2 DEF TypesOK, FieldsOK, Connect
<1>3. CASE \E p \in Ports : /\ plugged[p] # None /\ device' = [port |-> p, phone |-> plugged[p]]
                            /\ state' = StateConnected /\ session' = NewSession(plugged[p])
  <2>1. PICK p \in Ports : /\ plugged[p] # None /\ device' = [port |-> p, phone |-> plugged[p]]
                           /\ state' = StateConnected /\ session' = NewSession(plugged[p])
    BY <1>3
  <2>2. plugged[p] \in Phones
    BY <2>1 DEF TypesOK, PhonesOK
  <2>3. device' \in DeviceType /\ session' \in SessionType
    BY <2>1, <2>2 DEF DeviceType, SessionType, NewSession, Memories
  <2>4. UNCHANGED <<setting, transport, client, calls>> /\ state' = "Connected"
    BY <2>1 DEF Connect, StateConnected
  <2> QED  BY <1>1, <2>3, <2>4, NotNone DEF TypesOK, FieldsOK
<1> QED  BY <1>2, <1>3 DEF Connect

LEMMA HandshakeTypes ==
  ASSUME TypesOK, Handshake PROVE TypesOK'
<1>1. UNCHANGED <<plugged, since, plugs, gpt, setting, device, client, calls>>
  BY DEF Handshake
<1>2. ASSUME There /\ mode' = [mode EXCEPT ![plugged[device.port]] = "firehose"] PROVE PhonesOK'
  BY <1>1, <1>2, ThereTypes DEF TypesOK, PhonesOK
<1>3. ASSUME mode' = mode PROVE PhonesOK'
  BY <1>1, <1>3 DEF TypesOK, PhonesOK
<1>4. ASSUME UNCHANGED <<session, transport, state>> PROVE FieldsOK'
  BY <1>1, <1>4 DEF TypesOK, FieldsOK
<1>5. ASSUME /\ There /\ transport' = OpenedTo(device.port) /\ state' = "Ready"
             /\ \E ids \in {None, plugged[device.port]} : session' = [session EXCEPT !.ids = ids]
      PROVE  FieldsOK'
  <2>1. session' \in SessionType /\ transport' \in PortType /\ device # None
    BY <1>5, ThereTypes, NotNone DEF SessionType
  <2> QED  BY <1>1, <1>5, <2>1, NotNone DEF TypesOK, FieldsOK
<1> QED  BY <1>2, <1>3, <1>4, <1>5 DEF Handshake, TypesOK

LEMMA InitFirehoseTypes ==
  ASSUME TypesOK, InitFirehose PROVE TypesOK'
<1>1. UNCHANGED <<world, setting, state, device, transport, calls>>
  BY DEF InitFirehose
<1>2. PhonesOK'
  BY <1>1 DEF TypesOK, PhonesOK, world
<1>3. CASE Talks /\ LET c == Configured(transport.phone, client)
                    IN client' \in {c, Stored(transport.phone, c)} /\ session' = ToldAfter(client', c)
  <2>1. transport.phone \in Phones /\ device # None /\ session \in SessionType
    BY <1>3, TalksTo
  <2>2. client' \in ClientType
    BY <1>3, <2>1, ReportedType DEF TypesOK, FieldsOK, Configured, Stored
  <2>3. session' \in SessionType
    BY <1>3, <2>1, <2>2, ToldType
  <2> QED  BY <1>1, <1>2, <2>1, <2>2, <2>3, NotNone DEF TypesOK, FieldsOK
<1>4. CASE UNCHANGED <<client, session>>
  BY <1>1, <1>2, <1>4 DEF TypesOK, FieldsOK
<1> QED  BY <1>3, <1>4 DEF InitFirehose

LEMMA DirectTypes ==
  ASSUME TypesOK, Direct PROVE TypesOK'
<1>1. UNCHANGED <<world, setting, device, session, calls>>
  BY DEF Direct
<1>2. PhonesOK'
  BY <1>1 DEF TypesOK, PhonesOK, world
<1>3. CASE /\ There /\ client' = Configured(plugged[device.port], client)
           /\ transport' = OpenedTo(device.port) /\ state' = "Ready"
  <2>1. transport' \in PortType /\ device # None /\ client' \in ClientType
    BY <1>3, ThereTypes, ReportedType, NotNone DEF TypesOK, FieldsOK, Configured
  <2> QED  BY <1>1, <1>2, <1>3, <2>1 DEF TypesOK, FieldsOK
<1>4. CASE UNCHANGED <<client, transport, state>>
  BY <1>1, <1>2, <1>4 DEF TypesOK, FieldsOK
<1> QED  BY <1>3, <1>4 DEF Direct

LEMMA StorageTypes ==
  ASSUME TypesOK, Storage PROVE TypesOK'
<1>1. UNCHANGED <<world, setting, state, device, transport, calls>>
  BY DEF Storage
<1>2. PhonesOK'
  BY <1>1 DEF TypesOK, PhonesOK, world
<1>3. CASE /\ Talks /\ client' \in {client, Stored(transport.phone, client)}
           /\ session' = ToldAfter(client', client)
  <2>1. transport.phone \in Phones /\ device # None /\ session \in SessionType
    BY <1>3, TalksTo
  <2>2. client' \in ClientType
    BY <1>3, <2>1, ReportedType DEF TypesOK, FieldsOK, Stored
  <2>3. session' \in SessionType
    BY <1>3, <2>1, <2>2, ToldType
  <2> QED  BY <1>1, <1>2, <2>1, <2>2, <2>3, NotNone DEF TypesOK, FieldsOK
<1>4. CASE UNCHANGED <<client, session>>
  BY <1>1, <1>2, <1>4 DEF TypesOK, FieldsOK
<1> QED  BY <1>3, <1>4 DEF Storage

LEMMA JobTypes ==
  ASSUME TypesOK, WriteJob \/ FlashJob \/ InfoJob \/ Reboot PROVE TypesOK'
<1>1. CASE WriteJob
  BY <1>1 DEF WriteJob, TypesOK, PhonesOK, FieldsOK, world, identity
<1>2. CASE FlashJob
  <2>1. FieldsOK'
    BY <1>2 DEF FlashJob, TypesOK, FieldsOK, identity
  <2>2. UNCHANGED <<plugged, since, plugs, mode>>
    BY <1>2 DEF FlashJob
  <2>3. CASE Talks /\ \E luns \in Layouts[transport.phone] : gpt' = [gpt EXCEPT ![transport.phone] = luns]
    <3>1. transport.phone \in Phones
      BY <2>3, TalksTo
    <3>2. gpt' \in [Phones -> AllLayouts] /\ \A d \in Phones : gpt'[d] \in Layouts[d]
      BY <2>3, <3>1 DEF TypesOK, PhonesOK, AllLayouts
    <3> QED  BY <2>1, <2>2, <3>2 DEF TypesOK, PhonesOK
  <2>4. CASE UNCHANGED gpt
    BY <2>1, <2>2, <2>4 DEF TypesOK, PhonesOK
  <2> QED  BY <1>2, <2>3, <2>4 DEF FlashJob
<1>3. CASE InfoJob
  <2>1. PhonesOK' /\ UNCHANGED <<setting, identity, calls>>
    BY <1>3 DEF InfoJob, TypesOK, PhonesOK, world
  <2>2. client' \in ClientType
    BY <1>3, TalksTo, ReportedType DEF InfoJob, TypesOK, FieldsOK
  <2> QED  BY <2>1, <2>2 DEF TypesOK, FieldsOK, identity
<1>4. CASE Reboot
  <2>1. PhonesOK'
    BY <1>4 DEF Reboot, TypesOK, PhonesOK
  <2>2. FieldsOK'
    BY <1>4 DEF Reboot, TypesOK, FieldsOK
  <2> QED  BY <2>1, <2>2 DEF TypesOK
<1> QED  BY <1>1, <1>2, <1>3, <1>4

-----------------------------------------------------------------------------
(* Lookups by name *)

\* A lookup by the exact name returns a partition of that name, and none only
\* if there is none.
LEMMA FindFacts ==
  ASSUME NEW ps \in Seq(Place), NEW name
  PROVE  /\ FindInfo(ps, name) # None =>
              \E n \in DOMAIN ps : FindInfo(ps, name) = ps[n] /\ ps[n].name = name
         /\ (\E n \in DOMAIN ps : ps[n].name = name) => FindInfo(ps, name) # None
<1> DEFINE at == {n \in 1..Len(ps) : ps[n].name = name}
<1>1. Len(ps) \in Nat /\ DOMAIN ps = 1..Len(ps) /\ \A n \in 1..Len(ps) : ps[n] \in Place
  BY LenProperties, ElementOfSeq
<1>2. FindInfo(ps, name) = LET m == IF at # {} THEN Min(at) ELSE 0 IN IF m = 0 THEN None ELSE ps[m]
  BY DEF FindInfo, FirstIn, SelectInSeq
<1>3. at # {} => Min(at) \in at
  <2>1. at \in SUBSET Nat
    BY <1>1
  <2> HIDE DEF at
  <2> QED  BY <2>1, MinFacts
<1>4. None \notin Place
  BY NoneAssumption DEF Place
<1>5. CASE at = {}
  BY <1>1, <1>2, <1>5
<1>6. CASE at # {}
  <2>1. Min(at) \in 1..Len(ps) /\ ps[Min(at)].name = name /\ Min(at) # 0
    BY <1>1, <1>3, <1>6
  <2> HIDE DEF at
  <2>2. FindInfo(ps, name) = ps[Min(at)]
    BY <1>2, <1>6, <2>1
  <2> QED  BY <1>1, <1>4, <2>1, <2>2
<1> QED  BY <1>5, <1>6

\* Without blanks around any name the index is of the names as they are.
LEMMA IndexIsFind ==
  ASSUME NEW ps \in Seq(Place), NEW name, \A j \in DOMAIN ps : ps[j].name.style # "padded"
  PROVE  Index(ps, name) = FindInfo(ps, name)
<1>1. DOMAIN ps = 1..Len(ps)
  BY LenProperties
<1>2. \A j \in 1..Len(ps) : Trim(ps[j].name) = ps[j].name
  BY <1>1 DEF Trim
<1>3. {n \in 1..Len(ps) : Trim(ps[n].name) = name} = {n \in 1..Len(ps) : ps[n].name = name}
  BY <1>2
<1> QED  BY <1>3 DEF Index, FindInfo, FirstIn, SelectInSeq

LEMMA LookupsAgree ==
  ASSUME infos \in Seq(Place) PROVE FindsAgree
<1> SUFFICES ASSUME NEW k \in DOMAIN infos, \A j \in DOMAIN infos : infos[j].name.style # "padded"
             PROVE  FindInMap(infos, infos[k].name) = FindInfo(infos, infos[k].name)
  BY DEF FindsAgree
<1>1. Index(infos, infos[k].name) = FindInfo(infos, infos[k].name)
  BY IndexIsFind
<1>2. FindInfo(infos, infos[k].name) # None
  BY FindFacts
<1> QED  BY <1>1, <1>2 DEF FindInMap

-----------------------------------------------------------------------------
(* A load *)

\* What is read of each LUN, those with a table, and what is noted of it.
Read(unread) ==
  [l \in Luns |-> IF l \in unread \/ l >= Len(gpt[transport.phone]) THEN NoTable
                  ELSE ReadGpt(gpt[transport.phone][l + 1], client.ss, client.total)]
Found(unread) == {l \in Luns : Read(unread)[l].header # None}
Noted(unread, ok) ==
  [ok |-> ok, at |-> Len(tables), phone |-> transport.phone, luns |-> gpt[transport.phone],
   tried |-> Luns, unread |-> unread, total |-> client.total, ss |-> client.ss]

LEMMA LoadCases ==
  ASSUME LoadGpt
  PROVE  \/ UNCHANGED <<tables, infos, client, seen>>
         \/ Talks /\ \E unread :
              \/ /\ 0 \in Found(unread)
                 /\ tables' = tables \o InOrder(Found(unread), Read(unread))
                 /\ infos' = InfosOf(tables')
                 /\ client' = [client EXCEPT !.total = IF @ = 0 THEN Read(unread)[0].header.other + 1 ELSE @]
                 /\ seen' = Noted(unread, TRUE)
              \/ /\ 0 \notin Found(unread) /\ UNCHANGED <<tables, infos, client>>
                 /\ seen' = Noted(unread, FALSE)
  BY DEF LoadGpt, maps, Read, Found, Noted

\* What a load reads is the intact copy of the table, of LUNs of the phone; what
\* it does not find, of LUNs that could be read, is not there to be found.
LEMMA ReadTrue ==
  ASSUME TypesOK, Talks, NEW unread
  PROVE  LET luns == gpt[transport.phone] IN
         /\ \A l \in Found(unread) :
              /\ l \in 0..3 /\ l + 1 \in DOMAIN luns /\ client.ss = luns[l + 1].ss
              /\ Readable(luns[l + 1]) /\ Read(unread)[l].entries = Reference(luns[l + 1])
              /\ Read(unread)[l].entries \in Seq(Entry) /\ Read(unread)[l].header.other \in Nat
         /\ \A l \in Luns \ unread : l \notin Found(unread) /\ l + 1 \in DOMAIN luns
                                     /\ client.ss = luns[l + 1].ss =>
              /\ ~luns[l + 1].prim.head
              /\ client.total = luns[l + 1].total => ~luns[l + 1].back.head
<1> DEFINE luns == gpt[transport.phone]
<1>1. /\ Len(luns) \in Nat /\ DOMAIN luns = 1..Len(luns)
      /\ \A k \in 1..Len(luns) : luns[k] \in Disk /\ Apart(luns[k])
  BY TalksTo, DiskFacts DEF TypesOK
<1>2. Luns \subseteq 0..3
  BY DEF Luns
<1>3. \A l \in Luns : Read(unread)[l] = IF l \in unread \/ l >= Len(luns) THEN NoTable
                                        ELSE ReadGpt(luns[l + 1], client.ss, client.total)
  BY DEF Read
<1> HIDE DEF luns
<1>4. ASSUME NEW l \in Found(unread)
      PROVE  /\ l \in 0..3 /\ l + 1 \in DOMAIN luns /\ client.ss = luns[l + 1].ss
             /\ Readable(luns[l + 1]) /\ Read(unread)[l].entries = Reference(luns[l + 1])
             /\ Read(unread)[l].entries \in Seq(Entry) /\ Read(unread)[l].header.other \in Nat
  <2>1. l \in Luns /\ l \in 0..3 /\ Read(unread)[l].header # None
    BY <1>2 DEF Found
  <2>2. l < Len(luns) /\ Read(unread)[l] = ReadGpt(luns[l + 1], client.ss, client.total)
    BY <1>1, <1>3, <2>1 DEF NoTable
  <2>3. l + 1 \in 1..Len(luns)
    BY <1>1, <2>1, <2>2
  <2> DEFINE lun == luns[l + 1]
  <2>4. lun \in Disk /\ Apart(lun)
    BY <1>1, <2>3
  <2> HIDE DEF lun
  <2>5. LET t == ReadGpt(lun, client.ss, client.total) IN
        t.header # None => /\ client.ss = lun.ss /\ Readable(lun) /\ t.entries = Reference(lun)
                           /\ t.header.other \in Nat
    BY <2>4, ReadFacts
  <2>6. Reference(lun) \in Seq(Entry)
    BY <2>4, UsedFacts DEF Reference, Disk, TableCopy
  <2> QED  BY <1>1, <2>1, <2>2, <2>3, <2>5, <2>6 DEF lun
<1>5. ASSUME NEW l \in Luns \ unread, l \notin Found(unread), l + 1 \in DOMAIN luns,
             client.ss = luns[l + 1].ss
      PROVE  /\ ~luns[l + 1].prim.head
             /\ client.total = luns[l + 1].total => ~luns[l + 1].back.head
  <2>1. l \in 0..3 /\ l < Len(luns) /\ Read(unread)[l].header = None
    <3>1. l \in 0..3 /\ l + 1 \in 1..Len(luns)
      BY <1>1, <1>2, <1>5
    <3>2. Read(unread)[l].header = None
      BY <1>5 DEF Found
    <3> QED  BY <1>1, <3>1, <3>2
  <2>2. Read(unread)[l] = ReadGpt(luns[l + 1], client.ss, client.total)
    BY <1>1, <1>3, <2>1
  <2> DEFINE lun == luns[l + 1]
  <2>3. lun \in Disk /\ Apart(lun)
    BY <1>1, <1>5
  <2> HIDE DEF lun
  <2>4. LET t == ReadGpt(lun, client.ss, client.total) IN
        t.header = None /\ client.ss = lun.ss => ~lun.prim.head /\ (client.total = lun.total => ~lun.back.head)
    BY <2>3, ReadFacts
  <2> QED  BY <1>5, <2>1, <2>2, <2>4 DEF lun
<1> QED  BY <1>4, <1>5 DEF luns

LEMMA LoadTypes ==
  ASSUME TypesOK, LoadGpt PROVE TypesOK'
<1>1. PhonesOK'
  BY DEF LoadGpt, TypesOK, PhonesOK, world
<1>2. UNCHANGED <<setting, identity, calls>>
  BY DEF LoadGpt
<1>3. client' \in ClientType
  <2>1. CASE client' = client
    BY <2>1 DEF TypesOK, FieldsOK
  <2>2. CASE Talks /\ \E unread : 0 \in Found(unread)
               /\ client' = [client EXCEPT !.total = IF @ = 0 THEN Read(unread)[0].header.other + 1 ELSE @]
    <3>1. PICK unread : 0 \in Found(unread)
             /\ client' = [client EXCEPT !.total = IF @ = 0 THEN Read(unread)[0].header.other + 1 ELSE @]
      BY <2>2
    <3>2. Read(unread)[0].header.other \in Nat
      BY <2>2, <3>1, ReadTrue
    <3> DEFINE other == Read(unread)[0].header.other
    <3>3. client' = [client EXCEPT !.total = IF client.total = 0 THEN other + 1 ELSE client.total]
      BY <3>1 DEF TypesOK, FieldsOK, ClientType
    <3> HIDE DEF other
    <3> QED  BY <3>2, <3>3 DEF TypesOK, FieldsOK, ClientType, other
  <2> QED  BY <2>1, <2>2, LoadCases
<1> QED  BY <1>1, <1>2, <1>3 DEF TypesOK, FieldsOK, identity

LEMMA NextTypes == TypesOK /\ [Next]_vars => TypesOK'
<1> SUFFICES ASSUME TypesOK, [Next]_vars PROVE TypesOK'
  OBVIOUS
<1>1. CASE \E p \in Programs : Call(p)
  BY <1>1, CallTypes
<1>2. CASE Step
  BY <1>2, ConnectTypes, HandshakeTypes, InitFirehoseTypes, DirectTypes, StorageTypes,
     LoadTypes, JobTypes DEF Step
<1>3. CASE \E p \in Ports : Unplug(p) \/ \E d \in Phones : Plug(p, d)
  BY <1>3, PlugTypes
<1>4. CASE UNCHANGED vars
  <2>1. PhonesOK'
    BY <1>4 DEF vars, world, TypesOK, PhonesOK
  <2>2. FieldsOK'
    BY <1>4 DEF vars, identity, TypesOK, FieldsOK
  <2> QED  BY <2>1, <2>2 DEF TypesOK
<1> QED  BY <1>1, <1>2, <1>3, <1>4 DEF Next

-----------------------------------------------------------------------------
(* What a load leaves behind *)

\* What is appended to a sequence is what follows it.
LEMMA Appended ==
  ASSUME NEW T, NEW s \in Seq(T), NEW t \in Seq(T)
  PROVE  /\ s \o t \in Seq(T) /\ Len(s) \in 0..Len(s \o t)
         /\ SubSeq(s \o t, Len(s) + 1, Len(s \o t)) = t
<1>1. Len(s) \in Nat /\ Len(t) \in Nat /\ s \o t \in Seq(T) /\ Len(s \o t) = Len(s) + Len(t)
      /\ \A i \in 1..Len(t) : (s \o t)[Len(s) + i] = t[i]
  BY ConcatProperties, LenProperties
<1> DEFINE u == s \o t   v == SubSeq(u, Len(s) + 1, Len(u))
<1> HIDE DEF u
<1>2. u \in Seq(T) /\ Len(u) = Len(s) + Len(t) /\ \A i \in 1..Len(t) : u[Len(s) + i] = t[i]
  BY <1>1 DEF u
<1>3. Len(v) = Len(t) /\ v \in Seq(T) /\ \A i \in 1..Len(t) : v[i] = t[i]
  BY <1>1, <1>2
<1>4. v = t
  BY <1>1, <1>3
<1> QED  BY <1>1, <1>2, <1>4 DEF u

\* The tables of the last load are those of LUNs the phone had.
Kept ==
  /\ tables \in Seq(Table) /\ infos = InfosOf(tables)
  /\ seen # None /\ seen.ok => \A k \in DOMAIN Loaded : Loaded[k].lun + 1 \in DOMAIN seen.luns

LoadOK == Kept /\ LoadedTrue /\ LoadVerdict

LEMMA LoadSucceeds ==
  ASSUME TypesOK, Kept, Talks, NEW unread,
         0 \in Found(unread), tables' = tables \o InOrder(Found(unread), Read(unread)),
         infos' = InfosOf(tables'), seen' = Noted(unread, TRUE)
  PROVE  LoadOK'
<1> DEFINE luns == gpt[transport.phone]
           new  == InOrder(Found(unread), Read(unread))
<1>1. /\ \A l \in Found(unread) :
           /\ l \in 0..3 /\ l + 1 \in DOMAIN luns /\ client.ss = luns[l + 1].ss
           /\ Readable(luns[l + 1]) /\ Read(unread)[l].entries = Reference(luns[l + 1])
           /\ Read(unread)[l].entries \in Seq(Entry)
      /\ \A l \in Luns \ unread : l \notin Found(unread) /\ l + 1 \in DOMAIN luns
                                  /\ client.ss = luns[l + 1].ss => ~luns[l + 1].prim.head
  BY ReadTrue
<1>2. /\ DOMAIN luns \subseteq Nat /\ \A k \in DOMAIN luns : luns[k].ss = luns[1].ss
  <2>1. transport.phone \in Phones /\ PhonesOK
    BY TalksTo DEF TypesOK
  <2>2. DOMAIN luns = 1..Len(luns) /\ \A k \in 1..Len(luns) : luns[k].ss = luns[1].ss
    BY <2>1, DiskFacts
  <2> QED  BY <2>2
<1> HIDE DEF luns
<1>3. /\ new \in Seq(Table)
      /\ \A i \in DOMAIN new : new[i].lun \in Found(unread) /\ new[i].entries = Read(unread)[new[i].lun].entries
      /\ \A l \in Found(unread) : \E i \in DOMAIN new : new[i].lun = l
  <2>1. FoundTables(Found(unread), Read(unread))
    BY <1>1 DEF FoundTables
  <2> QED  BY <2>1, InOrderFacts DEF new, Lists
<1>4. tables' = tables \o new /\ tables \in Seq(Table)
  BY DEF Kept
<1> HIDE DEF new
<1>5. tables' \in Seq(Table) /\ SubSeq(tables', Len(tables) + 1, Len(tables')) = new
  BY <1>3, <1>4, Appended
<1>6. /\ seen'.ok /\ seen'.at = Len(tables) /\ seen'.luns = luns /\ seen'.tried = Luns
      /\ seen'.unread = unread
  BY DEF Noted, luns
<1>7. Loaded' = new
  BY <1>5, <1>6 DEF Loaded
<1>8. Kept'
  <2>1. \A k \in DOMAIN new : new[k].lun + 1 \in DOMAIN luns
    BY <1>1, <1>3
  <2> QED  BY <1>5, <1>6, <1>7, <2>1 DEF Kept
<1>9. LoadedTrue'
  <2>1. \A k \in DOMAIN new : /\ Readable(luns[new[k].lun + 1])
                              /\ new[k].entries = Reference(luns[new[k].lun + 1])
    BY <1>1, <1>3
  <2>2. ASSUME NEW l \in DOMAIN luns, luns[l].prim.head, l - 1 \in Luns \ unread
        PROVE  \E k \in DOMAIN new : new[k].lun = l - 1
    <3>1. l \in Nat /\ (l - 1) + 1 = l /\ 0 + 1 = 1
      BY <1>2
    <3>2. client.ss = luns[l].ss
      BY <1>1, <1>2, <3>1
    <3>3. l - 1 \in Found(unread)
      BY <1>1, <2>2, <3>1, <3>2
    <3> QED  BY <1>3, <3>3
  <2> QED  BY <1>6, <1>7, <2>1, <2>2 DEF LoadedTrue
<1>10. LoadVerdict'
  BY <1>6 DEF LoadVerdict
<1> QED  BY <1>8, <1>9, <1>10 DEF LoadOK

LEMMA LoadFails ==
  ASSUME TypesOK, Kept, Talks, NEW unread,
         0 \notin Found(unread), UNCHANGED <<tables, infos>>, seen' = Noted(unread, FALSE)
  PROVE  LoadOK'
<1> DEFINE luns == gpt[transport.phone]
<1>1. \A l \in Luns \ unread : l \notin Found(unread) /\ l + 1 \in DOMAIN luns
                               /\ client.ss = luns[l + 1].ss =>
        /\ ~luns[l + 1].prim.head
        /\ client.total = luns[l + 1].total => ~luns[l + 1].back.head
  BY ReadTrue
<1>2. 1 \in DOMAIN luns
  BY TalksTo, DiskFacts DEF TypesOK
<1>3. 0 \in Luns /\ 0 + 1 = 1
  BY DEF Luns
<1>4. /\ ~seen'.ok /\ seen'.luns = luns /\ seen'.unread = unread /\ seen'.total = client.total
      /\ seen'.ss = client.ss
  BY DEF Noted
<1> HIDE DEF luns
<1>5. LoadVerdict'
  BY <1>1, <1>2, <1>3, <1>4 DEF LoadVerdict
<1>6. Kept' /\ LoadedTrue'
  BY <1>4 DEF Kept, LoadedTrue
<1> QED  BY <1>5, <1>6 DEF LoadOK

LEMMA SameLoad ==
  ASSUME LoadOK, UNCHANGED <<tables, infos, seen>> PROVE LoadOK'
  BY DEF LoadOK, Kept, LoadedTrue, LoadVerdict, Loaded

LEMMA NextLoad ==
  ASSUME TypesOK, LoadOK, [Next]_vars PROVE LoadOK'
<1>1. CASE LoadGpt
  <2>1. CASE UNCHANGED <<tables, infos, client, seen>>
    BY <2>1, SameLoad
  <2>2. CASE Talks /\ \E unread :
              \/ /\ 0 \in Found(unread)
                 /\ tables' = tables \o InOrder(Found(unread), Read(unread))
                 /\ infos' = InfosOf(tables') /\ seen' = Noted(unread, TRUE)
              \/ /\ 0 \notin Found(unread) /\ UNCHANGED <<tables, infos>>
                 /\ seen' = Noted(unread, FALSE)
    BY <2>2, LoadSucceeds, LoadFails DEF LoadOK
  <2> QED  BY <1>1, <2>1, <2>2, LoadCases
<1>2. CASE ~LoadGpt
  <2>1. UNCHANGED <<tables, infos, seen>>
    BY <1>2 DEF Next, Call, Step, Connect, Handshake, InitFirehose, Direct, Storage, WriteJob,
       FlashJob, InfoJob, Reboot, Plug, Unplug, vars, maps, history
  <2> QED  BY <2>1, SameLoad
<1> QED  BY <1>1, <1>2

-----------------------------------------------------------------------------
(* What jobs write *)

\* What is found by a name in tables that are true is a partition of the phone.
LEMMA FoundInside ==
  ASSUME TypesOK, LoadOK, NEW d \in Phones, TablesTrue(d), NEW name, FindInfo(infos, name) # None
  PROVE  LET on == FindInfo(infos, name) IN
         \E k \in DOMAIN gpt[d] :
           /\ on.lun = k - 1
           /\ [name |-> name, first |-> on.first, last |-> on.last] \in ToSet(gpt[d][k].prim.slots)
<1> DEFINE on == FindInfo(infos, name)   luns == gpt[d]
<1>1. tables \in Seq(Table) /\ infos = InfosOf(tables) /\ infos \in Seq(Place)
  BY InfosFacts DEF LoadOK, Kept
<1>2. on \in {infos[n] : n \in DOMAIN infos} /\ on.name = name
  BY <1>1, FindFacts
<1>3. PICK t \in DOMAIN tables : \E i \in DOMAIN tables[t].entries :
        on = Info(tables[t], tables[t].entries[i], t)
  BY <1>1, <1>2, InfosFacts
<1>4. PICK i \in DOMAIN tables[t].entries : on = Info(tables[t], tables[t].entries[i], t)
  BY <1>3
<1> DEFINE e == tables[t].entries[i]
<1>5. /\ on.name = e.name /\ on.first = e.first /\ on.last = e.last /\ on.lun = tables[t].lun
  BY <1>4 DEF Info
<1>6. seen # None /\ seen.ok /\ seen.at = 0 /\ seen.luns = luns /\ \A k \in DOMAIN luns : Sound(luns[k])
  BY DEF TablesTrue
<1>7. Loaded = tables
  BY <1>1, <1>6 DEF Loaded
<1> DEFINE k == tables[t].lun + 1
<1>8. k \in DOMAIN luns /\ Readable(luns[k]) /\ tables[t].entries = Reference(luns[k])
  BY <1>3, <1>6, <1>7 DEF LoadOK, Kept, LoadedTrue
<1>9. luns[k].prim.slots \in Seq(Entry \cup {None}) /\ luns[k].back.slots = luns[k].prim.slots
  <2>1. luns[k] \in Disk
    BY <1>8, DiskFacts DEF TypesOK
  <2> QED  BY <1>6, <1>8, <2>1 DEF Disk, TableCopy, Sound
<1>10. Reference(luns[k]) = Used(luns[k].prim.slots)
  BY <1>9 DEF Reference
<1>11. e \in ToSet(luns[k].prim.slots) /\ e \in Entry
  <2>1. Used(luns[k].prim.slots) \in Seq(Entry) /\ i \in DOMAIN Used(luns[k].prim.slots)
        /\ e = Used(luns[k].prim.slots)[i]
    BY <1>4, <1>8, <1>9, <1>10, UsedFacts
  <2> QED  BY <1>9, <2>1, UsedFacts, ElementOfSeq, LenProperties
<1>12. tables[t].lun \in 0..3
  <2>1. t \in 1..Len(tables)
    BY <1>1, <1>3, LenProperties
  <2>2. tables[t] \in Table
    BY <1>1, <2>1, ElementOfSeq
  <2> QED  BY <2>2 DEF Table
<1> HIDE DEF e, on
<1>13. [name |-> e.name, first |-> e.first, last |-> e.last] = e
  BY <1>11 DEF Entry
<1>14. on.lun = k - 1 /\ [name |-> name, first |-> on.first, last |-> on.last] = e
  BY <1>2, <1>5, <1>12, <1>13
<1> QED  BY <1>8, <1>11, <1>14 DEF on

LEMMA NextWrite ==
  ASSUME TypesOK, LoadOK, WritesInside, [Next]_vars PROVE WritesInside'
<1>1. CASE UNCHANGED wrote
  BY <1>1 DEF WritesInside
<1>2. CASE wrote' = None
  BY <1>2 DEF WritesInside
<1>3. ASSUME NEW name \in Names, Talks, FindInfo(infos, name) # None,
             wrote' = [name |-> name, on |-> FindInfo(infos, name),
                       luns |-> gpt[transport.phone], sure |-> TablesTrue(transport.phone)]
      PROVE  WritesInside'
  <2> SUFFICES ASSUME TablesTrue(transport.phone)
               PROVE  \E k \in DOMAIN wrote'.luns :
                        /\ wrote'.on.lun = k - 1
                        /\ [name |-> wrote'.name, first |-> wrote'.on.first, last |-> wrote'.on.last]
                             \in ToSet(wrote'.luns[k].prim.slots)
    BY <1>3 DEF WritesInside
  <2>1. transport.phone \in Phones
    BY <1>3, TalksTo
  <2> QED  BY <1>3, <2>1, FoundInside
<1>4. CASE WriteJob
  BY <1>1, <1>3, <1>4 DEF WriteJob
<1>5. CASE ~WriteJob
  <2>1. UNCHANGED wrote \/ wrote' = None
    BY <1>5 DEF Next, Call, Step, Connect, Handshake, InitFirehose, Direct, Storage, LoadGpt,
       FlashJob, InfoJob, Reboot, Plug, Unplug, vars, history
  <2> QED  BY <1>1, <1>2, <2>1
<1> QED  BY <1>4, <1>5

LEMMA InitLoad == Init => LoadOK /\ WritesInside
<1> SUFFICES ASSUME Init PROVE LoadOK /\ WritesInside
  OBVIOUS
<1>1. tables = <<>> /\ infos = <<>> /\ seen = None /\ wrote = None
  BY DEF Init
<1>2. InfosOf(<<>>) = <<>>
  BY DEF InfosOf, FlattenSeq
<1> QED  BY <1>1, <1>2 DEF LoadOK, Kept, LoadedTrue, LoadVerdict, WritesInside

-----------------------------------------------------------------------------
(* The theorems *)

\* The invariant holds however often the executor is used again, whatever
\* steps fail and phones come and go.
THEOREM ExecutorInductive == Spec => []IInv
<1>1. IInv /\ [Next]_vars => IInv'
  BY NextIInv
<1> QED  BY InitIInv, <1>1, PTL DEF Spec

\* An executor in state Ready holds a port, that of the device it reports, and
\* the chip ids in its session are those of the phone the port was opened to
\* (connect, handshake, init_firehose_only).
THEOREM ReadyMeansWired == Spec => []ReadyIsWired
<1>1. IInv => ReadyIsWired
  BY DEF IInv, Core, Wired, ReadyIsWired
<1> QED  BY <1>1, ExecutorInductive, PTL

\* A session that was told of the client's sector size and storage type shows
\* those jobs are run with, however often the executor was connected and
\* configured before (init_firehose, init_firehose_only), until
\* refresh_storage_info changes them.
THEOREM SessionShowsGeometry == Spec => []SessionTold
<1>1. Init => TellOK
  BY DEF Init, TellOK, Geometry, DefaultClient, SessionTold, Turn
<1>2. IInv /\ TellOK /\ [Next]_vars => TellOK'
  BY NextTell
<1>3. TellOK => SessionTold
  BY DEF TellOK
<1> QED  BY <1>1, <1>2, <1>3, ExecutorInductive, PTL DEF Spec

\* The phones, the executor's fields, its client and its session have their
\* types, whatever steps fail and phones come and go.
THEOREM TypesInductive == Spec => []TypesOK
<1>1. TypesOK /\ [Next]_vars => TypesOK'
  BY NextTypes
<1> QED  BY <1>1, InitTypes, PTL DEF Spec

\* So the state is one of the four, the session is there exactly when the device
\* is, and an open port leads to a phone (JobExecutor's fields).
THEOREM TypeCorrect == Spec => []TypeOK
<1>1. TypesOK => TypeOK
  BY DEF TypesOK, PhonesOK, FieldsOK, TypeOK, DeviceType, PortType
<1> QED  BY <1>1, TypesInductive, PTL

\* The tables kept are typed, the partitions listed are those of the tables, and
\* both verdicts on the last load hold.
THEOREM LoadInductive == Spec => []LoadOK /\ []WritesInside
<1>1. TypesOK /\ LoadOK /\ WritesInside /\ [Next]_vars => LoadOK' /\ WritesInside'
  BY NextLoad, NextWrite
<1> QED  BY <1>1, InitLoad, TypesInductive, PTL DEF Spec

\* A load that succeeds has added, LUN by LUN, the table of the copy that is
\* intact, and has missed no LUN whose primary header is good and can be read,
\* of any phone whose two copies do not overlap (load_gpt, read_gpt_for_lun).
THEOREM LoadsAreTrue == Spec => []LoadedTrue
<1>1. LoadOK => LoadedTrue
  BY DEF LoadOK
<1> QED  BY <1>1, LoadInductive, PTL

\* It fails over LUN 0, on a phone that answers in its sector size, only when
\* neither copy could be had (load_gpt, read_gpt_for_lun).
THEOREM FailuresAreTrue == Spec => []LoadVerdict
<1>1. LoadOK => LoadVerdict
  BY DEF LoadOK
<1> QED  BY <1>1, LoadInductive, PTL

\* A job that goes by a partition's name works on sectors of a partition of that
\* name, on the LUN it is on, while the tables loaded are those of the phone at
\* the other end (find_partition, load_gpt).
THEOREM WritesStayInside == Spec => []WritesInside
  BY LoadInductive, PTL

\* What a job finds by an exact name the partition map finds too, in any tables
\* no name of which has blanks around it (name_index, find_partition).
THEOREM LookupsAreOne == Spec => []FindsAgree
<1>1. LoadOK => FindsAgree
  BY LookupsAgree, InfosFacts DEF LoadOK, Kept
<1> QED  BY <1>1, LoadInductive, PTL
=============================================================================
