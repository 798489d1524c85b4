---------------------------- MODULE FeatherDevice ---------------------------
(***************************************************************************)
(* The Feather-Trace character devices (litmus/ftdev.c) and the table of   *)
(* trace events (arch/x86/kernel/ft_event.c), as they are used by ftcat    *)
(* (ft_tools/src/ftcat.c): a process opens a minor device, enables events, *)
(* reads until a signal makes it disable them, reads the rest and closes.  *)
(*                                                                         *)
(* A minor device is protected by its mutex; the event table is protected  *)
(* by nothing, so that every `++te->count' and `--te->count' is a read and *)
(* a later write.  What FeatherBuffer models in detail, the records in the *)
(* buffer, is a number here.                                               *)
(*                                                                         *)
(* ftcat only disables what it has enabled, so that deactivate() always    *)
(* finds the event.  Signals arrive while a process reads or closes.       *)
(***************************************************************************)
EXTENDS Integers, FiniteSets, FiniteSetsExt

CONSTANTS
  Proc,       \* ftcat processes
  Minor,      \* minor devices
  Event,      \* event ids, enabled by every process in any order
  MinorOf,    \* MinorOf[p]: the minor device that process p opens
  NoProc,     \* nobody
  Allocated,  \* does the device allocate its buffers on open (ft_trace)
              \* or has it static ones (sched_trace)?
  NoMemory,   \* may kmalloc() fail?
  CallbacksInTime, \* does a callback that runs when the last close() goes to
              \* sleep end within the second that it sleeps?
  MaxOpens,   \* bound: how often the processes open their devices
  MaxAvail    \* bound: records in a buffer, and callbacks in flight

ASSUME ConstantsAssumption ==
  /\ IsFiniteSet(Proc) /\ NoProc \notin Proc
  /\ "none" \notin Event
  /\ MinorOf \in [Proc -> Minor]
  /\ Allocated \in BOOLEAN /\ NoMemory \in BOOLEAN /\ CallbacksInTime \in BOOLEAN
  /\ MaxOpens \in Nat /\ MaxAvail \in Nat

VARIABLES
  lock,       \* lock[m]: the process that holds ftdm->lock
  readers,    \* readers[m]: ftdm->readers
  buf,        \* buf[m]: is there a buffer?
  chain,      \* chain[m][e]: how often event e is in the list ftdm->events
  count,      \* count[e]: te->count
  patched,    \* events whose jump has been removed, so that they fire
  pc,         \* pc[p]: what process p is doing
  ids,        \* ids[p]: events that p has enabled and not yet disabled
  loaded,     \* loaded[p]: the event and the value of its count p has loaded
  opens,      \* number of open() calls so far
  callbacks,  \* callbacks[m]: trace callbacks that are using buffer m
  early,      \* early[m]: those of them that ran when a last close() went to sleep
  avail       \* avail[m]: records in buffer m

minors == <<lock, readers, buf, chain>>
table == <<count, patched>>
vars == <<minors, table, pc, ids, loaded, opens, callbacks, early, avail>>

Nothing == [event |-> "none", value |-> 0]

Init ==
  /\ lock = [m \in Minor |-> NoProc]
  /\ readers = [m \in Minor |-> 0]
  /\ buf = [m \in Minor |-> ~Allocated]
  /\ chain = [m \in Minor |-> [e \in Event |-> 0]]
  /\ count = [e \in Event |-> 0]
  /\ patched = {}
  /\ pc = [p \in Proc |-> "off"]
  /\ ids = [p \in Proc |-> {}]
  /\ loaded = [p \in Proc |-> Nothing]
  /\ opens = 0
  /\ callbacks = [m \in Minor |-> 0] /\ early = [m \in Minor |-> 0]
  /\ avail = [m \in Minor |-> 0]

goto(p, s) == pc' = [pc EXCEPT ![p] = s]

mutex_lock(p) == lock[MinorOf[p]] = NoProc /\ lock' = [lock EXCEPT ![MinorOf[p]] = p]
mutex_unlock(p) == lock' = [lock EXCEPT ![MinorOf[p]] = NoProc]
mutex_free(p) == lock[MinorOf[p]] = NoProc

-----------------------------------------------------------------------------
(* The event table.                                                        *)

\* The first half of `++te->count' or `--te->count'.
load(p, e) == loaded' = [loaded EXCEPT ![p] = [event |-> e, value |-> count[e]]]

\* The second half of ft_enable_event(): the event starts to fire when its
\* count becomes 1.
ft_enable_event(p) ==
  LET e == loaded[p].event
      c == loaded[p].value + 1
  IN /\ count' = [count EXCEPT ![e] = c]
     /\ patched' = IF c = 1 THEN patched \cup {e} ELSE patched
     /\ loaded' = [loaded EXCEPT ![p] = Nothing]

\* Mutant: the event stops at a count of 1.
ft_disable_event_early(p) ==
  LET e == loaded[p].event
      c == loaded[p].value - 1
  IN /\ count' = [count EXCEPT ![e] = c]
     /\ patched' = IF c = 1 THEN patched \ {e} ELSE patched
     /\ loaded' = [loaded EXCEPT ![p] = Nothing]

\* The second half of ft_disable_event().
ft_disable_event(p) ==
  LET e == loaded[p].event
      c == loaded[p].value - 1
  IN /\ count' = [count EXCEPT ![e] = c]
     /\ patched' = IF c = 0 THEN patched \ {e} ELSE patched
     /\ loaded' = [loaded EXCEPT ![p] = Nothing]

-----------------------------------------------------------------------------
(* The file operations, as ftcat calls them.  A body that neither sleeps   *)
(* nor touches the event table while it holds the mutex is one step.       *)

\* The first reader allocates the buffer.
ftdev_open(p) ==
  LET m == MinorOf[p]
  IN /\ pc[p] = "off" /\ opens < MaxOpens
     /\ mutex_free(p)
     /\ opens' = opens + 1
     /\ readers' = [readers EXCEPT ![m] = @ + 1]
     /\ buf' = [buf EXCEPT ![m] = TRUE]
     /\ goto(p, "enable")
     /\ UNCHANGED <<lock, chain, table, ids, loaded, callbacks, early, avail>>

\* ioctl(FTDEV_ENABLE_CMD): activate() first enables the event in the table.
ioctl_enable(p, e) ==
  /\ pc[p] = "enable" /\ e \notin ids[p]
  /\ mutex_lock(p)
  /\ load(p, e)
  /\ goto(p, "enabling")
  /\ UNCHANGED <<readers, buf, chain, table, ids, opens, callbacks, early, avail>>

\* It then adds the event to the list of the minor device.
activate(p) ==
  /\ pc[p] = "enabling"
  /\ ft_enable_event(p)
  /\ chain' = [chain EXCEPT ![MinorOf[p]][loaded[p].event] = @ + 1]
  /\ ids' = [ids EXCEPT ![p] = @ \cup {loaded[p].event}]
  /\ mutex_unlock(p)
  /\ goto(p, "enable")
  /\ UNCHANGED <<readers, buf, opens, callbacks, early, avail>>

\* kmalloc() fails in activate(): ftcat exits, and its exit closes the file.
activate_fails(p) ==
  /\ NoMemory /\ pc[p] = "enable" /\ ids[p] # Event
  /\ mutex_free(p)
  /\ goto(p, "close")
  /\ UNCHANGED <<minors, table, ids, loaded, opens, callbacks, early, avail>>

start_reading(p) ==
  /\ pc[p] = "enable" /\ ids[p] = Event
  /\ goto(p, "read")
  /\ UNCHANGED <<minors, table, ids, loaded, opens, callbacks, early, avail>>

ftdev_read(p) ==
  /\ pc[p] = "read"
  /\ mutex_lock(p)
  /\ goto(p, "reading")
  /\ UNCHANGED <<readers, buf, chain, table, ids, loaded, opens, callbacks, early, avail>>

has_events(m) == \E e \in Event : chain[m][e] > 0

\* Records were copied: ftcat reads again.
read_data(p) ==
  LET m == MinorOf[p]
  IN /\ pc[p] = "reading" /\ avail[m] > 0
     /\ avail' = [avail EXCEPT ![m] = 0]
     /\ mutex_unlock(p)
     /\ goto(p, "read")
     /\ UNCHANGED <<readers, buf, chain, table, ids, loaded, opens, callbacks, early>>

\* Nothing to copy, but events are enabled: sleep, with the mutex held.
read_wait(p) ==
  /\ pc[p] = "reading" /\ avail[MinorOf[p]] = 0 /\ has_events(MinorOf[p])
  /\ goto(p, "waiting")
  /\ UNCHANGED <<minors, table, ids, loaded, opens, callbacks, early, avail>>

\* Nothing to copy and nothing to wait for: read() returns 0 and ftcat ends.
read_end(p) ==
  /\ pc[p] = "reading" /\ avail[MinorOf[p]] = 0 /\ ~has_events(MinorOf[p])
  /\ mutex_unlock(p)
  /\ goto(p, "close")
  /\ UNCHANGED <<readers, buf, chain, table, ids, loaded, opens, callbacks, early, avail>>

read_timeout(p) ==
  /\ pc[p] = "waiting"
  /\ goto(p, "reading")
  /\ UNCHANGED <<minors, table, ids, loaded, opens, callbacks, early, avail>>

\* A signal interrupts read(), or arrives between two calls of it; its
\* handler, shutdown(), disables all events, after which ftcat reads again.
\* A second signal has no effect and is left out.
signal(p) ==
  /\ ids[p] # {}
  /\ \/ pc[p] = "waiting" /\ mutex_unlock(p)
     \/ pc[p] = "read" /\ UNCHANGED lock
  /\ goto(p, "disable")
  /\ UNCHANGED <<readers, buf, chain, table, ids, loaded, opens, callbacks, early, avail>>

\* The first half of deactivate(), with the mutex held: the event leaves the
\* list of the minor device.
deactivate(p, e) ==
  LET m == MinorOf[p]
  IN /\ chain[m][e] > 0
     /\ chain' = [chain EXCEPT ![m][e] = @ - 1]
     /\ load(p, e)

\* ioctl(FTDEV_DISABLE_CMD)
ioctl_disable(p, e) ==
  /\ pc[p] = "disable" /\ e \in ids[p]
  /\ mutex_lock(p)
  /\ ids' = [ids EXCEPT ![p] = @ \ {e}]
  /\ deactivate(p, e)
  /\ goto(p, "disabling")
  /\ UNCHANGED <<readers, buf, table, opens, callbacks, early, avail>>

\* Mutant: the mutex is not released.
ioctl_disabled_locked(p) ==
  /\ pc[p] = "disabling"
  /\ ft_disable_event(p)
  /\ goto(p, "disable")
  /\ UNCHANGED <<minors, ids, opens, callbacks, early, avail>>

ioctl_disabled(p) ==
  /\ pc[p] = "disabling"
  /\ ft_disable_event(p)
  /\ mutex_unlock(p)
  /\ goto(p, "disable")
  /\ UNCHANGED <<readers, buf, chain, ids, opens, callbacks, early, avail>>

shutdown_done(p) ==
  /\ pc[p] = "disable" /\ ids[p] = {}
  /\ goto(p, "read")
  /\ UNCHANGED <<minors, table, ids, loaded, opens, callbacks, early, avail>>

\* close() by one of several readers.
ftdev_release(p) ==
  LET m == MinorOf[p]
  IN /\ pc[p] = "close" /\ readers[m] # 1
     /\ mutex_free(p)
     /\ readers' = [readers EXCEPT ![m] = @ - 1]
     /\ ids' = [ids EXCEPT ![p] = {}]
     /\ goto(p, "off")
     /\ UNCHANGED <<lock, buf, chain, table, loaded, opens, callbacks, early, avail>>

\* A signal interrupts close() while it waits for the mutex: the file is
\* gone, the reader is still counted.
release_interrupted(p) ==
  /\ pc[p] = "close" /\ ~mutex_free(p)
  /\ ids' = [ids EXCEPT ![p] = {}]
  /\ goto(p, "off")
  /\ UNCHANGED <<minors, table, loaded, opens, callbacks, early, avail>>

\* close() by the last reader: all events are disabled one after the other,
release_last(p) ==
  /\ pc[p] = "close" /\ readers[MinorOf[p]] = 1
  /\ mutex_lock(p)
  /\ goto(p, "releasing")
  /\ UNCHANGED <<readers, buf, chain, table, ids, loaded, opens, callbacks, early, avail>>

release_event(p, e) ==
  /\ pc[p] = "releasing" /\ loaded[p] = Nothing
  /\ deactivate(p, e)
  /\ UNCHANGED <<lock, readers, buf, table, pc, ids, opens, callbacks, early, avail>>

release_event_done(p) ==
  /\ pc[p] = "releasing" /\ loaded[p] # Nothing
  /\ ft_disable_event(p)
  /\ UNCHANGED <<minors, pc, ids, opens, callbacks, early, avail>>

\* close() sleeps for a second, with the mutex held: "wait for any pending
\* events to complete".
release_sleep(p) ==
  LET m == MinorOf[p]
  IN /\ pc[p] = "releasing" /\ loaded[p] = Nothing /\ ~has_events(m)
     /\ early' = [early EXCEPT ![m] = @ + callbacks[m]]
     /\ callbacks' = [callbacks EXCEPT ![m] = 0]
     /\ goto(p, "sleeping")
     /\ UNCHANGED <<minors, table, ids, loaded, opens, avail>>

\* The second is over and the buffer is freed, whoever uses it: only time
\* separates the callbacks that ran from this step.
release_done(p) ==
  LET m == MinorOf[p]
  IN /\ pc[p] = "sleeping" /\ (CallbacksInTime => early[m] = 0)
     /\ buf' = [buf EXCEPT ![m] = ~Allocated]
     /\ avail' = [avail EXCEPT ![m] = IF Allocated THEN 0 ELSE @]
     /\ readers' = [readers EXCEPT ![m] = @ - 1]
     /\ ids' = [ids EXCEPT ![p] = {}]
     /\ mutex_unlock(p)
     /\ goto(p, "off")
     /\ UNCHANGED <<chain, table, loaded, opens, callbacks, early>>

-----------------------------------------------------------------------------
(* The traced code.                                                        *)

\* An event fires and its callback starts to use the buffer of the minor
\* device it belongs to.
fire(e, m) ==
  /\ e \in patched
  /\ callbacks[m] + early[m] < MaxAvail
  /\ callbacks' = [callbacks EXCEPT ![m] = @ + 1]
  /\ UNCHANGED <<minors, table, pc, ids, loaded, opens, early, avail>>

\* A callback is done.
fired(m) ==
  /\ \/ callbacks[m] > 0 /\ callbacks' = [callbacks EXCEPT ![m] = @ - 1] /\ UNCHANGED early
     \/ early[m] > 0 /\ early' = [early EXCEPT ![m] = @ - 1] /\ UNCHANGED callbacks
  /\ avail' = [avail EXCEPT ![m] = IF buf[m] /\ @ < MaxAvail THEN @ + 1 ELSE @]
  /\ UNCHANGED <<minors, table, pc, ids, loaded, opens>>

-----------------------------------------------------------------------------
\* Steps a process takes by itself once it has opened the device.
Continue(p) ==
  \/ \E e \in Event : ioctl_enable(p, e) \/ ioctl_disable(p, e) \/ release_event(p, e)
  \/ activate(p) \/ start_reading(p)
  \/ ftdev_read(p) \/ read_data(p) \/ read_wait(p) \/ read_end(p) \/ read_timeout(p)
  \/ ioctl_disabled(p) \/ shutdown_done(p)
  \/ ftdev_release(p) \/ release_last(p) \/ release_event_done(p)
  \/ release_sleep(p) \/ release_done(p)

Next ==
  \/ \E p \in Proc : \/ ftdev_open(p) \/ activate_fails(p) \/ signal(p)
                     \/ release_interrupted(p) \/ Continue(p)
  \/ \E m \in Minor : fired(m) \/ \E e \in Event : fire(e, m)

Spec == Init /\ [][Next]_vars

\* A process that can run does run, also when it has to compete for the
\* mutex, the traced code keeps running, and the user stops every ftcat with
\* a signal.
FairSpec ==
  /\ Spec
  /\ \A p \in Proc : SF_vars(Continue(p)) /\ SF_vars(signal(p))
  /\ \A m \in Minor : WF_vars(fired(m)) /\ WF_vars(\E e \in Event : fire(e, m))

-----------------------------------------------------------------------------
(* Properties.                                                             *)

TypeOK ==
  /\ lock \in [Minor -> Proc \cup {NoProc}]
  /\ readers \in [Minor -> 0..MaxOpens]
  /\ buf \in [Minor -> BOOLEAN]
  /\ chain \in [Minor -> [Event -> Nat]]
  /\ count \in [Event -> Int]
  /\ patched \in SUBSET Event
  /\ pc \in [Proc -> {"off", "enable", "enabling", "read", "reading", "waiting",
                      "disable", "disabling", "close", "releasing", "sleeping"}]
  /\ ids \in [Proc -> SUBSET Event]
  /\ loaded \in [Proc -> [event : Event, value : Int] \cup {Nothing}]
  /\ opens \in 0..MaxOpens
  /\ callbacks \in [Minor -> 0..MaxAvail] /\ early \in [Minor -> Nat]
  /\ avail \in [Minor -> 0..MaxAvail]

InUse(m) == {p \in Proc : MinorOf[p] = m /\ pc[p] # "off"}

\* Neither a process that has the device open nor a trace callback finds the
\* buffer gone, although close() may be interrupted and callbacks do not take
\* the mutex: nothing starts to use the buffer while the last close() sleeps or
\* after it.  A callback that ran before is safe if it ends in time.
BufferPresent ==
  \A m \in Minor :
    callbacks[m] > 0 \/ (CallbacksInTime /\ early[m] > 0) \/ InUse(m) # {} => buf[m]

\* Processes that have taken event e off the list of a minor device but not
\* yet decremented its count.
Disabling(e) == {p \in Proc : pc[p] \in {"disabling", "releasing"} /\ loaded[p].event = e}

\* The variables have their types and no buffer is freed too early.  An event is
\* enabled in the table as often as it is listed at the minor devices, and fires
\* if and only if its count is positive; once all devices are closed by their
\* last readers, none fires and the buffers are freed.
TableAgrees ==
  /\ TypeOK /\ BufferPresent
  /\ \A e \in Event :
       /\ count[e] = MapThenSumSet(LAMBDA m : chain[m][e], Minor) + Cardinality(Disabling(e))
       /\ e \in patched <=> count[e] > 0
  /\ (\A m \in Minor : readers[m] = 0) =>
       patched = {} /\ (Allocated => \A m \in Minor : ~buf[m])

\* A minor device lists an event on behalf of a process that is gone.
Orphaned(m) ==
  \E e \in Event :
    chain[m][e] > Cardinality({p \in Proc : MinorOf[p] = m /\ e \in ids[p]})

\* Every ftcat that was told to stop does stop, although another one may be
\* asleep in read() with the mutex, kept there by the events of the first.
\* Only an event that an ftcat without memory left behind, on a device with
\* other readers, may keep one reading.
Shutdown ==
  \A p \in Proc : pc[p] = "disable" ~> (pc[p] = "off" \/ Orphaned(MinorOf[p]))

\* What a process disables is there: deactivate() never walks the list in vain,
\* which would silently leave the event enabled.
DisableFinds ==
  \A p \in Proc, e \in Event :
    pc[p] = "disable" /\ e \in ids[p] => chain[MinorOf[p]][e] > 0

\* All callbacks that ran when close() went to sleep end before the buffer is
\* freed: "wait for any pending events to complete" (litmus/ftdev.c:159).
PendingComplete == \A m \in Minor : early[m] > 0 => buf[m]

\* An event stays enabled as long as some minor device lists it: "the feather
\* trace management functions assume exclusive access to the event table".
EventsStayOn == \A m \in Minor, e \in Event : chain[m][e] > 0 => e \in patched

-----------------------------------------------------------------------------
(* The inductive invariant, for a single minor device.                     *)

\* Who holds the mutex is in one of these places, and nobody else is.
Locked == {"enabling", "reading", "waiting", "disabling", "releasing", "sleeping"}
MutexHeld == \A p \in Proc : pc[p] \in Locked => lock[MinorOf[p]] = p

\* What has been loaded from the table is not stale: only the holder of the mutex
\* has loaded something, and has yet to store it.
NotStale ==
  \A p \in Proc :
    /\ loaded[p] # Nothing =>
         /\ pc[p] \in {"enabling", "disabling", "releasing"}
         /\ loaded[p].value = count[loaded[p].event]
    /\ pc[p] \in {"enabling", "disabling"} => loaded[p] # Nothing

\* The count of an event and what fires follow the list.
Counted ==
  \A e \in Event :
    /\ \A m \in Minor : count[e] = chain[m][e] + Cardinality(Disabling(e))
    /\ e \in patched <=> count[e] > 0

\* Everyone who has the device open is counted, and there is a buffer while
\* anyone is counted or a callback runs that is not late.  The device of the last
\* reader has no other; nothing is listed and no callback starts while it sleeps.
Closing == {"releasing", "sleeping"}
Used ==
  /\ \A m \in Minor :
       /\ Cardinality(InUse(m)) <= readers[m] /\ readers[m] <= opens
       /\ \/ readers[m] > 0 \/ callbacks[m] > 0 \/ (CallbacksInTime /\ early[m] > 0) \/ ~Allocated
          => buf[m]
       /\ readers[m] = 0 => (\A e \in Event : chain[m][e] = 0) /\ (Allocated => ~buf[m])
  /\ \A p \in Proc : pc[p] \in Closing => readers[MinorOf[p]] = 1
  /\ \A p \in Proc : pc[p] = "sleeping" =>
       callbacks[MinorOf[p]] = 0 /\ \A e \in Event : chain[MinorOf[p]][e] = 0

\* An event is listed for each process that has enabled it and will disable it.
Owners(e) == {p \in Proc : e \in ids[p] /\ pc[p] \notin Closing}
Listed ==
  /\ \A m \in Minor, e \in Event : Cardinality(Owners(e)) <= chain[m][e]
  /\ \A p \in Proc : pc[p] = "off" => ids[p] = {}

IInv == TypeOK /\ MutexHeld /\ NotStale /\ Counted /\ Used /\ Listed

\* The functions on the event table assume exclusive access to it
\* (arch/x86/kernel/ft_event.c:5-6): with one minor device in use its
\* mutex gives it.
OneMinor == \E m : Minor = {m}
=============================================================================
