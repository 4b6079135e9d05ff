------------------------------ MODULE CpuServer ------------------------------
(* The CPU image service (app.py and enhance.py of background-remover): one    *)
(* process whose threads restore images (/enhance) and remove backgrounds      *)
(* (/process) with one model in memory, under one lock.                        *)
EXTENDS Naturals, FiniteSets

CONSTANTS
    Threads,   \* of gunicorn: --threads 2
    Presets,   \* PRESETS
    Fast,      \* the preset that is loaded at startup and never forwarded
    NoThread

ASSUME CpuAssumption == Fast \in Presets /\ NoThread \notin Threads /\ "enhance" \notin Presets

VARIABLES
    remote,      \* REMOTE_BACKGROUND_URL is set
    asks,        \* per thread: "enhance" or the preset of its request
    at,          \* per thread: the step of its handler, "idle" between requests
    answer,      \* per thread: the last answer, "half" if a half-imported module caused it
    lock,        \* the holder of LOCK
    sessions,    \* SESSIONS
    module,      \* enhance in sys.modules: "absent", "importing" or "loaded"
    importer,    \* the thread that imports it
    restorer     \* enhance.SESSION is set

cpuVars == <<remote, asks, at, answer, lock, sessions, module, importer, restorer>>

CpuInit ==
    /\ remote \in BOOLEAN
    /\ asks = [t \in Threads |-> Fast]
    /\ at = [t \in Threads |-> "idle"]
    /\ answer = [t \in Threads |-> "none"]
    /\ lock = NoThread
    /\ sessions = {Fast}
    /\ module = "absent" /\ importer = NoThread
    /\ restorer = FALSE

Goto(t, step) == at' = [at EXCEPT ![t] = step] /\ UNCHANGED answer
Reply(t, result) ==
    at' = [at EXCEPT ![t] = "idle"] /\ answer' = [answer EXCEPT ![t] = result]

\* Leaving `with LOCK`, by an exception too.  (Wrong: only at its end.)
UnlockAtTheEnd(result) == lock' = IF result = "ok" THEN NoThread ELSE lock
Unlock(result) == lock' = NoThread
ReplyUnlocked(t, result) == Reply(t, result) /\ Unlock(result)

Receive(t, what) ==
    /\ at[t] = "idle"
    /\ asks' = [asks EXCEPT ![t] = what]
    /\ Goto(t, CASE what = "enhance" -> "import"
                 [] remote /\ what \in Presets \ {Fast} -> "forward"
                 [] OTHER -> "open")
    /\ UNCHANGED <<remote, lock, sessions, module, importer, restorer>>

\* `from enhance import ...`: the import waits for one that another thread began.
BeginImport(t) ==
    /\ at[t] = "import" /\ module = "absent"
    /\ module' = "importing" /\ importer' = t
    /\ UNCHANGED <<remote, asks, at, answer, lock, sessions, restorer>>

EndImport(t) ==
    /\ module = "importing" /\ importer = t
    /\ module' = "loaded" /\ importer' = NoThread
    /\ UNCHANGED <<remote, asks, at, answer, lock, sessions, restorer>>

CheckEnhance(t) ==
    /\ at[t] = "import" /\ module = "loaded"
    /\ Goto(t, "acquire") \/ Reply(t, "invalid")
    /\ UNCHANGED <<remote, asks, lock, sessions, module, importer, restorer>>

\* Errors of the other service are OSErrors: they are answered as an invalid image.
Forward(t) ==
    /\ at[t] = "forward"
    /\ \E result \in {"ok", "invalid"} : Reply(t, result)
    /\ UNCHANGED <<remote, asks, lock, sessions, module, importer, restorer>>

Open(t) ==
    /\ at[t] = "open"
    /\ Goto(t, "acquire") \/ Reply(t, "invalid")
    /\ UNCHANGED <<remote, asks, lock, sessions, module, importer, restorer>>

\* Both handlers take LOCK.  (Wrong: /enhance does not wait for it.)
FreeToEnhance(t) == lock = NoThread \/ asks[t] = "enhance"
Free(t) == lock = NoThread

Acquire(t) ==
    /\ at[t] = "acquire" /\ Free(t)
    /\ lock' = t
    /\ Goto(t, "make room")
    /\ UNCHANGED <<remote, asks, sessions, module, importer, restorer>>

\* Under LOCK /enhance drops every background session first.
EnhanceMakesRoom(t) ==
    /\ at[t] = "make room" /\ asks[t] = "enhance"
    /\ sessions' = {}
    /\ \/ Goto(t, IF restorer THEN "use" ELSE "load") /\ UNCHANGED lock
       \/ ReplyUnlocked(t, "invalid")
    /\ UNCHANGED <<remote, asks, module, importer, restorer>>

\* What of SESSIONS stays for a preset: nothing when it is not loaded yet.  (Wrong:
\* the others stay when it is loaded next to them.)
SessionsWithOthers(old, preset) == old
SessionsFor(old, preset) == IF preset \in old THEN old ELSE {}

\* While another thread imports enhance, its SESSION may not be there yet.
ProcessMakesRoom(t) ==
    /\ at[t] = "make room" /\ asks[t] \in Presets
    /\ \/ /\ module = "importing"
          /\ ReplyUnlocked(t, "half") /\ UNCHANGED <<sessions, restorer>>
       \/ /\ restorer' = FALSE
          /\ sessions' = SessionsFor(sessions, asks[t])
          /\ Goto(t, IF asks[t] \in sessions THEN "use" ELSE "load")
          /\ UNCHANGED lock
    /\ UNCHANGED <<remote, asks, module, importer>>

Load(t) ==
    /\ at[t] = "load"
    /\ \/ /\ Goto(t, "use") /\ UNCHANGED lock
          /\ IF asks[t] = "enhance"
             THEN restorer' = TRUE /\ UNCHANGED sessions
             ELSE sessions' = sessions \cup {asks[t]} /\ UNCHANGED restorer
       \/ ReplyUnlocked(t, "error") /\ UNCHANGED <<sessions, restorer>>
    /\ UNCHANGED <<remote, asks, module, importer>>

Use(t) ==
    /\ at[t] = "use"
    /\ \E result \in {"ok", "invalid", "error"} : ReplyUnlocked(t, result)
    /\ UNCHANGED <<remote, asks, sessions, module, importer, restorer>>

Work(t) ==
    \/ BeginImport(t) \/ EndImport(t) \/ CheckEnhance(t) \/ Forward(t) \/ Open(t)
    \/ Acquire(t) \/ EnhanceMakesRoom(t) \/ ProcessMakesRoom(t) \/ Load(t) \/ Use(t)

CpuNext ==
    \E t \in Threads : Work(t) \/ (\E what \in Presets \cup {"enhance"} : Receive(t, what))

-----------------------------------------------------------------------------
(* Properties                                                                  *)

\* IMAGE_LAB.md: requests are serialized to bound memory.  However the threads
\* interleave and whatever fails, models in memory and models being loaded are one
\* at most.
OneModelInMemory ==
    Cardinality(sessions) + (IF restorer THEN 1 ELSE 0)
        + Cardinality({t \in Threads : at[t] = "load"}) <= 1

\* The model a thread runs is the one its request asked for, and no other thread
\* unloads it meanwhile.
ModelStaysInUse ==
    \A t \in Threads : at[t] = "use" =>
        IF asks[t] = "enhance" THEN restorer ELSE asks[t] \in sessions

\* No error leaves the service locked: who has answered does not hold the lock.
NoLockIsLeft == lock # NoThread => at[lock] # "idle"

\* The threads take turns with the models.
ModelsTakeTurns == OneModelInMemory /\ ModelStaysInUse /\ NoLockIsLeft
=============================================================================
