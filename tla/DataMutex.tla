------------------------------- MODULE DataMutex -------------------------------
(***************************************************************************)
(* itlib::data_mutex<T, Mutex> and the wrappers its functions return.      *)
(*                                                                         *)
(* The Mutex is external: a shared mutex whose try functions may fail      *)
(* spuriously, and whose lock functions may throw and then have acquired   *)
(* nothing.  To unlock it without having it is undefined: it may do        *)
(* nothing, or release what another thread has.  A wrapper is an object in *)
(* a variable of its thread.  The const wrappers lock as their non-const   *)
(* counterparts do.  As for the standard mutexes, a thread that has a lock *)
(* asks for no other.                                                      *)
(***************************************************************************)
CONSTANTS Threads,
          Variables,    \* the variables each thread keeps wrappers in
          NoThread,
          None          \* no variable

ASSUME NoThreadAssumption == NoThread \notin Threads
ASSUME NoneAssumption == None \notin Variables

VARIABLES
    writer,    \* the thread that has the mutex exclusively
    readers,   \* the threads that share it
    wrapper,   \* which kind of wrapper is in each variable
    m_data,    \* whether the wrapper's m_data is set
    building,  \* the variable whose wrapper each thread is constructing
    trying,    \* whether that wrapper is a try_ one
    access,    \* what each thread is doing to the data
    misused    \* history: the mutex was unlocked by a thread that did not have it

vars == <<writer, readers, wrapper, m_data, building, trying, access, misused>>

TypeOK ==
    /\ writer \in Threads \cup {NoThread}
    /\ readers \subseteq Threads
    /\ wrapper \in [Threads -> [Variables -> {"none", "unique", "shared"}]]
    /\ m_data \in [Threads -> [Variables -> BOOLEAN]]
    /\ building \in [Threads -> Variables \cup {None}]
    /\ trying \in [Threads -> BOOLEAN]
    /\ access \in [Threads -> {"none", "read", "write"}]
    /\ misused \in BOOLEAN

Init ==
    /\ writer = NoThread
    /\ readers = {}
    /\ wrapper = [t \in Threads |-> [v \in Variables |-> "none"]]
    /\ m_data = [t \in Threads |-> [v \in Variables |-> FALSE]]
    /\ building = [t \in Threads |-> None]
    /\ trying = [t \in Threads |-> FALSE]
    /\ access = [t \in Threads |-> "none"]
    /\ misused = FALSE

\* v holds a wrapper that has the lock, as far as the wrapper knows.
Owns(t, v) == m_data[t][v] /\ building[t] # v

Ready(t) == building[t] = None /\ access[t] = "none"

-----------------------------------------------------------------------------
(* The mutex.                                                              *)

Free(mode) == writer = NoThread /\ (mode = "unique" => readers = {})

Lock(t, mode) ==
    IF mode = "unique" THEN writer' = t /\ UNCHANGED readers
                       ELSE readers' = readers \cup {t} /\ UNCHANGED writer

Has(t, mode) == IF mode = "unique" THEN writer = t ELSE t \in readers

Unlock(t, mode) ==
    IF Has(t, mode)
    THEN /\ writer' = IF mode = "unique" THEN NoThread ELSE writer
         /\ readers' = IF mode = "unique" THEN readers ELSE readers \ {t}
         /\ UNCHANGED misused
    ELSE /\ \/ UNCHANGED <<writer, readers>>
            \/ writer' = NoThread /\ UNCHANGED readers
            \/ \E u \in readers : readers' = readers \ {u} /\ UNCHANGED writer
         /\ misused' = TRUE

-----------------------------------------------------------------------------
(* The wrappers.                                                           *)

\* The base class constructors: m_data is set before lock() is called, and
\* not initialized before try_lock() is.
Construct(t, v, mode, try) ==
    /\ Ready(t) /\ wrapper[t][v] = "none" /\ \A w \in Variables : ~Owns(t, w)
    /\ wrapper' = [wrapper EXCEPT ![t][v] = mode]
    /\ \E d \in BOOLEAN : (try \/ d) /\ m_data' = [m_data EXCEPT ![t][v] = d]
    /\ building' = [building EXCEPT ![t] = v]
    /\ trying' = [trying EXCEPT ![t] = try]
    /\ UNCHANGED <<writer, readers, access, misused>>

\* The constructor of the derived class returns, with m_data as given.
Constructed(t, v, data) ==
    /\ m_data' = [m_data EXCEPT ![t][v] = data]
    /\ building' = [building EXCEPT ![t] = None]
    /\ trying' = [trying EXCEPT ![t] = FALSE]
    /\ UNCHANGED <<wrapper, access, misused>>

Building(t, v) == building[t] = v /\ v # None

\* lock(), try_lock(), lock_shared() or try_lock_shared() acquires.
Acquire(t, v) ==
    /\ Building(t, v) /\ Free(wrapper[t][v])
    /\ Lock(t, wrapper[t][v])
    /\ Constructed(t, v, TRUE)

\* A try_ constructor that does not look at what try_lock returned.
RefuseIgnored(t, v) ==
    /\ Building(t, v) /\ trying[t]
    /\ Constructed(t, v, TRUE)
    /\ UNCHANGED <<writer, readers>>

\* try_lock() returns false: m_data = nullptr.
Refuse(t, v) ==
    /\ Building(t, v) /\ trying[t]
    /\ Constructed(t, v, FALSE)
    /\ UNCHANGED <<writer, readers>>

\* The destructors: m_data tells them whether there is a lock to release.
Remove(t, v) ==
    /\ wrapper' = [wrapper EXCEPT ![t][v] = "none"]
    /\ m_data' = [m_data EXCEPT ![t][v] = FALSE]

Release(t, v) ==
    IF m_data[t][v] THEN Unlock(t, wrapper[t][v]) ELSE UNCHANGED <<writer, readers, misused>>

\* The mutex throws out of the derived class's constructor: the destructor
\* of the base class runs, and unlocks if m_data is set.
Throw(t, v) ==
    /\ Building(t, v)
    /\ Release(t, v)
    /\ Remove(t, v)
    /\ building' = [building EXCEPT ![t] = None]
    /\ trying' = [trying EXCEPT ![t] = FALSE]
    /\ UNCHANGED access

\* A move constructor that leaves its source as it was.
MoveKeepsSource(t, from, to) ==
    /\ Ready(t) /\ wrapper[t][from] # "none" /\ wrapper[t][to] = "none"
    /\ wrapper' = [wrapper EXCEPT ![t][to] = wrapper[t][from]]
    /\ m_data' = [m_data EXCEPT ![t][to] = m_data[t][from]]
    /\ UNCHANGED <<writer, readers, building, trying, access, misused>>

\* lock_base_t's move constructor; the return of a named wrapper that the
\* compiler does not elide is one, followed by the source's destruction.
Move(t, from, to) ==
    /\ Ready(t) /\ wrapper[t][from] # "none" /\ wrapper[t][to] = "none"
    /\ wrapper' = [wrapper EXCEPT ![t][to] = wrapper[t][from]]
    /\ m_data' = [m_data EXCEPT ![t][to] = m_data[t][from], ![t][from] = FALSE]
    /\ UNCHANGED <<writer, readers, building, trying, access, misused>>

\* ~unique_lock_base_t, ~shared_lock_base_t
Destroy(t, v) ==
    /\ Ready(t) /\ wrapper[t][v] # "none"
    /\ Release(t, v)
    /\ Remove(t, v)
    /\ UNCHANGED <<building, trying, access>>

\* operator* and operator->, on a wrapper that says it has the data; a shared
\* one gives a T const.
Begin(t, v, kind) ==
    /\ Ready(t) /\ Owns(t, v)
    /\ kind = "write" => wrapper[t][v] = "unique"
    /\ access' = [access EXCEPT ![t] = kind]
    /\ UNCHANGED <<writer, readers, wrapper, m_data, building, trying, misused>>

End(t) ==
    /\ access[t] # "none"
    /\ access' = [access EXCEPT ![t] = "none"]
    /\ UNCHANGED <<writer, readers, wrapper, m_data, building, trying, misused>>

Step(t) ==
    \/ End(t)
    \/ \E v \in Variables :
          \/ \E mode \in {"unique", "shared"}, try \in BOOLEAN : Construct(t, v, mode, try)
          \/ Acquire(t, v) \/ Refuse(t, v) \/ Throw(t, v) \/ Destroy(t, v)
          \/ \E w \in Variables : Move(t, v, w)
          \/ \E kind \in {"read", "write"} : Begin(t, v, kind)

Next == \E t \in Threads : Step(t)

Spec == Init /\ [][Next]_vars

-----------------------------------------------------------------------------
(* Correctness.                                                            *)

OwnsAs(t, v, mode) == Owns(t, v) /\ wrapper[t][v] = mode

Matches(t) ==
    /\ (\E v \in Variables : OwnsAs(t, v, "unique")) <=> writer = t
    /\ (\E v \in Variables : OwnsAs(t, v, "shared")) <=> t \in readers
    /\ \A v, w \in Variables : Owns(t, v) /\ Owns(t, w) => v = w

\* Every lock that is held is held by exactly one wrapper, which will release
\* it, through any sequence of moves and failed attempts, until the mutex is
\* misused: nothing is said of what a mutex does then.
OneWrapperPerLock == ~misused => \A t \in Threads : Matches(t)

\* Likewise, the data is never written while another thread reads or writes it.
NoDataRace ==
    ~misused =>
        \A t, u \in Threads : t # u /\ access[t] = "write" => access[u] = "none"

\* The only step that unlocks a mutex which its thread does not have is the
\* destruction of a wrapper whose constructor's lock() or try_lock() threw: not
\* that of a moved-from wrapper, nor of one whose try_lock failed, nor any after
\* an exception that was harmless.
UnlocksWhatItLocked ==
    [][misused' /\ ~misused =>
          \E t \in Threads : LET v == building[t] IN v # None /\ wrapper'[t][v] = "none"]_vars

\* What makes the above inductive.
Consistent ==
    /\ writer # NoThread => readers = {}
    /\ \A t \in Threads :
          /\ access[t] = "write" => writer = t
          /\ access[t] = "read" => writer = t \/ t \in readers
          /\ building[t] # None =>
                /\ wrapper[t][building[t]] # "none"
                /\ writer # t /\ t \notin readers /\ access[t] = "none"
          /\ \A v \in Variables : m_data[t][v] => wrapper[t][v] # "none"

IndInv == TypeOK /\ (~misused => Consistent /\ \A t \in Threads : Matches(t))
=============================================================================
