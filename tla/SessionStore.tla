----------------------------- MODULE SessionStore -----------------------------
(***************************************************************************)
(* The registry of agent sessions (src/app/agents/registry.py) over the    *)
(* store that writes a file per session, in place                          *)
(* (src/app/agents/persistence.py).                                        *)
(***************************************************************************)
EXTENDS Integers, Sequences, FiniteSets

CONSTANTS
    Sessions,
    MaxVersions  \* bound: snapshots of sessions

VARIABLES
    sessions,  \* SessionRegistry._sessions: the snapshot of each id
    files,     \* the files: a snapshot each; 0 where a write has not ended
    writing,   \* the save under way: <<id, snapshot>> or none
    count,     \* snapshots made
    saved,     \* history: the snapshot whose save has returned, of ids not deleted
    torn       \* history: ids whose save a crash has cut short

vars == <<sessions, files, writing, count, saved, torn>>

None == <<>>
Without(f, id) == [x \in DOMAIN f \ {id} |-> f[x]]
With(f, id, value) == [x \in DOMAIN f \cup {id} |-> IF x = id THEN value ELSE f[x]]
Empty == [x \in {} |-> 0]

Init ==
    /\ sessions = Empty /\ files = Empty /\ saved = Empty
    /\ writing = None /\ count = 0 /\ torn = {}

(* register, which an id that is there refuses. *)
Register(id) ==
    /\ writing = None /\ count < MaxVersions
    /\ id \notin DOMAIN sessions
    /\ sessions' = With(sessions, id, count + 1) /\ count' = count + 1
    /\ UNCHANGED <<files, writing, saved, torn>>

(* update. *)
Update(id) ==
    /\ writing = None /\ count < MaxVersions
    /\ id \in DOMAIN sessions
    /\ sessions' = With(sessions, id, count + 1) /\ count' = count + 1
    /\ UNCHANGED <<files, writing, saved, torn>>

(* persist, and save: opening the file for writing empties it. *)
Persist(id) ==
    /\ writing = None /\ id \in DOMAIN sessions
    /\ files' = With(files, id, 0)
    /\ writing' = <<id, sessions[id]>>
    /\ UNCHANGED <<sessions, count, saved, torn>>

WriteEnds ==
    /\ writing # None
    /\ files' = With(files, writing[1], writing[2])
    /\ saved' = With(saved, writing[1], writing[2])
    /\ torn' = torn \ {writing[1]}
    /\ writing' = None
    /\ UNCHANGED <<sessions, count>>

(* remove, which leaves the file. *)
Remove(id) ==
    /\ writing = None /\ id \in DOMAIN sessions
    /\ sessions' = Without(sessions, id)
    /\ UNCHANGED <<files, writing, count, saved, torn>>

(* delete: only a session that is in memory goes from the store. *)
Delete(id) ==
    /\ writing = None /\ id \in DOMAIN sessions
    /\ sessions' = Without(sessions, id)
    /\ files' = Without(files, id)
    /\ saved' = Without(saved, id) /\ torn' = torn \ {id}
    /\ UNCHANGED <<writing, count>>

(* list: a file that cannot be parsed is skipped. *)
Listed == {id \in DOMAIN files : files[id] # 0}

(* load_all: what is in memory is kept. *)
LoadAll ==
    /\ writing = None
    /\ sessions' = [id \in DOMAIN sessions \cup Listed |->
                       IF id \in DOMAIN sessions THEN sessions[id] ELSE files[id]]
    /\ UNCHANGED <<files, writing, count, saved, torn>>

(* The process ends, perhaps in the middle of a save. *)
Crash ==
    /\ sessions' = Empty /\ writing' = None
    /\ torn' = IF writing = None THEN torn ELSE torn \cup {writing[1]}
    /\ UNCHANGED <<files, count, saved>>

Next ==
    \/ \E id \in Sessions : Register(id) \/ Update(id) \/ Persist(id) \/ Remove(id) \/ Delete(id)
    \/ WriteEnds \/ LoadAll \/ Crash

Spec == Init /\ [][Next]_vars

-----------------------------------------------------------------------------
(* SessionsKept: a crash costs at most the session that was being written    *)
(* at that moment: of every other one the file holds the last snapshot whose *)
(* save returned, and is there to be loaded; a session in memory is no older *)
(* than that; and of a session that was deleted no file remains.             *)
SessionsKept ==
    LET busy == torn \cup (IF writing = None THEN {} ELSE {writing[1]})
    IN  /\ \A id \in DOMAIN saved \ busy : id \in Listed /\ files[id] = saved[id]
        /\ \A id \in DOMAIN saved \cap DOMAIN sessions : sessions[id] >= saved[id] \/ id \in busy
        /\ DOMAIN files \subseteq DOMAIN saved \cup busy
=============================================================================
