-------------------------- MODULE SsgSeparateGroup --------------------------
(***************************************************************************)
(* The job theta/separate-ssg.qsub: ssg-test-separate-group-create makes a *)
(* group, stores its id in a file and waits; the script polls for the file *)
(* and starts ssg-test-separate-group-attach, which loads the id, asks the *)
(* creator for the group and shuts it down.  The creator's margo has no    *)
(* progress thread: it answers nothing before main waits in it.            *)
(***************************************************************************)
VARIABLES
    file,       \* the group file: absent, empty or complete
    script,     \* where the job script is
    cpc,        \* where the creator's main is
    group,      \* none, live or destroyed
    callbacks,  \* prefinalize callbacks the creator has pushed
    apc,        \* where the attacher's main is
    view,       \* the attacher knows the group's members
    shutdown    \* the remote shutdown: none, sent or answered

creatorVars == <<cpc, group, callbacks>>
attacherVars == <<apc, view>>
vars == <<file, script, creatorVars, attacherVars, shutdown>>

(* The script removes what an earlier job left and starts the creator... *)
StartCreator ==
    /\ script = "start"
    /\ file' = "absent"
    /\ script' = "poll"
    /\ cpc' = "create"
    /\ UNCHANGED <<group, callbacks, attacherVars, shutdown>>

(* ...and, as soon as a file of that name exists, the attacher, of which   *)
(* it does not look at the exit status.                                    *)
SeeFile ==
    /\ script = "poll"
    /\ file # "absent"
    /\ script' = "attach"
    /\ apc' = "load"
    /\ UNCHANGED <<file, creatorVars, view, shutdown>>

EndJob ==
    /\ script = "attach"
    /\ apc \in {"exit", "aborted"}
    /\ script' = "done"
    /\ UNCHANGED <<file, creatorVars, attacherVars, shutdown>>

-----------------------------------------------------------------------------
(* The creator *)

CreateGroup ==
    /\ cpc = "create"
    /\ group' = "live"
    /\ cpc' = "store"
    /\ UNCHANGED <<file, script, callbacks, attacherVars, shutdown>>

(* ssg_group_id_store opens the file, which creates it, and writes it. *)
OpenFile ==
    /\ cpc = "store"
    /\ file' = "empty"
    /\ cpc' = "write"
    /\ UNCHANGED <<script, group, callbacks, attacherVars, shutdown>>

WriteFile ==
    /\ cpc = "write"
    /\ file' = "complete"
    /\ cpc' = "push"
    /\ UNCHANGED <<script, group, callbacks, attacherVars, shutdown>>

PushCallback ==
    /\ cpc = "push"
    /\ callbacks' = callbacks \cup {"ssg_finalize_callback"}
    /\ cpc' = "wait"
    /\ UNCHANGED <<file, script, group, attacherVars, shutdown>>

(* margo answers the shutdown and finalizes, which runs the callbacks. *)
AnswerShutdown ==
    /\ cpc = "wait"
    /\ shutdown = "sent"
    /\ shutdown' = "answered"
    /\ cpc' = "finalize"
    /\ UNCHANGED <<file, script, group, callbacks, attacherVars>>

RunCallbacks ==
    /\ cpc = "finalize"
    /\ group' = IF callbacks = {} THEN group ELSE "destroyed"
    /\ callbacks' = {}
    /\ cpc' = "awake"
    /\ UNCHANGED <<file, script, attacherVars, shutdown>>

(* Main destroys the group once more. *)
DestroyAgain ==
    /\ cpc = "awake"
    /\ group' = "destroyed"
    /\ cpc' = "exit"
    /\ UNCHANGED <<file, script, callbacks, attacherVars, shutdown>>

-----------------------------------------------------------------------------
(* The attacher *)

Load ==
    /\ apc = "load"
    /\ apc' = IF file = "complete" THEN "refresh" ELSE "aborted"
    /\ UNCHANGED <<file, script, creatorVars, view, shutdown>>

(* The result of ssg_group_refresh is not looked at. *)
Refresh ==
    /\ apc = "refresh"
    /\ cpc = "wait"
    /\ view' = (group = "live")
    /\ apc' = "lookup"
    /\ UNCHANGED <<file, script, creatorVars, shutdown>>

(* Member id and address of rank 0, each asserted; then the shutdown. *)
LookUp ==
    /\ apc = "lookup"
    /\ IF view THEN apc' = "await" /\ shutdown' = "sent"
               ELSE apc' = "aborted" /\ UNCHANGED shutdown
    /\ UNCHANGED <<file, script, creatorVars, view>>

Leave ==
    /\ apc = "await"
    /\ shutdown = "answered"
    /\ apc' = "exit"
    /\ UNCHANGED <<file, script, creatorVars, view, shutdown>>

-----------------------------------------------------------------------------
Init ==
    /\ file \in {"absent", "complete"}
    /\ script = "start"
    /\ cpc = "none"
    /\ group = "none"
    /\ callbacks = {}
    /\ apc = "none"
    /\ view = FALSE
    /\ shutdown = "none"

ScriptStep == StartCreator \/ SeeFile \/ EndJob

CreatorStep ==
    \/ CreateGroup \/ OpenFile \/ WriteFile \/ PushCallback
    \/ AnswerShutdown \/ RunCallbacks \/ DestroyAgain

AttacherStep == Load \/ Refresh \/ LookUp \/ Leave

Next == ScriptStep \/ CreatorStep \/ AttacherStep

Spec == Init /\ [][Next]_vars

-----------------------------------------------------------------------------
(***************************************************************************)
(* assert(ret == SSG_SUCCESS), behind ssg_group_id_load and behind both    *)
(* lookups, never ends the attacher: the file it is started for holds a    *)
(* group, and the group has its creator as a member.                       *)
(***************************************************************************)
AttachSucceeds == apc # "aborted"
=============================================================================
