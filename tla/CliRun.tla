------------------------------- MODULE CliRun -------------------------------
(***************************************************************************)
(* Non-interactive runs of the command line client over one session:       *)
(* prepareSession and driveLoop of apps/cli/src/cli.ts around AgentLoop,   *)
(* with the signal rules of signals.ts.                                    *)
(*                                                                         *)
(* Each run loads the saved transcript, drives the loop, saves what the    *)
(* loop announces, lets the archivist work and ends with a status or by a  *)
(* signal.  A first Ctrl-C spends the single cancel slot and aborts the    *)
(* turn; a second one, or a SIGTERM at any time, kills the process where   *)
(* it stands.  The next run starts from whatever was saved.                *)
(***************************************************************************)
EXTENDS AgentLoop

CONSTANT MaxRuns    \* bound: processes started on the session

VARIABLES
    process,        \* "down" before the first run, then where the run is
    runs,           \* processes started so far
    saved,          \* the session file's messages
    attended,       \* a human answers at stdin; otherwise stdin is at EOF
    slot,           \* the cancel slot of signals.ts holds this run's cancel
    cancelledBy,    \* a signal was delivered to the slot
    hadDenial,
    ranTool,
    exitCode,
    outcomes,       \* history: the outcomes of the rows this run collected
    killedInBatch   \* history: some run was killed with a tool batch open

cliVars == <<process, runs, saved, attended, slot, cancelledBy,
             hadDenial, ranTool, exitCode, outcomes, killedInBatch>>
allVars == <<vars, cliVars>>

Down == {"down", "exited", "signalled"}

CliInit ==
    /\ Init
    /\ mode = "approve-each" /\ allowedTools = {}     \* chosen by StartRun
    /\ process = "down" /\ runs = 0
    /\ saved = messages
    /\ attended = TRUE /\ slot = FALSE /\ cancelledBy = FALSE
    /\ hadDenial = FALSE /\ ranTool = FALSE /\ exitCode = 0
    /\ outcomes = {} /\ killedInBatch = FALSE

----------------------------------------------------------------------------
(* Starting a run: the session is loaded, a task given on the command line *)
(* joins it, and it is saved before the loop starts.  Without a task the   *)
(* loop is driven all the same.                                            *)

StartRun ==
    /\ process \in Down /\ runs < MaxRuns
    /\ messages' \in {saved, Append(saved, UserMessage)}
    /\ saved' = messages'
    /\ process' = "running" /\ runs' = runs + 1
    /\ attended' \in BOOLEAN
    /\ mode' \in PermissionModes           \* the session's, or skipPermissions
    /\ allowedTools' \in SUBSET PersistableTools
    /\ phase' = "top" /\ iteration' = 0
    /\ calls' = <<>> /\ results' = <<>>
    /\ overThreshold' = FALSE /\ consecutiveDenials' = 0
    /\ aborted' = FALSE /\ reason' = "none" /\ events' = <<>>
    /\ slot' = TRUE /\ cancelledBy' = FALSE
    /\ hadDenial' = FALSE /\ ranTool' = FALSE /\ outcomes' = {}
    /\ UNCHANGED <<exitCode, killedInBatch>>

----------------------------------------------------------------------------
(* The body of driveLoop's for await.                                      *)

Yielded == {events'[k] : k \in 1..Len(events')}

Persisted == IF "messages-updated" \in Yielded THEN messages' ELSE saved

RanSomething == ranTool \/ "tool-call" \in Yielded

Consume ==
    /\ saved' = Persisted
    /\ hadDenial' = (hadDenial \/ "declined" \in Yielded)
    /\ ranTool' = RanSomething
    /\ outcomes' = outcomes \cup {results'[k].outcome : k \in 1..Len(results')}
    /\ process' = IF phase' = "done" THEN "archiving" ELSE "running"
    /\ UNCHANGED <<runs, attended, slot, cancelledBy, exitCode,
                   killedInBatch>>

\* The prompt reads stdin: once that has ended every answer is "no".
StdinAnswers ==
    phase = "prompting" /\ ~aborted /\ ~attended => PromptAnswered("no")

DriveLoop ==
    /\ process = "running"
    /\ LoopStep /\ StdinAnswers
    /\ Consume

----------------------------------------------------------------------------
(* The end of a run and the signals.                                       *)

\* Variant: every finished turn is a success.
StatusOf_Finished == IF reason = "no-tool-call" THEN 0 ELSE 1

\* refusedWithoutRunning turns a finished turn into a failure.
StatusOf ==
    IF reason = "no-tool-call" /\ ~(hadDenial /\ ~ranTool) THEN 0 ELSE 1

\* maybeRunArchivist settles, the slot is given up, and the run ends: by the
\* signal that cancelled it, or with its status.
EndRun ==
    /\ process = "archiving"
    /\ slot' = FALSE
    /\ \/ cancelledBy /\ process' = "signalled" /\ UNCHANGED exitCode
       \/ ~cancelledBy /\ process' = "exited" /\ exitCode' = StatusOf
    /\ UNCHANGED <<vars, runs, saved, attended, cancelledBy, hadDenial,
                   ranTool, outcomes, killedInBatch>>

Cancel ==
    /\ slot
    /\ slot' = FALSE /\ cancelledBy' = TRUE /\ aborted' = TRUE
    /\ events' = <<>>
    /\ UNCHANGED <<phase, iteration, messages, calls, results, overThreshold,
                   mode, allowedTools, consecutiveDenials, reason, process,
                   runs, saved, attended, hadDenial, ranTool, exitCode,
                   outcomes, killedInBatch>>

\* cleanups, then raiseSignal: everything but the session file is gone.
Die ==
    /\ process' = "signalled" /\ slot' = FALSE
    /\ killedInBatch' = (killedInBatch \/ InBatch)
    /\ phase' = "done" /\ events' = <<>>
    /\ UNCHANGED <<iteration, messages, calls, results, overThreshold, mode,
                   allowedTools, consecutiveDenials, aborted, reason, runs,
                   saved, attended, cancelledBy, hadDenial, ranTool,
                   exitCode, outcomes>>

SecondPress == ~slot /\ Die
Interrupt == process \notin Down /\ (Cancel \/ SecondPress)   \* Ctrl-C
Terminate == process \notin Down /\ Die                       \* SIGTERM

NoMoreRuns == process \in Down /\ runs = MaxRuns /\ UNCHANGED allVars

CliNext == StartRun \/ DriveLoop \/ EndRun \/ Interrupt \/ Terminate
           \/ NoMoreRuns

\* The archivist is handed the same signal, so an aborted run reaches its end.
CliSettles ==
    \/ process = "running" /\ Settles /\ StdinAnswers /\ Consume
    \/ aborted /\ EndRun

CliSpec == CliInit /\ [][CliNext]_allVars /\ WF_allVars(CliSettles)

----------------------------------------------------------------------------
(* Properties.                                                             *)

\* However a run ends, the saved transcript pairs every tool call with its
\* row, so that the next --resume is not refused - unless a second Ctrl-C or
\* a SIGTERM struck while a tool batch was open.
ResumableUnlessKilled ==
    process \in Down => Paired(saved) \/ killedInBatch

\* Status 0 says the task was finished, not merely stopped: the model had its
\* last word and, if anything was declined, something else did run.
ExitZeroMeansAccomplished ==
    process = "exited" /\ exitCode = 0 =>
        /\ reason = "no-tool-call"
        /\ "declined" \in outcomes => outcomes \cap {"ok", "threw"} # {}

\* One Ctrl-C, wherever it lands, ends the process by a signal: a shell loop
\* around the command stops with it.
CancelEndsInSignal == cancelledBy ~> process = "signalled"
=============================================================================
