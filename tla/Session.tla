------------------------------ MODULE Session ------------------------------
(***************************************************************************)
(* A session with the simulator: the main window with its machine, menus,  *)
(* new-machine dialog and builds, or the command line program.  Both run   *)
(* the same machine control.                                               *)
(***************************************************************************)
EXTENDS NewDialog, CommandLine

CONSTANTS
    MaxEdits,        \* bound on the dialog's edits in a session
    MaxBuilds,       \* bound on builds that run at the same time
    MaxMachines      \* bound on the machines a session makes

ASSUME SessionAssumption == {MaxEdits, MaxBuilds, MaxMachines} \subseteq Nat

VARIABLES
    frontend,        \* "gui" or "cli"
    configured,      \* the main window has a machine
    exe,             \* it was made with its executable loaded
    image,           \* what its memory holds: "empty", "elf" or "asm"
    actions,         \* the enabled ones of Run, Step and Pause
    dialog,          \* the modal new-machine dialog is open
    builds,          \* make processes that run
    closed, edits, machines

windowVars == <<configured, exe, image, actions, dialog, builds, closed, edits, machines>>
vars == <<controlVars, dialogVars, cliVars, windowVars, frontend>>

(***************************************************************************)
(* The machine and its menu actions                                        *)
(***************************************************************************)
machine_status(st) ==
    CASE st = "READY" -> {"Run", "Step"} [] st = "RUNNING" -> {"Pause"} [] OTHER -> {}

\* status_change is emitted when the status changes; a step makes it busy between.
Signalled(stepped) == actions' = IF stepped \/ stat' # stat THEN machine_status(stat') ELSE actions

\* Mutant: the actions are left as the machine that is replaced had them.
Ready_Stale == actions

Ready == machine_status("READY")

\* The old machine goes with its clock; the last of n new ones stays.
Made(n, loaded, img) ==
    /\ machines < MaxMachines
    /\ machines' = machines + n
    /\ New /\ UNCHANGED speed
    /\ configured' = TRUE
    /\ exe' = loaded
    /\ image' = img
    /\ actions' = Ready

create_core(loaded, keep) ==
    Made(1, loaded, IF loaded THEN "elf" ELSE IF keep THEN image ELSE "empty")

NoMachineChange == UNCHANGED <<controlVars, configured, exe, image, actions, machines>>

\* ok: the file of the machine's configuration loads.
machine_reload(c, force_memory_reset, force_elf_load, ok) ==
    LET loaded == force_elf_load \/ exe
    IN  /\ ok => c.elf # ""
        /\ IF loaded /\ ~ok THEN NoMachineChange
           ELSE create_core(loaded, ~loaded /\ ~force_memory_reset)

Window == frontend = "gui" /\ ~closed
MainWindow == Window /\ ~dialog             \* the dialog is modal
WindowKept == UNCHANGED <<configured, exe, image, dialog, builds, closed, edits, machines>>

Run(event) == MainWindow /\ configured /\ "Run" \in actions /\ play(event) /\ Signalled(TRUE) /\ WindowKept
Step(event) == MainWindow /\ configured /\ "Step" \in actions /\ step(event) /\ Signalled(TRUE) /\ WindowKept
Pause == MainWindow /\ configured /\ "Pause" \in actions /\ pause /\ Signalled(FALSE) /\ WindowKept
SetSpeed(s) == MainWindow /\ set_speed(s) /\ UNCHANGED windowVars

\* With an executable loaded, restart brings its image back.
Restart ==
    /\ MainWindow /\ configured
    /\ restart /\ Signalled(FALSE)
    /\ image' = IF exe THEN "elf" ELSE image
    /\ UNCHANGED <<configured, exe, dialog, builds, closed, edits, machines>>

\* The timer does not wait for the dialog.
Timer(n, event) == Window /\ configured /\ step_timer(n, event) /\ Signalled(TRUE) /\ WindowKept

(***************************************************************************)
(* The dialog                                                              *)
(***************************************************************************)
Reload(ok) ==
    /\ MainWindow
    /\ IF configured
       THEN machine_reload(given, FALSE, FALSE, ok) /\ UNCHANGED <<dialog, builds, closed, edits>>
       ELSE dialog' = TRUE /\ NoMachineChange /\ UNCHANGED <<builds, closed, edits>>

new_machine == MainWindow /\ dialog' = TRUE /\ NoMachineChange /\ UNCHANGED <<builds, closed, edits>>

EditDialog ==
    /\ Window /\ dialog
    /\ edits < MaxEdits /\ edits' = edits + 1
    /\ Edits
    /\ NoMachineChange /\ UNCHANGED <<dialog, builds, closed>>

cancel ==
    /\ Window /\ dialog
    /\ DialogClose
    /\ dialog' = FALSE /\ closed' = ~configured
    /\ NoMachineChange /\ UNCHANGED <<builds, edits>>

create(ok) ==
    /\ Window /\ dialog
    /\ ok => config.elf # ""
    /\ IF ok THEN create_core(TRUE, FALSE) /\ StoreAndClose /\ dialog' = FALSE
       ELSE NoMachineChange /\ UNCHANGED <<dialogVars, dialog>>
    /\ UNCHANGED <<builds, closed, edits>>

create_empty ==
    /\ Window /\ dialog
    /\ create_core(FALSE, TRUE) /\ StoreAndClose
    /\ dialog' = FALSE /\ UNCHANGED <<builds, closed, edits>>

\* The example is compiled into the machine just made: a second machine when
\* the configuration resets at compile.
create_example ==
    /\ Window /\ dialog
    /\ Made(IF config.reset_at_compile THEN 2 ELSE 1, FALSE, "asm")
    /\ StoreAndClose
    /\ dialog' = FALSE /\ UNCHANGED <<builds, closed, edits>>

(***************************************************************************)
(* Building                                                                *)
(***************************************************************************)
\* A reset that fails leaves the old machine, and the program goes to that one.
compile_source(ok) ==
    /\ MainWindow /\ configured
    /\ ok => given.elf # ""
    /\ IF given.reset_at_compile /\ (exe => ok)
       THEN Made(1, exe, "asm")
       ELSE image' = "asm" /\ UNCHANGED <<controlVars, configured, exe, actions, machines>>
    /\ UNCHANGED <<dialog, builds, closed, edits>>

\* Earlier builds are not closed: build_process is assigned the old pointer.
build_execute_no_check ==
    /\ MainWindow /\ builds < MaxBuilds
    /\ builds' = builds + 1
    /\ NoMachineChange /\ UNCHANGED <<dialog, closed, edits>>

\* Also while the dialog is open.
build_finished(success, ok) ==
    /\ Window /\ builds > 0
    /\ builds' = builds - 1
    /\ IF success /\ configured /\ given.reset_at_compile
       THEN machine_reload(given, TRUE, TRUE, ok)
       ELSE NoMachineChange
    /\ UNCHANGED <<dialog, closed, edits>>

(***************************************************************************)
(* The specification                                                       *)
(***************************************************************************)
Gui ==
    /\ \/ /\ \/ \E e \in Events : Run(e) \/ Step(e) \/ \E n \in 1 .. MaxBurst : Timer(n, e)
             \/ Pause \/ Restart \/ new_machine \/ build_execute_no_check
             \/ \E s \in Speeds : SetSpeed(s)
             \/ \E ok \in BOOLEAN : Reload(ok) \/ compile_source(ok)
             \/ \E success, ok \in BOOLEAN : build_finished(success, ok)
          /\ UNCHANGED dialogVars
       \/ EditDialog \/ cancel \/ create_empty \/ create_example
       \/ \E ok \in BOOLEAN : create(ok)
    /\ UNCHANGED <<cliVars, frontend>>

Cli ==
    /\ frontend = "cli"
    /\ \/ ConfigureMachine(config)
       \/ \E ok \in BOOLEAN : configure_osemu(config, ok)
       \/ /\ UNCHANGED config
          /\ \/ \E ok \in BOOLEAN : \/ LoadElf(ok) \/ configure_tracer(ok) \/ configure_serial_port(ok)
                                    \/ assemble(ok) \/ configure_reporter(ok) \/ load_ranges(ok)
             \/ \E e \in Events, known \in BOOLEAN :
                   CliPlay(e, known) \/ \E n \in 1 .. MaxBurst : CliTimer(n, e, known)
             \/ OnlyDump
    /\ UNCHANGED <<chosen, hazard_box, settings, fresh, given, windowVars, frontend>>

Init ==
    /\ frontend \in {"gui", "cli"}
    /\ stat = "READY" /\ clock = FALSE /\ cycles = 0
    /\ IF frontend = "cli" THEN NoDialog /\ CliInit /\ speed = "unlimited"
       ELSE /\ DialogInit /\ speed = "fixed"
            /\ opts = <<>> /\ stage = "" /\ retcode = <<>> /\ reported = -1
    /\ configured = FALSE /\ exe = FALSE /\ image = "empty" /\ actions = {}
    /\ dialog = (frontend = "gui") /\ builds = 0 /\ closed = FALSE
    /\ edits = 0 /\ machines = 0

Next == Gui \/ Cli

Spec == Init /\ [][Next]_vars

\* The menu offers what the machine would do: Run and Step exactly while it is
\* ready, Pause while it runs, none after a trap; also after a machine was
\* replaced by the dialog, a reload, or a build that finished at any time.
ActionsMatchStatus == configured => actions = machine_status(stat)
=============================================================================
