--------------------------------- MODULE Setup ---------------------------------
(***************************************************************************)
(* `openhawk setup` and the first-run notice (openhawk-cli/src/setup.rs):  *)
(* processes that install the companion tools, whose source build shares   *)
(* one directory under the system's temporary directory.                   *)
(*                                                                         *)
(* Whether a download, a compiler or a script succeeds is up to the        *)
(* environment.                                                            *)
(***************************************************************************)
EXTENDS Naturals, FiniteSets, Sequences

CONSTANTS
    Setups,      \* processes
    all_tools,   \* the tools, in the order of the loop
    GoTools,     \* those with InstallMethod::GoInstall
    CurlTools,   \* those with InstallMethod::CurlSh; cargo installs the rest
    Reachable,   \* those whose install directory is on PATH
    Options,     \* what `setup` may be called with: [only, skip, force, yes]
    MaxSetups    \* bound: runs of `setup`

VARIABLES
    marker,      \* ~/.hawk/.setup_done exists
    binaries,    \* tools with a binary in some install directory
    tmp,         \* the build directory: "none", "source" or "built"
    setup,       \* what each process is doing
    setups       \* how much of MaxSetups is used up

vars == <<marker, binaries, tmp, setup, setups>>

tool_available(t) == t \in binaries \cap Reachable

(* `todo`: the tools the loop has still to visit; `second`: the loop is the one
   that lists what to install manually; `claims`: tools reported as there. *)
Idle == [pc |-> "idle", to_install |-> <<>>, todo |-> <<>>, tool |-> {},
         force |-> FALSE, second |-> FALSE, failed |-> {}, claims |-> {}]

Init ==
    /\ marker = FALSE
    /\ binaries = {}
    /\ tmp = "none"
    /\ setup = [p \in Setups |-> Idle]
    /\ setups = 0

At(p, pc) == setup[p].pc = pc
Goto(p, locals) == setup' = [setup EXCEPT ![p] = locals]

--------------------------------------------------------------------------------
(* main() calls maybe_first_run before it parses the command: whatever is
   missing, the marker is written. *)
maybe_first_run(p) ==
    /\ At(p, "idle") /\ setups < MaxSetups
    /\ setups' = setups + 1
    /\ Goto(p, [Idle EXCEPT !.pc = "filter"])
    /\ marker' = TRUE
    /\ UNCHANGED <<binaries, tmp>>

(* --only wins over --skip; without --force only what is missing. *)
ToInstall(o) ==
    LET selected(t) == IF o.only # {} THEN t \in o.only ELSE t \notin o.skip
    IN  SelectSeq(all_tools, LAMBDA t : selected(t) /\ (o.force \/ ~tool_available(t)))

(* The listing and the question; `n` leaves without another word. *)
run_setup(p, o) ==
    /\ At(p, "filter")
    /\ LET to_install == ToInstall(o)
       IN  \/ /\ to_install = <<>>
              /\ marker' = TRUE
              /\ Goto(p, Idle)
           \/ /\ to_install # <<>>
              /\ Goto(p, [Idle EXCEPT !.pc = "install", !.to_install = to_install,
                                      !.todo = to_install, !.force = o.force])
              /\ UNCHANGED marker
           \/ /\ to_install # <<>> /\ ~o.yes
              /\ Goto(p, Idle)
              /\ UNCHANGED marker
    /\ UNCHANGED <<binaries, tmp, setups>>

(* The result of install_tool for the tool in hand.  The second loop only
   prints the failures. *)
Outcome(p, ok) ==
    LET s == [setup[p] EXCEPT !.pc = "install", !.tool = {}]
    IN  Goto(p, IF s.second THEN s
                ELSE IF ok THEN [s EXCEPT !.claims = @ \cup setup[p].tool]
                           ELSE [s EXCEPT !.failed = @ \cup setup[p].tool])

install_tool(p) ==
    /\ At(p, "install") /\ setup[p].todo # <<>>
    /\ LET t == Head(setup[p].todo)
           s == [setup[p] EXCEPT !.todo = Tail(@)]
           already == tool_available(t)
       IN  Goto(p, IF already /\ (~s.force \/ s.second)
                   THEN [s EXCEPT !.claims = IF s.second THEN @ ELSE @ \cup {t}]
                   ELSE [s EXCEPT !.tool = {t},
                                  !.pc = IF t \in GoTools THEN "go" ELSE "installer"])
    /\ UNCHANGED <<marker, binaries, tmp, setups>>

Built(p) == binaries' = binaries \cup setup[p].tool

(* curl ... | sh with INSTALL_DIR set to ~/.local/bin, or cargo install --git
   --force and once more with --no-locked.  The status of the pipe is that of sh,
   which is content with the empty script of a download that failed. *)
RunInstaller(p) ==
    /\ At(p, "installer")
    /\ \/ Built(p) /\ Outcome(p, TRUE)
       \/ setup[p].tool \subseteq CurlTools /\ Outcome(p, TRUE) /\ UNCHANGED binaries
       \/ Outcome(p, FALSE) /\ UNCHANGED binaries
    /\ UNCHANGED <<marker, tmp, setups>>

(* go install; with the proxy blocked, the build from source. *)
run_go_install(p) ==
    /\ At(p, "go")
    /\ \/ Built(p) /\ Outcome(p, TRUE)
       \/ Outcome(p, FALSE) /\ UNCHANGED binaries
       \/ Goto(p, [setup[p] EXCEPT !.pc = "clone"]) /\ UNCHANGED binaries
    /\ UNCHANGED <<marker, tmp, setups>>

(* remove_dir_all(&tmp), then git clone into it. *)
CloneSource(p) ==
    /\ At(p, "clone")
    /\ \/ tmp' = "source" /\ Goto(p, [setup[p] EXCEPT !.pc = "build"])
       \/ tmp' = "none" /\ Outcome(p, FALSE)
    /\ UNCHANGED <<marker, binaries, setups>>

(* go build ./cmd/..., then go build . in a directory that another setup may
   have removed. *)
BuildSource(p) ==
    /\ At(p, "build")
    /\ \/ /\ tmp # "none"
          /\ tmp' = "built" /\ Goto(p, [setup[p] EXCEPT !.pc = "copy"])
       \/ Outcome(p, FALSE) /\ UNCHANGED tmp
    /\ UNCHANGED <<marker, binaries, setups>>

(* Mutant: a failed copy is not looked at. *)
CopyBinary_Unchecked(p) ==
    /\ At(p, "copy")
    /\ Outcome(p, TRUE)
    /\ binaries' = IF tmp = "built" THEN binaries \cup setup[p].tool ELSE binaries
    /\ tmp' = "none"
    /\ UNCHANGED <<marker, setups>>

(* fs::copy to ~/.local/bin, and the directory removed. *)
CopyBinary(p) ==
    /\ At(p, "copy")
    /\ \/ /\ tmp = "built"
          /\ Built(p) /\ Outcome(p, TRUE)
          /\ tmp' = "none"
       \/ Outcome(p, FALSE) /\ UNCHANGED <<binaries, tmp>>
    /\ UNCHANGED <<marker, setups>>

(* The loop is over: done, or a second loop that tries each tool again while it
   prints what to install manually. *)
LoopDone(p) ==
    /\ At(p, "install") /\ setup[p].todo = <<>>
    /\ IF setup[p].failed # {} /\ ~setup[p].second
       THEN /\ Goto(p, [setup[p] EXCEPT !.todo = setup[p].to_install, !.second = TRUE])
            /\ UNCHANGED marker
       ELSE /\ Goto(p, Idle)
            /\ marker' = (marker \/ setup[p].failed = {})
    /\ UNCHANGED <<binaries, tmp, setups>>

Next ==
    \E p \in Setups :
        \/ maybe_first_run(p)
        \/ \E o \in Options : run_setup(p, o)
        \/ install_tool(p) \/ RunInstaller(p) \/ run_go_install(p)
        \/ CloneSource(p) \/ BuildSource(p) \/ CopyBinary(p) \/ LoopDone(p)

Spec == Init /\ [][Next]_vars

--------------------------------------------------------------------------------
(* Properties *)

(* What a setup reports as installed, updated or there already has its binary,
   even when another setup removes or rebuilds the directory it builds in; except
   for what is piped from curl to sh. *)
ClaimsInstalled == \A p \in Setups : setup[p].claims \subseteq binaries \cup CurlTools
================================================================================
