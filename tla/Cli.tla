-------------------------------- MODULE Cli --------------------------------
(***************************************************************************)
(* The command line client (ls-cli): runs of `lsec` on one machine, which   *)
(* share the token file and the directory's pin file, and talk to a server  *)
(* over connections that may fail before or after the server has acted.      *)
(*                                                                         *)
(* Commands are told apart by what they resolve before their one call and    *)
(* by what they do with its answer; what they print is left out.  The        *)
(* server is kept as far as a client can tell: which session tokens are      *)
(* live, and what it did for which run; why it refuses is its own business.  *)
(* What a run resolved is gone when it ends, but for the token, kept to       *)
(* state properties with.                                                     *)
(***************************************************************************)
EXTENDS Integers, Sequences, FiniteSets

CONSTANTS
    Runs,          \* runs of lsec, each started at most once (bound)
    Projects, Environments,   \* slugs given as flags
    Pins,          \* pairs of slugs given to `lsec use`
    GivenToken,    \* a token given by --token or LS_TOKEN, live from the start
    Offered        \* the commands that are run

None == "none"     \* no file, no flag, no value
NoPin == <<None, None>>
NotRun == -2       \* no child was started
Empty == "empty"   \* a file that was truncated and not yet written

\* Tokens are told apart from each other and from an empty file; slugs are not empty.
ASSUME CliAssumption ==
    /\ IsFiniteSet(Runs) /\ Runs # {}
    /\ Runs \cap {GivenToken, "root", None, Empty} = {}
    /\ GivenToken \notin {None, Empty}
    /\ None \notin Projects \cup Environments
    /\ \A pin \in Pins : pin = <<pin[1], pin[2]>> /\ None \notin {pin[1], pin[2]}

VARIABLES
    tokenFile,   \* ~/.config/localsecrets/token
    unlinked,    \* runs holding open a token file that has been removed since
    pinFile,     \* .localsecrets in the working directory
    cmd,         \* the command line of each run
    at,          \* where each run is
    target,      \* the project and environment each run resolved
    token,       \* the token each run resolved
    answer,      \* the server's answer to each run's call
    child,       \* the exit code of the program `lsec run` started
    exit,        \* the exit code of each run
    live,        \* session tokens the server accepts; a login's token is named after it
    performed,   \* how often the server did what each run asked for
    mixed,       \* ghost: one `use` has written over another's text since a truncation
    pinned,      \* ghost: pairs that `use` wrote to the pin file
    overlapped   \* ghost: the pin file was written between this run's two reads, or
                 \* held a mix at the first

files == <<tokenFile, unlinked, pinFile, mixed, pinned, overlapped>>
resolved == <<target, token>>
server == <<live, performed>>
vars == <<tokenFile, unlinked, pinFile, cmd, at, target, token, answer, child, exit, live,
          performed, mixed, pinned, overlapped>>

\* fetch_secrets' callers, and the other commands that name a pair
PairCommands == {"set", "get", "list", "delete", "export", "import", "run", "token create"}
ProjectCommands == {"env create", "env list"}
SystemCommands == {"rekey", "seal"}
OtherCommands == {"project create", "project list", "token revoke", "audit"}
OpenCommands == {"init", "unseal", "status", "login"}   \* need no token
Commands == PairCommands \cup ProjectCommands \cup SystemCommands \cup OtherCommands
            \cup OpenCommands \cup {"user create", "logout", "use"}

ASSUME OfferedAssumption == Offered \subseteq Commands

\* A command line: the command, the flags it heeds, and for `use` what it pins.
CommandLines ==
    {line \in [name : Offered, project : Projects \cup {None},
               environment : Environments \cup {None}, token : {GivenToken, None}] :
        /\ line.name # "use"
        /\ line.project # None => line.name \in PairCommands \cup ProjectCommands
        /\ line.environment # None => line.name \in PairCommands
        /\ line.token # None => line.name \notin OpenCommands}
    \cup {[name |-> "use", project |-> pin[1], environment |-> pin[2], token |-> None] : pin \in Pins}

Bare(name) == [name |-> name, project |-> None, environment |-> None, token |-> None]

TypeOK ==
    /\ tokenFile \in Runs \cup {None, Empty} /\ unlinked \subseteq Runs
    /\ pinFile[1] \in {pin[1] : pin \in Pins \cup {NoPin}}
    /\ pinFile[2] \in {pin[2] : pin \in Pins \cup {NoPin}}
    /\ cmd \in [Runs -> CommandLines \cup {Bare(name) : name \in Offered \cup {"use", None}}]
    /\ at \in [Runs -> {"idle", "project", "environment", "token", "calling", "answering",
                        "storing", "writing", "forgetting", "pinning", "spawning", "over"}]
    /\ target \in [Runs -> (Projects \cup {None} \cup {pin[1] : pin \in Pins})
                          \X (Environments \cup {None} \cup {pin[2] : pin \in Pins})]
    /\ token \in [Runs -> Runs \cup {GivenToken, "root", None, Empty}]
    /\ answer \in [Runs -> {None, "ok", "refused"}]
    /\ child \in [Runs -> {NotRun, -1, 0, 1, 256}]
    /\ exit \in [Runs -> {None, "success", "failure", "killed"}]
    /\ live \subseteq Runs \cup {GivenToken, "root"}
    /\ performed \in [Runs -> 0 .. 2]
    /\ pinned \subseteq Pins
    /\ overlapped \in [Runs -> BOOLEAN]
    /\ mixed \in BOOLEAN

\* The state of a machine that was used before: perhaps a pin, never a token.
Init ==
    /\ tokenFile = None /\ unlinked = {}
    /\ pinFile \in Pins \cup {NoPin}
    /\ pinned = {pinFile} \ {NoPin}
    /\ cmd = [r \in Runs |-> Bare(None)]
    /\ at = [r \in Runs |-> "idle"]
    /\ target = [r \in Runs |-> NoPin]
    /\ token = [r \in Runs |-> None]
    /\ answer = [r \in Runs |-> None]
    /\ child = [r \in Runs |-> NotRun]
    /\ exit = [r \in Runs |-> None]
    /\ live = {GivenToken, "root"}
    /\ performed = [r \in Runs |-> 0]
    /\ overlapped = [r \in Runs |-> FALSE]
    /\ mixed = FALSE

Goes(r, place) == at' = [at EXCEPT ![r] = place]
Exits(r, code) ==
    /\ Goes(r, "over")
    /\ exit' = [exit EXCEPT ![r] = code]
    /\ cmd' = [cmd EXCEPT ![r] = Bare(@.name)]
    /\ target' = [target EXCEPT ![r] = NoPin]
Proceeds(r, place) == Goes(r, place) /\ UNCHANGED <<exit, cmd, target>>

-----------------------------------------------------------------------------
(* Before the call *)

\* dispatch: where each command begins.
First(name) ==
    CASE name = "use" -> "pinning"
      [] name \in PairCommands \cup ProjectCommands -> "project"
      [] OTHER -> "token"

Start(r, line) ==
    /\ at[r] = "idle"
    /\ cmd' = [cmd EXCEPT ![r] = line]
    /\ Goes(r, First(line.name))
    /\ UNCHANGED <<files, resolved, answer, child, exit, server>>

\* An argument is missing, or what the command reads first cannot be read.
Misused(r) ==
    /\ at[r] \in {"pinning", "project", "token"} /\ target[r] = NoPin
    /\ Exits(r, "failure")
    /\ UNCHANGED <<files, token, answer, child, server>>

\* One half of the target is resolved, or there is none to be had.
Resolves(r, half, found, place) ==
    \/ found = None /\ Exits(r, "failure")
    \/ /\ found # None
       /\ target' = [target EXCEPT ![r][half] = found]
       /\ Goes(r, place) /\ UNCHANGED <<exit, cmd>>

\* Common::project: the flag, then read_pin().project.
ReadProject(r) ==
    /\ at[r] = "project"
    /\ Resolves(r, 1, IF cmd[r].project # None THEN cmd[r].project ELSE pinFile[1],
                IF cmd[r].name \in PairCommands THEN "environment" ELSE "token")
    /\ overlapped' = [overlapped EXCEPT ![r] = @ \/ (mixed /\ cmd[r].project = None)]
    /\ UNCHANGED <<tokenFile, unlinked, pinFile, mixed, pinned, token, answer, child, server>>

\* Common::environment: the flag, then read_pin().environment, read anew.
ReadEnvironment(r) ==
    /\ at[r] = "environment"
    /\ Resolves(r, 2, IF cmd[r].environment # None THEN cmd[r].environment ELSE pinFile[2],
                "token")
    /\ UNCHANGED <<files, token, answer, child, server>>

\* Mutant: an empty file is a token.
CachedTokenRaw == tokenFile

\* cached_token: an empty file is no token.
CachedToken == IF tokenFile = Empty THEN None ELSE tokenFile

\* create_user without a token asks for the root token; nothing may be typed.
AskForRoot(r) ==
    \/ token' = [token EXCEPT ![r] = "root"] /\ Proceeds(r, "calling")
    \/ UNCHANGED token /\ Exits(r, "failure")

\* Common::token, then connect, connect_authenticated or create_user's prompt.
\* logout goes on without a token, to forget the file.
ReadToken(r) ==
    /\ at[r] = "token"
    /\ LET found == IF cmd[r].token # None THEN cmd[r].token ELSE CachedToken
           name == cmd[r].name
       IN \/ /\ found # None \/ name \in OpenCommands
             /\ token' = [token EXCEPT ![r] = found]
             /\ Proceeds(r, "calling")
          \/ found = None /\ name = "user create" /\ AskForRoot(r)
          \/ /\ found = None /\ name = "logout"
             /\ UNCHANGED token /\ Proceeds(r, "forgetting")
          \/ /\ found = None /\ name \notin OpenCommands \cup {"user create", "logout"}
             /\ UNCHANGED token /\ Exits(r, "failure")
    /\ UNCHANGED <<files, answer, child, server>>

-----------------------------------------------------------------------------
(* The call: one request, never repeated *)

\* A command that needs a session is refused without a live one.
Granted(r) == cmd[r].name \in OpenCommands \/ token[r] \in live

\* A request that arrives is handled to its end, or refused and changes nothing.
Serve(r) ==
    /\ at[r] = "calling"
    /\ \/ /\ Granted(r)
          /\ answer' = [answer EXCEPT ![r] = "ok"]
          /\ performed' = [performed EXCEPT ![r] = @ + 1]
          /\ live' = CASE cmd[r].name = "login" -> live \cup {r}
                       [] cmd[r].name = "logout" -> live \ {token[r]}
                       [] OTHER -> live
       \/ /\ answer' = [answer EXCEPT ![r] = "refused"]   \* sealed, or for a reason of its own
          /\ UNCHANGED server
    /\ Proceeds(r, "answering")
    /\ UNCHANGED <<files, token, child>>

\* What a command does when its call ended: with an answer, or with an error
\* because the request or its answer was lost.
AfterCall(r, how) ==
    CASE cmd[r].name = "logout" -> Proceeds(r, "forgetting")
      [] how = "ok" /\ cmd[r].name = "login" -> Proceeds(r, "storing")
      [] how = "ok" /\ cmd[r].name = "run" -> Proceeds(r, "spawning")
      [] how = "ok" /\ cmd[r].name \notin {"logout", "login", "run"} -> Exits(r, "success")
      [] OTHER -> Exits(r, "failure")

\* Api::call: an answer with a status of 2xx is a success, any other a failure.
Receive(r) ==
    /\ at[r] = "answering"
    /\ AfterCall(r, answer[r])
    /\ UNCHANGED <<files, token, answer, child, server>>

\* Mutant: what failed is sent again.
CallAgain(r) ==
    /\ at[r] \in {"calling", "answering"}
    /\ performed[r] < 2
    /\ Proceeds(r, "calling")
    /\ UNCHANGED <<files, token, answer, child, server>>

\* The connection fails or times out, before or after the server has acted.
CallFails(r) ==
    /\ at[r] \in {"calling", "answering"}
    /\ AfterCall(r, "lost")
    /\ UNCHANGED <<files, token, answer, child, server>>

-----------------------------------------------------------------------------
(* After the call *)

\* write_private: the file is truncated when it is opened, then written.
StoreOpen(r) ==
    /\ at[r] = "storing"
    /\ \/ tokenFile' = Empty /\ Proceeds(r, "writing")
       \/ UNCHANGED tokenFile /\ Exits(r, "failure")
    /\ UNCHANGED <<unlinked, pinFile, mixed, pinned, overlapped, token, answer, child, server>>

\* What is written to a file removed since it was opened is written to no file.
StoreWrite(r) ==
    /\ at[r] = "writing" /\ cmd[r].name = "login"
    /\ \/ tokenFile' = (IF r \in unlinked THEN tokenFile ELSE r) /\ Exits(r, "success")
       \/ UNCHANGED tokenFile /\ Exits(r, "failure")
    /\ UNCHANGED <<unlinked, pinFile, mixed, pinned, overlapped, token, answer, child, server>>

\* Mutant: the file goes only if the server said so.
ForgetIfTold(r) ==
    /\ at[r] = "forgetting"
    /\ tokenFile' = IF answer[r] = "ok" THEN None ELSE tokenFile
    /\ Exits(r, "success")
    /\ UNCHANGED <<unlinked, pinFile, mixed, pinned, overlapped, token, answer, child, server>>

\* forget_token, whatever the server said; a file that is not there is forgotten.
ForgetToken(r) ==
    /\ at[r] = "forgetting"
    /\ \/ /\ tokenFile' = None /\ Exits(r, "success")
          /\ unlinked' = unlinked \cup {other \in Runs : at[other] = "writing" /\ cmd[other].name = "login"}
       \/ tokenFile # None /\ UNCHANGED <<tokenFile, unlinked>> /\ Exits(r, "failure")
    /\ UNCHANGED <<pinFile, mixed, pinned, overlapped, token, answer, child, server>>

\* Those who have read one half of the pin and not the other.
Halfway == {r \in Runs : at[r] = "environment"}
Interferes == overlapped' = [r \in Runs |-> overlapped[r] \/ r \in Halfway]

\* Mutant: the project is replaced first, the environment after it.
PinHalf(r) ==
    /\ at[r] = "pinning"
    /\ pinFile' = <<cmd[r].project, pinFile[2]>> /\ mixed' = FALSE
    /\ Interferes /\ Proceeds(r, "writing")
    /\ UNCHANGED <<tokenFile, unlinked, pinned, token, answer, child, server>>

\* write_pin (fs::write): truncate, then write.
PinOpen(r) ==
    /\ at[r] = "pinning"
    /\ \/ pinFile' = NoPin /\ mixed' = FALSE /\ Interferes /\ Proceeds(r, "writing")
       \/ UNCHANGED <<pinFile, mixed, overlapped>> /\ Exits(r, "failure")
    /\ UNCHANGED <<tokenFile, unlinked, pinned, token, answer, child, server>>

\* Each open file is written from its start, so what another run wrote since the
\* truncation stays behind the end of a shorter text.  read_pin takes the last line
\* of each name: the project of this text, which has one, and the environment of
\* the text behind it if that line is still whole.
PinWrite(r) ==
    /\ at[r] = "writing" /\ cmd[r].name = "use"
    /\ \/ /\ \E environment \in {cmd[r].environment} \cup ({pinFile[2]} \ {None}) :
                pinFile' = <<cmd[r].project, environment>>
          /\ mixed' = (pinFile # NoPin)
          /\ pinned' = pinned \cup {<<cmd[r].project, cmd[r].environment>>}
          /\ Interferes /\ Exits(r, "success")
       \/ UNCHANGED <<pinFile, mixed, pinned, overlapped>> /\ Exits(r, "failure")
    /\ UNCHANGED <<tokenFile, unlinked, token, answer, child, server>>

\* A code that is not a byte, or no code at all (-1: killed by a signal), fails.
ExitOf(code) == IF code = 0 THEN "success" ELSE "failure"

\* run: the child gets the secrets, and its code is passed on.
RunChild(r) ==
    /\ at[r] = "spawning"
    /\ \/ \E code \in {-1, 0, 1, 256} :
            child' = [child EXCEPT ![r] = code] /\ Exits(r, ExitOf(code))
       \/ UNCHANGED child /\ Exits(r, "failure")   \* it could not be started
    /\ UNCHANGED <<files, token, answer, server>>

\* A run may be interrupted anywhere, a request of its being served anyway.
Kill(r) ==
    /\ at[r] \notin {"idle", "over"}
    /\ Exits(r, "killed")
    /\ UNCHANGED <<files, token, answer, child, server>>

Next ==
    \E r \in Runs :
        \/ \E line \in CommandLines : Start(r, line)
        \/ Misused(r) \/ ReadProject(r) \/ ReadEnvironment(r) \/ ReadToken(r)
        \/ Serve(r) \/ Receive(r) \/ CallFails(r)
        \/ StoreOpen(r) \/ StoreWrite(r) \/ ForgetToken(r)
        \/ PinOpen(r) \/ PinWrite(r) \/ RunChild(r) \/ Kill(r)

Spec == Init /\ [][Next]_vars

-----------------------------------------------------------------------------
(* Properties *)

\* A run that succeeds had exactly what it asked for done, once, and its program, if it
\* started one, ended well; one that fails or is interrupted had it done at most once,
\* whichever message was lost and however its files fared.  (logout forgets the token
\* whatever the server said, and use asks nothing of it.)
ExitTellsEffect ==
    \A r \in Runs :
        /\ performed[r] <= 1
        /\ exit[r] = "success" /\ cmd[r].name \notin {"logout", "use"} => performed[r] = 1
        /\ exit[r] = "success" /\ cmd[r].name = "run" => child[r] = 0

\* What a run names to the server is what the user chose: each flag as given, and
\* each other half from a pair that was pinned.  Both are of one pair, unless the
\* directory was re-pinned between this run's two reads of the file, or two runs of
\* `use` overlapped before them: these two may leave the project of one with the
\* environment of the other in the file, and whoever reads it then uses that.
TargetIsPinned ==
    \A r \in Runs : at[r] = "calling" /\ cmd[r].name \in PairCommands =>
        LET chosen == <<cmd[r].project, cmd[r].environment>>
            From(half, pair) ==
                target[r][half] = IF chosen[half] # None THEN chosen[half] ELSE pair[half]
        IN /\ \A half \in 1 .. 2 : \E pair \in pinned \cup {chosen} : pair[half] # None /\ From(half, pair)
           /\ ~overlapped[r] => \E pair \in pinned \cup {chosen} : \A half \in 1 .. 2 : From(half, pair)

\* Every token sent was issued, whole: a login killed between truncating the file
\* and writing it logs the user out and never makes a token of what is left.
TokensAreWhole ==
    \A r \in Runs :
        token[r] \in {None, GivenToken, "root"} \/ \E by \in Runs : token[r] = by /\ performed[by] = 1

\* After a logout that succeeded its token is gone from the file for good, and after
\* one the server answered, whatever became of the file, the token is dead, though
\* other runs log in, log out or are killed in between.
LogoutLasts ==
    \A r \in Runs : cmd[r].name = "logout" /\ token[r] \in Runs =>
        /\ exit[r] = "success" => tokenFile # token[r]
        /\ answer[r] = "ok" => token[r] \notin live
=============================================================================
