-------------------------------- MODULE Hooks --------------------------------
(***************************************************************************)
(* Debug hooks (ldebug.c, ldo.c) and the trap by which vmkV_execute (lvm.c) *)
(* notices them: one coroutine runs functions whose instructions are known *)
(* only by what they do to the trap.  Hooks may yield; they are set by a C *)
(* function that the code calls, or by a signal between two instructions.  *)
(***************************************************************************)
EXTENDS LineInfo

CONSTANTS
    Functions,      \* a sequence of [fs, isvararg, code]: line information, kinds of instructions
    Masks,          \* the masks that vmk_sethook is given
    BaseCount,      \* and the count
    MaxCalls        \* bound: frames at a time

ASSUME HookAssumption == BaseCount \in Nat \ {0} /\ MaxCalls \in Nat \ {0}

VARIABLES
    ci,             \* the frames, innermost last
    trap,           \* the copy of the trap in vmkV_execute
    hook,           \* [mask, count, oldpc]: hookmask, hookcount, oldpc
    status,         \* "running", "yielded" in a hook, or "dead"
    seen            \* what the last instruction showed and should have shown

hookVars == <<ci, trap, hook, status, seen>>

\* A CallInfo: f is its function; yielded is CIST_HOOKYIELD.  For the properties: last is the
\* instruction that it executed last, calls counts its call events, due if it should have one.
NewFrame(f) ==
    [f |-> f, savedpc |-> 0, trap |-> FALSE, yielded |-> FALSE, last |-> -1, calls |-> 0, due |-> FALSE]
Now == Last(ci)
With(fr) == Append(Front(ci), fr)

\* n counts the instructions since the last count event, to BaseCount + 1.  A signal makes trap, until the
\* interpreter polls it, and oldpc, until a hook sets it, wrong; a line hook that yields, n.
Nothing == [traced |-> TRUE, line |-> FALSE, lineDue |-> FALSE, count |-> FALSE, countDue |-> FALSE,
            n |-> 0, polled |-> TRUE, sure |-> TRUE, even |-> TRUE]
Certain == seen.sure /\ seen.polled

HookInit ==
    /\ ci = <<NewFrame(1)>> /\ trap = FALSE
    /\ hook = [mask |-> {}, count |-> BaseCount, oldpc |-> 0]
    /\ status = "running"
    /\ seen = Nothing

-----------------------------------------------------------------------------
(* vmkG_traceexec, before the instruction at savedpc. *)

On(event) == event \in hook.mask
Hooked == hook.mask # {}
Function == Functions[Now.f]
Npci == Now.savedpc

Tracing == trap /\ (On("line") \/ On("count"))
CountHook == On("count") /\ hook.count = 1
CallsHooks == Tracing /\ (CountHook \/ On("line")) /\ ~Now.yielded
OldPc == IF hook.oldpc < Len(Function.code) THEN hook.oldpc ELSE 0

CountEvent == CallsHooks /\ CountHook
LineEvent == CallsHooks /\ On("line") /\ (Npci <= OldPc \/ ChangedLine(Function.fs, OldPc, Npci))

\* The hooks after it, when none of them yielded, and the frame with the instruction fetched.
Counted == IF ~Tracing \/ ~On("count") THEN hook
           ELSE [hook EXCEPT !.count = IF CountHook THEN BaseCount ELSE @ - 1]
Traced == IF CallsHooks /\ On("line") THEN [Counted EXCEPT !.oldpc = Npci] ELSE Counted

\* Mutant: the mark CIST_HOOKYIELD stays.
FetchedYielded == [Now EXCEPT !.savedpc = @ + 1, !.last = Npci, !.trap = IF trap THEN Tracing ELSE @]

Fetched == [Now EXCEPT !.savedpc = @ + 1, !.last = Npci,
                       !.trap = IF trap THEN Tracing ELSE @,
                       !.yielded = @ /\ ~(Tracing /\ (CountHook \/ On("line")))]

\* What it shows.  OP_VARARGPREP is not traced, and the instruction after it is a new line.
Prepares(pc) == Function.isvararg /\ pc = 0
Seen ==
    LET n == IF Tracing /\ On("count") /\ ~Now.yielded /\ seen.n <= BaseCount THEN seen.n + 1 ELSE seen.n
        newline == \/ Now.last = -1 \/ Npci <= Now.last \/ Prepares(Now.last)
                   \/ Function.fs.lineOf[Npci + 1] # Function.fs.lineOf[Now.last + 1]
    IN  [seen EXCEPT !.traced = Tracing \/ Prepares(Npci) \/ ~(On("line") \/ On("count")) \/ ~seen.polled,
                     !.line = Certain /\ LineEvent,
                     !.lineDue = Certain /\ On("line") /\ ~Prepares(Npci) /\ ~Now.yielded /\ newline,
                     !.count = seen.even /\ CountEvent,
                     !.countDue = seen.even /\ Tracing /\ On("count") /\ ~Now.yielded /\ n = BaseCount,
                     !.n = IF CountEvent THEN 0 ELSE n]

-----------------------------------------------------------------------------
(* Steps. *)

\* vmkD_hookcall for the frame fr.
HookCall(fr) == [fr EXCEPT !.calls = IF On("call") THEN @ + 1 ELSE @]

\* vmkV_execute from startfunc on, and vmkG_tracecall, with the hooks h and the frame fr.
StartFunction(below, fr, h) ==
    LET first == Hooked /\ fr.savedpc = 0 /\ ~Functions[fr.f].isvararg /\ ~fr.yielded
        traced == [fr EXCEPT !.trap = @ \/ Hooked]
    IN  /\ ci' = Append(below, IF first THEN HookCall(traced) ELSE traced)
        /\ hook' = IF first THEN [h EXCEPT !.oldpc = 0] ELSE h
        /\ trap' = (Hooked /\ ~(fr.savedpc = 0 /\ Functions[fr.f].isvararg))

\* settraps.
SetTraps(frames, mask) ==
    FoldLeft(LAMBDA all, fr : Append(all, [fr EXCEPT !.trap = @ \/ mask # {}]), <<>>, frames)

\* What is known after an instruction that sets oldpc, or not.
Known(oldpc) == seen' = [Seen EXCEPT !.sure = @ \/ (CallsHooks /\ On("line")) \/ oldpc, !.polled = @ \/ trap']

Executes(kind) == status = "running" /\ Function.code[Npci + 1] = kind

\* An instruction that runs no other code.
Move ==
    /\ Executes("move")
    /\ ci' = With(Fetched) /\ trap' = Tracing /\ hook' = Traced
    /\ Known(FALSE) /\ UNCHANGED status

\* A jump, to anywhere (dojump); a Protect does the same to the trap.
Jump ==
    /\ Executes("jump")
    /\ \E target \in 0 .. Len(Function.code) - 1 :
         ~Prepares(target) /\ ci' = With([Fetched EXCEPT !.savedpc = target])
    /\ trap' = Fetched.trap /\ hook' = Traced
    /\ Known(FALSE) /\ UNCHANGED status

\* OP_VARARGPREP calls the hook that vmkG_tracecall did not.
VarargPrep ==
    /\ Executes("varargprep")
    /\ ci' = With(IF Fetched.trap THEN HookCall(Fetched) ELSE Fetched)
    /\ hook' = IF Fetched.trap THEN [Traced EXCEPT !.oldpc = 1] ELSE Traced
    /\ trap' = Fetched.trap
    /\ Known(FALSE) /\ UNCHANGED status

\* OP_CALL and OP_TAILCALL of a Vmk function.
Called(f) == [NewFrame(f) EXCEPT !.due = On("call")]
Call ==
    /\ Executes("call") /\ Len(ci) < MaxCalls
    /\ \E f \in DOMAIN Functions : StartFunction(With(Fetched), Called(f), Traced)
    /\ Known(Hooked) /\ UNCHANGED status

TailCall ==
    /\ Executes("tailcall")
    /\ \E f \in DOMAIN Functions :
         StartFunction(Front(ci), [Called(f) EXCEPT !.trap = Fetched.trap, !.yielded = Fetched.yielded], Traced)
    /\ Known(Hooked) /\ UNCHANGED status

\* OP_CALL of a C function that calls vmk_sethook; it returns with the new hooks.
SetHook ==
    /\ Executes("sethook")
    /\ \E mask \in Masks :
         /\ hook' = [mask |-> mask, count |-> BaseCount, oldpc |-> IF mask # {} THEN Npci ELSE Traced.oldpc]
         /\ ci' = SetTraps(With(Fetched), mask)
         /\ trap' = Last(ci').trap
         /\ seen' = [Seen EXCEPT !.n = 0, !.even = TRUE, !.sure = @ \/ mask # {}, !.polled = @ \/ trap']
    /\ UNCHANGED status

\* OP_RETURN, with updatetrap, and OP_RETURN0 and OP_RETURN1, which ask for the hooks.
Return ==
    /\ Executes("return") \/ Executes("return0")
    /\ IF Len(ci) = 1 THEN status' = "dead" /\ UNCHANGED <<ci, trap, hook>>
       ELSE LET caller == ci[Len(ci) - 1]
                on == IF Executes("return") THEN Fetched.trap ELSE Hooked \/ Tracing
            IN  /\ hook' = IF Hooked THEN [Traced EXCEPT !.oldpc = caller.savedpc - 1] ELSE Traced
                /\ ci' = Append(SubSeq(ci, 1, Len(ci) - 2), [caller EXCEPT !.trap = @ \/ on])
                /\ trap' = on
                /\ UNCHANGED status
    /\ Known(Hooked)

\* A hook yields: the instruction is not executed yet.
Yield ==
    /\ status = "running" /\ (CountEvent \/ LineEvent)
    /\ hook' = IF CountHook THEN [Traced EXCEPT !.count = 1] ELSE Traced
    /\ ci' = With([Now EXCEPT !.yielded = TRUE])
    /\ seen' = [Seen EXCEPT !.even = @ /\ (CountHook \/ ~On("count")), !.sure = @ \/ On("line")]
    /\ status' = "yielded"
    /\ UNCHANGED trap

\* resume: vmkV_execute starts again.
Resume ==
    /\ status = "yielded"
    /\ StartFunction(Front(ci), Now, hook)
    /\ status' = "running"
    /\ seen' = [Nothing EXCEPT !.n = seen.n, !.sure = seen.sure, !.even = seen.even, !.polled = seen.polled \/ trap']

\* A signal handler calls vmk_sethook (not between a resume and its first instruction).
Signal ==
    /\ status = "running" /\ ~Now.yielded
    /\ \E mask \in Masks :
         /\ hook' = [hook EXCEPT !.mask = mask, !.count = BaseCount]
         /\ ci' = FoldLeft(LAMBDA all, fr : Append(all, [fr EXCEPT !.due = @ /\ fr.savedpc > 0]), <<>>, SetTraps(ci, mask))
    /\ seen' = [Nothing EXCEPT !.sure = FALSE, !.polled = FALSE]
    /\ UNCHANGED <<trap, status>>

HookNext ==
    \/ Move \/ Jump \/ VarargPrep \/ Call \/ TailCall \/ SetHook \/ Return
    \/ Yield \/ Resume \/ Signal

HookSpec == HookInit /\ [][HookNext]_hookVars

-----------------------------------------------------------------------------
(* Properties. *)

\* With the line hook on, it is called for an instruction exactly when the function starts,
\* goes back, or goes to another line, through calls, returns, yields in hooks and changes
\* of the hooks; only after a signal, until oldpc is set again, may it differ.
LineEventsExact == seen.line <=> seen.lineDue

\* The count hook is called every BaseCount instructions, as long as no line hook yields.
CountEventsExact == seen.count <=> seen.countDue

\* While a hook is on, no instruction runs untraced, in any frame, except after a signal,
\* until the interpreter polls the trap.
NoneUntraced == seen.traced

\* A function that starts with the call hook on has one call event, also when it is vararg,
\* or when a hook yields before its first instruction.
OneCallEvent ==
    \A c \in DOMAIN ci : /\ ci[c].calls <= 1
                         /\ ci[c].due /\ ci[c].savedpc > 0 => ci[c].calls = 1

HooksExact == LineEventsExact /\ CountEventsExact /\ NoneUntraced /\ OneCallEvent
=============================================================================
