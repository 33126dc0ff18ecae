-------------------------------- MODULE Steps --------------------------------
(* The steps that the handlers of the CLI are made of. A handler is a program:
   a sequence of steps, of which some hold programs. Command.tla runs them; the
   modules of commands write each handler of the source as a program, so that
   its checks, requests, early returns and error paths stand in their order.

   "bound" says that a request carries the context of the command, which
   --timeout cancels; a request made without it goes on until it is answered. *)
EXTENDS Sequences, Integers

(* A local step that refuses what the user gave: flags, arguments, a file. *)
Check == <<[op |-> "check"]>>

(* A local step that may fail for another reason: output, disk, a child process, an answer that does not parse. *)
Local == <<[op |-> "local"]>>

Get      == <<[op |-> "get", bound |-> TRUE]>>
GetFree  == <<[op |-> "get", bound |-> FALSE]>>

(* A request that changes o at the remote side; "after" is what o points to there. *)
SendAfter(o, after) == <<[op |-> "send", of |-> o, bound |-> TRUE, after |-> after]>>
FreeAfter(o, after) == <<[op |-> "send", of |-> o, bound |-> FALSE, after |-> after]>>
Send(o) == SendAfter(o, {})
SendFree(o) == FreeAfter(o, {})

(* Requests for each of os, by goroutines whose first error is returned when all have ended. *)
PoolAfter(os, after) == <<[op |-> "pool", of |-> os, bound |-> TRUE, after |-> after, bad |-> FALSE]>>
PoolFree(os) == <<[op |-> "pool", of |-> os, bound |-> FALSE, after |-> {}, bad |-> FALSE]>>
Pool(os) == PoolAfter(os, {})

(* What the code decides by flags, answers or files that the model leaves open. *)
OneOf(programs) == <<[op |-> "choose", of |-> programs]>>
Either(p, q) == OneOf(<<p, q>>)
Opt(p) == Either(p, <<>>)

(* A loop over a list, of at most two rounds. *)
Loop(p) == <<[op |-> "loop", of |-> p, left |-> 2]>>

(* Error handling: q runs when p fails; q always runs, as a deferred call does. *)
Block(p, mark) == <<[op |-> "enter", of |-> p, mark |-> mark]>>
Try(p, q) == Block(p, [op |-> "catch", of |-> q])
Finally(p, q) == Block(p, [op |-> "finally", of |-> q])
Fail == <<[op |-> "raise"]>>

(* The body of a function, which Return leaves early. *)
Call(p) == Block(p, [op |-> "end"])
Return == <<[op |-> "return"]>>

(* What becomes of an error: shown and left at that, counted for a later Tally, dropped. *)
Tell == <<[op |-> "tell"]>>
Warned(p) == Try(p, Tell)
Counted(p) == Try(p, <<[op |-> "count"]>>)
Tally == <<[op |-> "tally"]>>
Dropped(p) == Try(p, <<[op |-> "drop"]>>)

(* An answer that is no error says that a part of the change failed. *)
Partly == <<[op |-> "partly"]>>

(* A temporary file or directory, and its removal. *)
Temp == <<[op |-> "temp"]>>
Clean == <<[op |-> "clean"]>>
WithTemp(p) == Temp \o Finally(p, Clean)

(* A file of the user: written in place, so that it is first empty, or renamed over. *)
Overwrite == <<[op |-> "open"], [op |-> "fill"]>>
RenameOver == <<[op |-> "rename"]>>
Unlink == <<[op |-> "unlink"]>>

(* The user is asked, and declines or confirms. *)
Ask == <<[op |-> "ask"]>>
Preview == <<[op |-> "preview"]>>

(* Polls of a remote job until it ends: how many failed polls in a row are borne, and what follows
   a job that failed, a poll too many that failed, and a deadline of the handler. *)
Forever == -1
Watch(patience, bad, lost, late) ==
  <<[op |-> "watch", bound |-> TRUE, patience |-> patience, spent |-> 0,
     bad |-> bad, lost |-> lost, late |-> late]>>

(* logstream.FollowMulti ends with its execution, as that ended. *)
Follow == Watch(Forever, Fail, Fail, <<>>)
=============================================================================
