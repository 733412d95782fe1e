------------------------------ MODULE TodoServer ------------------------------
(***************************************************************************)
(* The REST server of day035.  net/http runs every handler in a goroutine  *)
(* of its own; each of them holds mu from its first statement to its       *)
(* return, while it reads a body from the network and writes its answer    *)
(* there too, and the server has no timeouts.  todos is a slice:           *)
(* "array" is what lies behind it, old tails included, and "len" its       *)
(* length.  A todo is its ID.  A reallocation by append is left out: no    *)
(* slice header outlives the lock.                                         *)
(***************************************************************************)
EXTENDS Integers, Sequences, SequencesExt, FiniteSetsExt

CONSTANTS
  Conn,    (* each sends one request                                     *)
  Nobody,
  Earlier    (* how many todos may have been created before                *)

ASSUME EarlierAssumption == Earlier \in Nat
ASSUME ConnAssumption == IsFiniteSet(Conn) /\ Nobody \notin Conn

(* A body is good, cannot be decoded, or never comes to its end.  A client *)
(* may never read an answer that is too long for the buffers on its way;   *)
(* only the titles of todos are of any length.                             *)
TodoRequests ==
  [op : {"create"}, body : {"good"}, id : {0}, reads : BOOLEAN]
  \cup [op : {"create"}, body : {"bad", "never"}, id : {0}, reads : {TRUE}]
  \cup [op : {"list"}, body : {"good"}, id : {0}, reads : BOOLEAN]
  \cup [op : {"delete"}, body : {"good"}, id : 0 .. Earlier + 1, reads : {TRUE}]

VARIABLES
  mu,                   (* who holds it                                    *)
  array, len, nextID,   (* todos and nextID                                *)
  request,              (* what each client asks                           *)
  at,                   (* "new", "lock", "handle", "write" or "done"      *)
  answer,               (* what its handler says: IDs, or an error         *)
  before                (* history: who had been answered when it asked    *)

todoVars == <<mu, array, len, nextID, request, at, answer, before>>

BadRequest == <<-1>>

(* The server after some requests, none of them a delete.                  *)
TodoInit(requests, created) ==
  /\ nextID \in created
  /\ array = [i \in 1 .. nextID |-> i] /\ len = nextID
  /\ mu = Nobody
  /\ request \in requests
  /\ at = [c \in Conn |-> "new"]
  /\ answer = [c \in Conn |-> <<>>]
  /\ before = [c \in Conn |-> {}]

Answered == {c \in Conn : at[c] = "done"}
Arrive(c) ==
  /\ at[c] = "new"
  /\ at' = [at EXCEPT ![c] = "lock"]
  /\ before' = [before EXCEPT ![c] = Answered]
  /\ UNCHANGED <<mu, array, len, nextID, request, answer>>

LockForWritersOnly(c) ==
  /\ at[c] = "lock" /\ (request[c].op = "list" \/ mu = Nobody)
  /\ mu' = IF request[c].op = "list" THEN mu ELSE c
  /\ at' = [at EXCEPT ![c] = "handle"]
  /\ UNCHANGED <<array, len, nextID, request, answer, before>>
Lock(c) ==
  /\ at[c] = "lock" /\ mu = Nobody
  /\ mu' = c
  /\ at' = [at EXCEPT ![c] = "handle"]
  /\ UNCHANGED <<array, len, nextID, request, answer, before>>

Handling(c, op) == at[c] = "handle" /\ request[c].op = op

(* The handler has its answer; then it writes it, for which the client has *)
(* to read, and only then comes the deferred Unlock.                       *)
Reply(c, told) ==
  /\ answer' = [answer EXCEPT ![c] = told]
  /\ at' = [at EXCEPT ![c] = "write"]
  /\ UNCHANGED <<mu, request, before>>
Return(c) ==
  /\ at[c] = "write" /\ request[c].reads
  /\ at' = [at EXCEPT ![c] = "done"]
  /\ mu' = IF mu = c THEN Nobody ELSE mu
  /\ UNCHANGED <<array, len, nextID, request, answer, before>>

createTodo(c) ==
  /\ Handling(c, "create") /\ request[c].body = "good"
  /\ nextID' = nextID + 1
  /\ array' = [i \in 1 .. Max({Len(array), len + 1}) |->
                 IF i = len + 1 THEN nextID' ELSE array[i]]
  /\ len' = len + 1
  /\ Reply(c, <<nextID'>>)
createTodoFailsLocked(c) ==
  /\ Handling(c, "create") /\ request[c].body = "bad"
  /\ answer' = [answer EXCEPT ![c] = BadRequest]
  /\ at' = [at EXCEPT ![c] = "done"]
  /\ UNCHANGED <<mu, array, len, nextID, request, before>>
createTodoFails(c) ==
  /\ Handling(c, "create") /\ request[c].body = "bad"
  /\ Reply(c, BadRequest)
  /\ UNCHANGED <<array, len, nextID>>

(* The encoder goes through the slice.                                     *)
listTodos(c) ==
  /\ Handling(c, "list")
  /\ IF Len(answer[c]) < len
     THEN /\ answer' = [answer EXCEPT ![c] = Append(@, array[Len(@) + 1])]
          /\ UNCHANGED <<mu, request, at, before>>
     ELSE Reply(c, answer[c])
  /\ UNCHANGED <<array, len, nextID>>

(* append(todos[:i], todos[i+1:]...) moves the rest within the array.      *)
deleteTodo(c) ==
  /\ Handling(c, "delete")
  /\ LET found == {i \in 1 .. len : array[i] = request[c].id}
     IN IF found = {} THEN UNCHANGED <<array, len>>
        ELSE /\ \E i \in found :
                  array' = [k \in DOMAIN array |->
                              IF k \in i .. len - 1 THEN array[k + 1] ELSE array[k]]
             /\ len' = len - 1
  /\ Reply(c, IF request[c].id = 0 THEN BadRequest ELSE <<>>)
  /\ UNCHANGED nextID

Serve(c) ==
  Lock(c) \/ createTodo(c) \/ createTodoFails(c) \/ listTodos(c) \/ deleteTodo(c) \/ Return(c)
TodoNext == \E c \in Conn : Arrive(c) \/ Serve(c)

-----------------------------------------------------------------------------
Told(c, op) == at[c] \in {"write", "done"} /\ request[c].op = op /\ answer[c] # BadRequest
Creator(c, id) == Told(c, "create") /\ answer[c] = <<id>>
Deletes(c, id) == request[c].op = "delete" /\ request[c].id = id

(* What the clients are told can be told as if the requests came one by    *)
(* one (mu.Lock in every handler): no ID is given twice, even after a      *)
(* delete; a list is in the order of creation, has every todo created      *)
(* before it was asked for, unless somebody has asked to delete it, and    *)
(* none whose deletion was answered before.                                *)
ClientsAreToldTheTruth ==
  \A c, d \in Conn :
    /\ c # d /\ Told(c, "create") /\ Told(d, "create") => answer[c] # answer[d]
    /\ Told(c, "list") =>
         /\ \A i, j \in DOMAIN answer[c] : i < j => answer[c][i] < answer[c][j]
         /\ \A id \in 1 .. nextID :
              LET created == id \in 1 .. nextID - Cardinality({e \in Conn : Told(e, "create")})
                             \/ \E e \in before[c] : Creator(e, id)
              IN created /\ (\A e \in Conn : Deletes(e, id) => at[e] = "new") =>
                   id \in ToSet(answer[c])
         /\ \A id \in ToSet(answer[c]) :
              /\ d \in before[c] /\ Deletes(d, id) =>
                   \E e \in Conn : Creator(e, id) /\ e \notin before[d]
              /\ id <= nextID

(* A handler that waits for the lock gets it and answers, as long as no    *)
(* body stays away and every client reads: bodies are decoded and answers  *)
(* written with mu held (main.go:37, 49, 61), so that one client that does *)
(* not finish its request, or does not read a long answer, stops all the   *)
(* others.                                                                 *)
EveryRequestIsAnswered ==
  (\A c \in Conn : request[c].body # "never" /\ request[c].reads) =>
    \A c \in Conn : at[c] = "lock" ~> at[c] = "done"
===============================================================================
