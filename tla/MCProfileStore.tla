--------------------------- MODULE MCProfileStore ---------------------------
(* Two ways in which commands meet at the files: one after the other, any of the changes, to any
   profile, none of which is cut short; or a request beside a login or a logout of its profile, each of
   which may be killed or fail to write. *)
EXTENDS ProfileStore, TLC

CONSTANTS p1, p2

VARIABLE together

All      == [p \in Procs |-> AllKinds]
Changes  == [p \in Procs |-> AllKinds \ {"api"}]
Meeting  == [p \in Procs |-> {"api", "pat", "sso", "logout"}]

A == INSTANCE ProfileStore WITH Kinds <- Changes, MaxActive <- 1, Faults <- {}
T == INSTANCE ProfileStore WITH Kinds <- Meeting

(* Processes, profiles and accounts are interchangeable. *)
Symmetry == Permutations(Procs) \cup Permutations(Profiles) \cup Permutations(Accts)

Issued == {cmd[p] : p \in {q \in Procs : cmd[q] # Nobody}}

(* One profile, and one request beside one change. *)
RequestMeetsChange ==
  /\ Cardinality(DOMAIN first.creds \cup {c.profile : c \in Issued}) <= 1
  /\ \A p, q \in Procs : p # q /\ cmd[p] # Nobody /\ cmd[q] # Nobody => (cmd[p].kind = "api") # (cmd[q].kind = "api")

(* Profiles of one account, of which one token at most has aged, a token that cannot be read is the only
   one, and whose identity no command has asked for yet. *)
StartsPlain ==
  /\ \A n, m \in DOMAIN creds :
       creds[n].acct = creds[m].acct /\ (n # m => "fresh" \in {creds[n].age, creds[m].age})
  /\ \A n \in DOMAIN creds : ~config.profiles[n].known /\ (creds[n].age = "unread" => DOMAIN creds = {n})

StoreInit == together \in BOOLEAN /\ Init /\ IF together THEN RequestMeetsChange ELSE StartsPlain

StoreNext ==
  /\ UNCHANGED together
  /\ \/ ~together /\ A!Next
     \/ together /\ T!Next /\ RequestMeetsChange'

StoreSpec == StoreInit /\ [][StoreNext]_<<together, vars>>
=============================================================================
