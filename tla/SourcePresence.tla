---------------------------- MODULE SourcePresence ----------------------------
(***************************************************************************)
(* Whether a service request is still in the source: the disappearances an *)
(* operator reviews and the reappearances a durable worker confirms.       *)
(*                                                                         *)
(* An export is a population of official numbers with an age.  When it is  *)
(* published, numbers of the accepted population that it lacks become      *)
(* proposals; accepting one puts a warning on the service request.  A      *)
(* newer export that has the number again queues a job whose worker clears *)
(* the warning, one command and one checkpoint for each number, and may    *)
(* lose its claim between any two.                                         *)
(*                                                                         *)
(* ImportRuns has the life of an import run, DurableJobs that of a job:    *)
(* here a run is published, decided and finalized, and a late worker's     *)
(* claim check leaves it without effect; "queued" is also retry_wait.      *)
(* Published files differ in other columns even if they have the same      *)
(* numbers.  A decision not to accept is "rejected" (deferral too), and a  *)
(* proposal suppressed as equivalent to one is rejected at once.           *)
(***************************************************************************)
EXTENDS ServiceRequests, SequencesExt

CONSTANTS Runs,      \* import runs of the Advanced Search family
          Ages,      \* their candidate chronology values
          Sorted,    \* the official numbers in their order
          Exports,   \* the populations of the files: how each number is observed
          MaxLost    \* bound on lost claims

(* Rows. *)
Observation == {"none", "exact", "conflict"}
Population == [age : Nat, class : {"new", "conflict", "older"}, final : BOOLEAN, rows : [Official -> Observation]]
Checkpoint == [run : Runs, age : Nat]
Token == [no : Official \cup {None}, rev : Nat, events : Nat]
Disappearance == [state : {"pending", "accepted", "rejected"}, sr : SRs, token : Token, prior : Runs]
PresenceEvent == [kind : {"disappearance_reviewed", "reappearance_confirmed"}, run : Runs]
ReappearanceJob == [state : {"queued", "running", "failed", "completed"}, cursor : Nat, hand : Nat]

ASSUME PresenceAssumption ==
    /\ Ages \subseteq Nat /\ MaxLost \in Nat
    /\ Sorted \in Seq(Official) /\ IsInjective(Sorted) /\ Range(Sorted) = Official
    /\ Exports \subseteq [Official -> Observation]
    /\ None \notin Population /\ None \notin Checkpoint /\ None \notin Disappearance
    /\ None \notin ReappearanceJob /\ None \notin Runs

VARIABLES population, \* published row-bearing import_runs: age, class, finalized, rows by number
          accepted,   \* the source checkpoint: its age, and the run that represents its population
          absence,    \* sr_source_disappearance_review proposals, by run and number
          presence,   \* sr_source_presence_events, by service request
          rjob,       \* the reappearance job of a run: state, cursor, number in hand
          answered,   \* receipts of the worker's commands: <<run, number>>
          lost        \* claims lost so far

presenceVars == <<population, accepted, absence, presence, rjob, answered, lost>>

PresenceInit ==
    /\ population = [r \in Runs |-> None] /\ accepted = None
    /\ absence = [r \in Runs |-> [n \in Official |-> None]]
    /\ presence = [s \in SRs |-> <<>>]
    /\ rjob = [r \in Runs |-> None] /\ answered = {} /\ lost = 0

-----------------------------------------------------------------------------
(* What is known of a service request. *)

get_by_official(n) == {s \in SRs : Exists(s) /\ sr[s].no = n}

WarningActive(s) == presence[s] # <<>> /\ Last(presence[s]).kind = "disappearance_reviewed"

(* The identity, its revision and the head of the presence history. *)
base_token(s) == [no |-> sr[s].no, rev |-> sr[s].rev, events |-> Len(presence[s])]

append_event(s, kind, r) == presence' = [presence EXCEPT ![s] = Append(@, [kind |-> kind, run |-> r])]

(* A number is observed in rows that say the same ("exact") or not ("conflict"). *)
Observed(r) == {n \in Official : population[r].rows[n] # "none"}

Published == {r \in Runs : population[r] # None}
_ordinary == {r \in Published : population[r].class = "new"}

(* A checkpoint that a newer identical file advanced has no rows of its own: *)
(* the run that brought its population stands for it.                        *)
_resolve_prior_population_run == IF accepted = None THEN None ELSE accepted.run

-----------------------------------------------------------------------------
(* Publication, with one proposal for each number the accepted population has *)
(* and this one lacks, of a service request without a warning.                *)

Class(age) ==
    IF accepted = None \/ age > accepted.age THEN "new"
    ELSE IF age = accepted.age THEN "conflict" ELSE "older"

build_disappearance_proposals(rows, class) ==
    LET prior == _resolve_prior_population_run
        gone == IF prior = None \/ class = "older" THEN {}
                ELSE {n \in Observed(prior) : rows[n] = "none"}
    IN [n \in Official |->
          IF n \in gone /\ \E s \in get_by_official(n) : ~WarningActive(s)
          THEN LET s == CHOOSE x \in get_by_official(n) : TRUE
               IN [state |-> "pending", sr |-> s, token |-> base_token(s), prior |-> prior]
          ELSE None]

Queued == [state |-> "queued", cursor |-> 0, hand |-> 0]

publish(r, age, rows) ==
    LET class == Class(age) IN
    /\ population[r] = None
    /\ \E n \in Official : rows[n] # "none"
    /\ population' = [population EXCEPT ![r] = [age |-> age, class |-> class, final |-> FALSE, rows |-> rows]]
    /\ absence' = [absence EXCEPT ![r] = build_disappearance_proposals(rows, class)]
    /\ rjob' = IF class = "new" THEN [rjob EXCEPT ![r] = Queued] ELSE rjob
    /\ UNCHANGED <<accepted, presence, answered, lost>>

Undecided(r) == {n \in Official : absence[r][n] # None /\ absence[r][n].state = "pending"}

(* An ordinary run advances the checkpoint.  An authorized recovery of equal   *)
(* age takes its place and has its numbers looked for; an older one does not.  *)
finalize_run(r) ==
    LET row == population[r] IN
    /\ r \in Published /\ ~row.final /\ Undecided(r) = {}
    /\ row.class = "new" => accepted = None \/ row.age > accepted.age
    /\ population' = [population EXCEPT ![r].final = TRUE]
    /\ accepted' = IF row.class # "new" /\ row.age < accepted.age THEN accepted
                   ELSE [run |-> r, age |-> row.age]
    /\ rjob' = IF row.class # "new" /\ row.age = accepted.age THEN [rjob EXCEPT ![r] = Queued] ELSE rjob
    /\ UNCHANGED <<absence, presence, answered, lost>>

(* A newer file with the accepted population. *)
record_newer_identical(age) ==
    /\ accepted # None /\ age > accepted.age
    /\ accepted' = [accepted EXCEPT !.age = age]
    /\ UNCHANGED <<population, absence, presence, rjob, answered, lost>>

-----------------------------------------------------------------------------
(* Review of a disappearance. *)

(* Altered form: only the accepted population is asked. *)
_later_presence_accepted(a, prior, n) ==
    /\ accepted # None /\ accepted.age >= population[a].age
    /\ n \in Observed(accepted.run)
    /\ accepted.age > population[a].age \/ accepted.run # prior

_later_authoritative_presence_exists(a, prior, n) ==
    \/ \E r \in _ordinary : population[r].age > population[a].age /\ n \in Observed(r)
    \/ /\ accepted # None /\ accepted.age >= population[a].age
       /\ n \in Observed(accepted.run)
       /\ accepted.age > population[a].age \/ accepted.run # prior

validate_disappearance_acceptance(r, n) ==
    LET p == absence[r][n] IN
    /\ sr[p.sr].no = n
    /\ ~_later_authoritative_presence_exists(r, p.prior, n)

apply_disappearance(r, n) ==
    LET s == absence[r][n].sr IN
    /\ n \in Undecided(r)
    /\ base_token(s) = absence[r][n].token /\ ~WarningActive(s)
    /\ validate_disappearance_acceptance(r, n)
    /\ append_event(s, "disappearance_reviewed", r)
    /\ absence' = [absence EXCEPT ![r][n].state = "accepted"]
    /\ UNCHANGED <<population, accepted, rjob, answered, lost>>

reject_disappearance(r, n) ==
    /\ n \in Undecided(r)
    /\ absence' = [absence EXCEPT ![r][n].state = "rejected"]
    /\ UNCHANGED <<population, accepted, presence, rjob, answered, lost>>

-----------------------------------------------------------------------------
(* The reappearance worker. *)

Working(r) == rjob[r] # None /\ rjob[r].state = "running"
_page(r) == {i \in DOMAIN Sorted : i > rjob[r].cursor /\ Sorted[i] \in Observed(r)}
Step(r, job) == rjob' = [rjob EXCEPT ![r] = job]

claim(r) ==
    /\ rjob[r] # None /\ rjob[r].state = "queued"
    /\ Step(r, [rjob[r] EXCEPT !.state = "running"])
    /\ UNCHANGED <<population, accepted, absence, presence, answered, lost>>

(* The claim is recovered; the next attempt starts at the stored cursor. *)
lose_claim(r) ==
    /\ Working(r) /\ lost < MaxLost
    /\ Step(r, [rjob[r] EXCEPT !.state = "queued", !.hand = 0])
    /\ lost' = lost + 1
    /\ UNCHANGED <<population, accepted, absence, presence, answered>>

(* Evidence clears a warning that it is newer than, if it did not need a       *)
(* recovery, or one of its own age if it stands for the accepted population.   *)
validate_reappearance_evidence(r, s) ==
    LET a == Last(presence[s]).run IN
    \/ population[r].age > population[a].age /\ r \in _ordinary
    \/ population[r].age = population[a].age /\ _resolve_prior_population_run = r

Warned(n) == {s \in get_by_official(n) : WarningActive(s)}

(* The command of one number: repeated, it is answered from its receipt; with *)
(* evidence that is no longer exact it raises, which ends the job.            *)
_execute_representative(r) ==
    /\ Working(r) /\ rjob[r].hand = 0 /\ _page(r) # {}
    /\ LET i == Min(_page(r))  n == Sorted[i] IN
       /\ population[r].rows[n] = "exact"
       /\ \/ /\ <<r, n>> \in answered \/ Warned(n) = {}
             /\ Step(r, [rjob[r] EXCEPT !.hand = i])
             /\ answered' = answered \cup {<<r, n>>}
             /\ UNCHANGED presence
          \/ /\ <<r, n>> \notin answered
             /\ \E s \in Warned(n) :
                   \/ /\ validate_reappearance_evidence(r, s)
                      /\ append_event(s, "reappearance_confirmed", r)
                      /\ Step(r, [rjob[r] EXCEPT !.hand = i])
                      /\ answered' = answered \cup {<<r, n>>}
                   \/ /\ ~validate_reappearance_evidence(r, s)
                      /\ Step(r, [rjob[r] EXCEPT !.state = "failed"])
                      /\ UNCHANGED <<presence, answered>>
    /\ UNCHANGED <<population, accepted, absence, lost>>

(* The cursor moves behind a number that was answered, or whose rows conflict. *)
checkpoint(r) ==
    /\ Working(r)
    /\ \E i \in _page(r) :
          /\ i = Min(_page(r))
          /\ rjob[r].hand = i \/ population[r].rows[Sorted[i]] = "conflict"
          /\ Step(r, [rjob[r] EXCEPT !.cursor = i, !.hand = 0])
    /\ UNCHANGED <<population, accepted, absence, presence, answered, lost>>

complete(r) ==
    /\ Working(r) /\ _page(r) = {}
    /\ Step(r, [rjob[r] EXCEPT !.state = "completed"])
    /\ UNCHANGED <<population, accepted, absence, presence, answered, lost>>

-----------------------------------------------------------------------------
PresenceNext ==
    \/ \E r \in Runs :
          \/ \E age \in Ages, rows \in Exports : publish(r, age, rows)
          \/ finalize_run(r)
          \/ \E n \in Official : apply_disappearance(r, n) \/ reject_disappearance(r, n)
          \/ claim(r) \/ lose_claim(r) \/ _execute_representative(r) \/ checkpoint(r) \/ complete(r)
    \/ \E age \in Ages : record_newer_identical(age)

-----------------------------------------------------------------------------
(* A warning is never left standing by evidence that should have cleared it: *)
(* no ordinary export that is newer than the one the service request was     *)
(* missing from, and that has its number, is done with its reappearance job. *)
(* The review of an old absence and the worker of a new export may come in   *)
(* any order, die and be repeated, and numbers may be given later.           *)
WarningIsCurrent ==
    \A s \in SRs : Exists(s) /\ WarningActive(s) =>
        \A r \in _ordinary :
            /\ population[r].age > population[Last(presence[s]).run].age
            /\ population[r].rows[sr[s].no] = "exact"
            => rjob[r].state # "completed"
=============================================================================
