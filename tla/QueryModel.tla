----------------------------- MODULE QueryModel -----------------------------
(***************************************************************************)
(* The fields that a query model resolves from full names, such as         *)
(* author.country.name: QModel and QTable of src/libkycore/rack.cpp, and   *)
(* Record::getRField, which asks for them.                                 *)
(*                                                                         *)
(* A model is shared by the records of all sessions.  Its maps are filled  *)
(* when a name is first asked for, without a lock: a null pointer is       *)
(* inserted, and replaced when the object exists.  A thread that reads the *)
(* null pointer in between uses it, which ends the process.  Each look-up  *)
(* with its insertion is one step: what else may become of a hash map that *)
(* two threads change at once is left out.                                 *)
(***************************************************************************)
EXTENDS Integers, Sequences, FiniteSets, SequencesExt

CONSTANTS Threads,     \* each has a record of its own
          Names,       \* the full names asked for, as sequences of fields
          RefTable,    \* of a field of the master table: the table that it
                       \* references, or Plain
          Plain,
          FirstAlias,  \* where the counter of aliases stands at first
          MaxAlias,    \* bound on the counter
          Absent, Null

(* A table is its path from the master table, whose path is empty. *)
TableOf(name) == Front(name)
Tables == UNION {{SubSeq(n, 1, k) : k \in 1..(Len(n) - 1)} : n \in Names}
Targets == {RefTable[n] : n \in Names} \ {Plain}

ASSUME QueryModelAssumption ==
    /\ IsFiniteSet(Threads)
    /\ \A n \in Names : n \in Seq(ToSet(n)) /\ n # <<>>
    /\ DOMAIN RefTable = Names
    /\ \A n \in Names : Len(n) > 1 => RefTable[n] = Plain
    /\ FirstAlias \in Nat \ {0} /\ MaxAlias \in Nat /\ FirstAlias <= MaxAlias
    /\ Absent # Null /\ {Absent, Null} \cap (Nat \cup {"made"}) = {}

VARIABLES qfields,    \* QModel::qfields: Absent, Null or "made"
          qtables,    \* QTable::qtables of all tables: Absent, Null, or the alias
          num,        \* the counter of next_alias()
          qmodels,    \* Rack::qmodels: Absent, or the model of a table
          made,       \* how many models were made for each table
          rfields,    \* the names of each record's RFields, with their key's model
          call,       \* what each thread does: the name, the table it reached, and
          crashed     \* whether a null pointer was used

vars == <<qfields, qtables, num, qmodels, made, rfields, call, crashed>>

Idle == [name |-> <<>>, at |-> <<>>, pc |-> "idle"]

Init ==
    /\ qfields = [n \in Names |-> Absent]
    /\ qtables = [p \in Tables |-> Absent]
    /\ num = FirstAlias
    /\ qmodels = [r \in Targets |-> Absent] /\ made = [r \in Targets |-> 0]
    /\ rfields = [t \in Threads |-> <<>>]
    /\ call = [t \in Threads |-> Idle]
    /\ crashed = FALSE

At(t, pc) == ~crashed /\ call[t].pc = pc
Goto(t, pc) == call' = [call EXCEPT ![t].pc = pc]
Crash == crashed' = TRUE /\ UNCHANGED call

-----------------------------------------------------------------------------
(* QModel::getQField() *)
GetRField(t, n) ==
    /\ At(t, "idle") /\ n \notin DOMAIN rfields[t]
    /\ \/ /\ qfields[n] = Absent
          /\ qfields' = [qfields EXCEPT ![n] = Null]
          /\ call' = [call EXCEPT ![t] = [name |-> n, at |-> <<>>, pc |-> "walk"]]
          /\ UNCHANGED crashed
       \/ qfields[n] = Null /\ Crash /\ UNCHANGED qfields
       \/ /\ qfields[n] = "made"
          /\ call' = [call EXCEPT ![t] = [name |-> n, at |-> <<>>, pc |-> "use"]]
          /\ UNCHANGED <<qfields, crashed>>
    /\ UNCHANGED <<qtables, num, qmodels, made, rfields>>

(* QTable::getQField(): the table that the next reference leads to ... *)
Child(t) == SubSeq(call[t].name, 1, Len(call[t].at) + 1)

Walk(t) ==
    /\ At(t, "walk") /\ Child(t) # call[t].name
    /\ \/ /\ qtables[Child(t)] = Absent
          /\ qtables' = [qtables EXCEPT ![Child(t)] = Null]
          /\ Goto(t, "make") /\ UNCHANGED crashed
       \/ qtables[Child(t)] = Null /\ Crash /\ UNCHANGED qtables
       \/ /\ qtables[Child(t)] \notin {Absent, Null}
          /\ call' = [call EXCEPT ![t].at = Child(t)]
          /\ UNCHANGED <<qtables, crashed>>
    /\ UNCHANGED <<qfields, num, qmodels, made, rfields>>

MakeTable(t) ==
    /\ At(t, "make")
    /\ qtables' = [qtables EXCEPT ![Child(t)] = num]
    /\ num < MaxAlias /\ num' = num + 1
    /\ call' = [call EXCEPT ![t].at = Child(t), ![t].pc = "walk"]
    /\ UNCHANGED <<qfields, qmodels, made, rfields, crashed>>

\* Mutant: the result is returned and not stored.
MakeFieldUnstored(t) ==
    /\ At(t, "walk") /\ Child(t) = call[t].name
    /\ Goto(t, "use")
    /\ UNCHANGED <<qfields, qtables, num, qmodels, made, rfields, crashed>>

(* ... and its field, which no other thread can ask for meanwhile. *)
MakeField(t) ==
    /\ At(t, "walk") /\ Child(t) = call[t].name
    /\ qfields' = [qfields EXCEPT ![call[t].name] = "made"]
    /\ Goto(t, "use")
    /\ UNCHANGED <<qtables, num, qmodels, made, rfields, crashed>>

-----------------------------------------------------------------------------
(* Record::getRField(): the new RField; a reference of the master table    *)
(* gets a key, whose model namemap::get() finds or makes.                  *)
AddRField(t, model) ==
    /\ rfields' = [rfields EXCEPT ![t] =
          [n \in DOMAIN @ \cup {call[t].name} |-> IF n = call[t].name THEN model ELSE @[n]]]
    /\ call' = [call EXCEPT ![t] = Idle]

\* Mutant: the model is not looked up.
UseFieldAlwaysMakes(t) ==
    /\ At(t, "use")
    /\ IF RefTable[call[t].name] = Plain THEN AddRField(t, 0)
       ELSE Goto(t, "new") /\ UNCHANGED rfields
    /\ UNCHANGED <<qfields, qtables, num, qmodels, made, crashed>>

UseField(t) ==
    LET r == RefTable[call[t].name] IN
    /\ At(t, "use")
    /\ \/ r = Plain /\ AddRField(t, 0)
       \/ r # Plain /\ qmodels[r] # Absent /\ AddRField(t, qmodels[r])
       \/ r # Plain /\ qmodels[r] = Absent /\ Goto(t, "new") /\ UNCHANGED rfields
    /\ UNCHANGED <<qfields, qtables, num, qmodels, made, crashed>>

(* emplace() keeps a model that was stored meanwhile, and the caller uses  *)
(* the one that it made.                                                   *)
MakeModel(t) ==
    LET r == RefTable[call[t].name] IN
    /\ At(t, "new")
    /\ made' = [made EXCEPT ![r] = @ + 1]
    /\ qmodels' = [qmodels EXCEPT ![r] = IF @ = Absent THEN made'[r] ELSE @]
    /\ AddRField(t, made'[r])
    /\ UNCHANGED <<qfields, qtables, num, crashed>>

(* A table of another model takes an alias. *)
OtherAlias ==
    /\ ~crashed /\ num < MaxAlias /\ num' = num + 1
    /\ UNCHANGED <<qfields, qtables, qmodels, made, rfields, call, crashed>>

Next ==
    \/ \E t \in Threads :
         \/ \E n \in Names : GetRField(t, n)
         \/ Walk(t) \/ MakeTable(t) \/ MakeField(t) \/ UseField(t) \/ MakeModel(t)
    \/ OtherAlias

Spec == Init /\ [][Next]_vars

-----------------------------------------------------------------------------
(* Types; a table has one model for all records, but for those that each   *)
(* thread may have made while the first was being made.                    *)
TypeOK ==
    /\ qfields \in [Names -> {Absent, Null, "made"}]
    /\ qtables \in [Tables -> {Absent, Null} \cup (FirstAlias..MaxAlias)]
    /\ num \in FirstAlias..MaxAlias
    /\ qmodels \in [Targets -> {Absent} \cup (1..Cardinality(Threads))]
    /\ made \in [Targets -> 0..Cardinality(Threads)]
    /\ \A t \in Threads :
         /\ DOMAIN rfields[t] \subseteq Names
         /\ call[t].pc \in {"idle", "walk", "make", "use", "new"}
    /\ crashed \in BOOLEAN

(* rack.cpp:77 and rack.h:199: a null pointer stands in the maps only      *)
(* while exactly one thread is about to replace it, in whatever order the  *)
(* threads resolve names that share tables.  Without such a race no null   *)
(* pointer is ever used, and none stays behind for later.                  *)
NullIsBeingFilled ==
    /\ \A n \in Names : qfields[n] = Null =>
         Cardinality({t \in Threads : call[t].name = n /\ call[t].pc \in {"walk", "make"}}) = 1
    /\ \A p \in Tables : qtables[p] = Null =>
         Cardinality({t \in Threads : call[t].pc = "make" /\ Child(t) = p}) = 1

=============================================================================
