------------------------- MODULE ReducerLaws_proofs -------------------------
(***************************************************************************)
(* The laws of Reduce for all events, in every state they lead to.  An     *)
(* event changes each field of the state on its own, and events of         *)
(* different topics change different fields.                               *)
(***************************************************************************)
EXTENDS ReducerLaws, TimingReducer_proofs

\* Two events of different topics, not both with positions, do not change the
\* same field.
LEMMA EffectsDisjoint ==
    ASSUME NEW e, NEW f, Independent(e, f), NEW field
    PROVE  (\A v : Effect(e, field, v) = v) \/ (\A v : Effect(f, field, v) = v)
  BY DEF Independent, Effect, Positional

LEMMA StatesReached == Spec => []IsState(state)
<1>1. Init => IsState(state)
  BY DEF Init, initial_state, IsState, Fields
<1>2. IsState(state) /\ [Apply]_state => IsState(state)'
  BY ReduceGivesState DEF Apply
<1> QED
  BY <1>1, <1>2, PTL DEF Spec

\* Events of different topics commute (reducer.py:53-85), whatever they hold.
THEOREM Commutation == Spec => []TopicsCommute
<1>1. IsState(state) => TopicsCommute
  <2> SUFFICES ASSUME IsState(state), NEW i \in DOMAIN Events, NEW j \in DOMAIN Events,
                      Independent(Events[i], Events[j])
               PROVE  Reduce(Reduce(state, Events[i]), Events[j])
                        = Reduce(Reduce(state, Events[j]), Events[i])
    BY DEF TopicsCommute
  <2> DEFINE e == Events[i]
             f == Events[j]
  <2>1. \A field : (\A v : Effect(e, field, v) = v) \/ (\A v : Effect(f, field, v) = v)
    BY EffectsDisjoint
  <2>2. \A field \in Fields :
          Effect(f, field, Effect(e, field, state[field]))
            = Effect(e, field, Effect(f, field, state[field]))
    BY <2>1
  <2> QED
    BY <2>2, ReduceTwice
<1> QED
  BY <1>1, StatesReached, PTL

\* Updating a dict twice with the same entries.
LEMMA UpdateTwice ==
    ASSUME NEW dict, NEW other
    PROVE  Update(Update(dict, other), other) = Update(dict, other)
  BY DEF Update

\* An event that comes again changes nothing, unless it is a message or a stop
\* (reducer.py:92-110, 121-173, 183-187).
THEOREM Redelivery == Spec => []RedeliveryHarmless
<1>1. IsState(state) => RedeliveryHarmless
  <2> SUFFICES ASSUME IsState(state), NEW i \in DOMAIN Events,
                      Events[i].event_type \notin Accumulating
               PROVE  Reduce(Reduce(state, Events[i]), Events[i]) = Reduce(state, Events[i])
    BY DEF RedeliveryHarmless
  <2> DEFINE e == Events[i]
  <2>1. \A field, v : Effect(e, field, Effect(e, field, v)) = Effect(e, field, v)
    BY UpdateTwice DEF Effect, Accumulating
  <2> QED
    BY <2>1, ReduceTwice, ReduceByField
<1> QED
  BY <1>1, StatesReached, PTL
=============================================================================
