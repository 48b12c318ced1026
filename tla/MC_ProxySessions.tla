-------------------------- MODULE MC_ProxySessions --------------------------
(***************************************************************************)
(* Small instances of ProxySessions.  Handlers are interchangeable;        *)
(* symmetry is used for safety only.                                       *)
(***************************************************************************)
EXTENDS ProxySessions, TLC

CallSymmetry == Permutations(Calls)

\* No grants predate av_capability_grants.
NoLegacy == {}

\* One grant of a user comes from an older release.
UserLegacy == Users \X Profiles

\* What operators grant: proxy delivery that expires inside the run, and
\* delivery that never expires but is not for the proxy.
TwoGrants == {<<"proxy", 2>>, <<"environment", Never>>}
BothGrant == {<<"both", Never>>}
=============================================================================
