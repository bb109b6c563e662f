------------------------------ MODULE MCRouter ------------------------------
(* Providers with a stream() of their own and one without; routes with the  *)
(* same provider twice, with all of them, and an unknown task type.         *)
EXTENDS Router

MCCandidate(p, m) == [provider |-> p, model |-> m]

MCRoute == {
  <<MCCandidate("local", "m1"), MCCandidate("local", "m2")>>,
  <<MCCandidate("local", "m1"), MCCandidate("google", "m1"), MCCandidate("anthropic", "m2")>>,
  <<MCCandidate("google", "m2"), MCCandidate("local", "m2")>>,
  <<>>
}

=============================================================================
