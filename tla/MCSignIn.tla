------------------------------- MODULE MCSignIn -------------------------------
(* SignIn for a few requests of one person.                                  *)
EXTENDS SignIn, TLC

Start(i, e, o) == [imported |-> i, enrolled |-> e, overdue |-> o]

\* An imported password, an authenticator, a missed deadline: one of them.
OneEach == {Start(TRUE, FALSE, FALSE), Start(FALSE, TRUE, FALSE), Start(FALSE, FALSE, TRUE)}

Symmetry == Permutations(Procs)

===============================================================================
