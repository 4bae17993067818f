---------------------------- MODULE MCMailFixture ----------------------------
(* MailFixture on templates of up to three parts, two boundaries and     *)
(* names of two characters, none a part of another.                        *)
EXTENDS MailFixture

MCNames == {<<"p", "p">>, <<"p", "r">>, <<"r", "r">>}

MCFillers == {"x", "é"}

\* Names of which one is part of another, as random names can be.
MCOverlappingNames == {<<"p">>, <<"p", "r">>, <<"r", "r">>}
=============================================================================
