---------------------------- MODULE MCIngestion ----------------------------
(* Instances of Ingestion for TLC: small files of rows that meet at different tiers. *)
EXTENDS Ingestion, TLC

CONSTANTS e1, e2,     \* emails
          in1, in1x,  \* one profile URL, written in two ways
          bob, kyr,   \* names; kyr is written in other letters
          co          \* a company

SomeValues == {e1, e2, in1, in1x, bob, kyr, co}
OtherLetters == {kyr}
FoundEmails == {e2}
Stripped == [v \in SomeValues |-> IF v = in1x THEN in1 ELSE v]

Mail(e) == "email" :> e
Profile(p) == "social_linkedin" :> p
Person(n) == "first_name" :> n
Company == "company_name" :> co

(* Rows that meet at the email, profile and name tiers, in files that add to two leads in
   opposite orders.                                                                    *)
MeetingFiles ==
  { <<Mail(e1) @@ Profile(in1), Mail(e2)>>,
    <<Profile(in1x) @@ Person(kyr) @@ Company, Mail(e2) @@ Person(bob) @@ Company>>,
    <<Mail(e2) @@ Person(kyr) @@ Company, Nothing, Mail(e1) @@ Person(bob) @@ Company>> }

ThreeBatches == 1 .. 3
SixIds == 1 .. 6
=============================================================================
