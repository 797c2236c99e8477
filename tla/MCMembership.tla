---- MODULE MCMembership ----
\* The instances of Membership that TLC checks; the .cfg files give the values.
EXTENDS Membership

CONSTANTS p, q, r, self, hb, h1, h2
====
