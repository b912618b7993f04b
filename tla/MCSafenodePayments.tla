----------------------- MODULE MCSafenodePayments -----------------------
EXTENDS SafenodePayments

CONSTANTS mnSelf, mnOther, payeeA, payeeB

V(m, h, p) == [by |-> m, height |-> h, payee |-> p]

\* A vote of the own safenode, one for the other payee, and one for the next height.
MCVotes == {V(mnSelf, 2, payeeA), V(mnOther, 2, payeeB), V(mnOther, 3, payeeA)}
\* One safenode alternates between two heights.
MCAlternate == {V(mnOther, 2, payeeA), V(mnOther, 2, payeeB), V(mnOther, 3, payeeA)}
==========================================================================
