----------------------------- MODULE MCRequests ------------------------------
(* What the calls of Requests.cfg ask for: every operation that reaches the  *)
(* store, and of the reasons to refuse a call one of each kind.              *)
EXTENDS Requests

MCAsks ==
  [op : {"list"}, with : {None}, room : {None}]
    \cup [op : {"register"}, with : {"bob"}, room : {None}]
    \cup [op : {"create"}, with : {"ada", "bad name"}, room : {None}]
    \cup [op : {"login"}, with : Names, room : {None}]
    \cup [op : {"send"}, with : {"fits"}, room : {"here"}]
    \cup [op : {"send"}, with : {"fits"}, room : {"missing"}]
    \cup [op : {"page"}, with : {"usual", "beyond u32"}, room : {"here"}]
=============================================================================
