---------------------------- MODULE MCPolicyCheck ----------------------------
(***************************************************************************)
(* Small permissions and calls that reach both sides of every limit: the   *)
(* maximum one, the minimum zero, amounts a quarter and a half either side *)
(* of them.                                                                *)
(***************************************************************************)
EXTENDS PolicyCheck

MCOperations == {"read", "drop"}

MCPermissions ==
    [mode : {READ_ONLY, EXECUTE},
     allowedOps : {None, {}, {"read"}},
     blockedOps : {{}, {"read"}},
     maxValue : {None, One, One + 2},
     minValue : {None, 0},
     maxRecords : {None, One}]

MCContexts ==
    [op : {None, "read", "drop"},
     mode : {READ_ONLY, WRITE, ADMIN},
     value : {None, Junk} \cup {-2, 0, 3, 4, 5, 6},
     records : {None, Junk} \cup {-4, 0, 2, 3, 5, 8}]
=============================================================================
