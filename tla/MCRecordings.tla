---------------------------- MODULE MCRecordings ----------------------------
(***************************************************************************)
(* Runs of one prompt or two by two roles, together or one after another,  *)
(* and a viewer.  A name is made of the words of the two slugs: at most    *)
(* three, then the number of the try.  The shorter prompt's names tell the *)
(* roles apart; of the longer one's role only the first word is left,      *)
(* which both roles begin with.                                            *)
(***************************************************************************)
EXTENDS Recordings, TLC

Words ==
    "q3" :> <<"q3">> @@ "q3-spend" :> <<"q3", "spend">>
        @@ "legal-clerk" :> <<"legal", "clerk">> @@ "legal-head" :> <<"legal", "head">>

MaxWords == 3
Base(prompt, as) ==
    LET joined == Words[prompt] \o Words[as]
    IN SubSeq(joined, 1, IF Len(joined) < MaxWords THEN Len(joined) ELSE MaxWords)

MCSeries ==
    [pair \in Prompts \X Roles |->
        [n \in 1..MaxTakes |->
            IF n = 1 THEN Base(pair[1], pair[2])
            ELSE Append(Base(pair[1], pair[2]), ToString(n))]]

MCNames == UNION {{MCSeries[pair][n] : n \in 1..MaxTakes} : pair \in Prompts \X Roles}
=============================================================================
