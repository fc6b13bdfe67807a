------------------------------ MODULE MCStreams ------------------------------
(* Answers of a start, up to three events in any order with data that is fit,
   unfit or missing, and an end. *)
EXTENDS StreamsProps, SequencesExt

E(type, data) == [type |-> type, data |-> data]

Middle == {E("text", "ok"), E("tool", "ok"), E("args", "bad"), E("args", "ok"),
           E("text", "none"), E("other", "ok")}
Ends   == {<<>>, <<E("finish", "ok"), E("stop", "none")>>, <<E("finish", "bad"), E("stop", "ok")>>,
           <<E("finish", "none"), E("other", "none")>>}

Talks == {<<E("start", d)>> \o mid \o end :
            d \in {"ok", "none"}, mid \in SeqOf(Middle, 2), end \in Ends}

G(data, cands) == [data |-> data, cands |-> cands]
Cand(content, parts, finish) == [content |-> content, parts |-> parts, finish |-> finish]

Answers ==
  {G("none", <<>>), G("bad", <<>>), G("ok", <<>>),
   G("ok", <<Cand(TRUE, <<"text">>, FALSE)>>),
   G("ok", <<Cand(TRUE, <<"call", "text">>, TRUE)>>),
   G("ok", <<Cand(TRUE, <<"text", "call">>, FALSE), Cand(FALSE, <<>>, TRUE)>>)}

MCWires == [k \in {"anthropic", "cohere", "gemini"} |->
              IF k = "gemini" THEN SeqOf(Answers, 3) \ {<<>>} ELSE Talks]
=============================================================================
