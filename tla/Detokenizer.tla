----------------------------- MODULE Detokenizer -----------------------------
(***************************************************************************)
(* From sampled tokens to text (transformers_utils/detokenizer.py) and the *)
(* conditions that end a sequence (output_processor/stop_checker.py).  A   *)
(* token stands for a short sequence of bytes; a character may take two.   *)
(* Text is a sequence of characters.                                       *)
(***************************************************************************)
EXTENDS Integers, SequencesExt, FiniteSetsExt

CONSTANTS
    None,
    Eos,            \* eos_token_id
    Special,        \* all_special_tokens
    AddedVocab,     \* get_added_vocab
    BytesOf,        \* the bytes of every token; none for an id out of bounds
    IsFast          \* tokenizer.is_fast

ASSUME DetokenizerAssumption == Eos \in Special /\ Special \subseteq DOMAIN BytesOf

\* s[k:] and s[-k:] for k > 0
From(s, k) == SubSeq(s, k + 1, Len(s))
LastOf(s, k) == From(s, Max({Len(s) - k, 0}))
DropLast(s, k) == SubSeq(s, 1, Len(s) - k)

-----------------------------------------------------------------------------
\* The tokenizer.

\* F of a value that is computed once.
Once(value, F(_)) == CHOOSE result \in {F(v) : v \in {value}} : TRUE

\* "h1" and "h2" are the halves of one character; half of one is shown as the
\* replacement character.
Decode(bytes) ==
    LET opens(k) == k \in DOMAIN bytes /\ bytes[k] = "h1"
        closes(k) == k \in DOMAIN bytes /\ bytes[k] = "h2"
        char(k) ==
            IF opens(k) THEN IF closes(k + 1) THEN <<"e">> ELSE <<"?">>
            ELSE IF closes(k) THEN IF opens(k - 1) THEN <<>> ELSE <<"?">>
            ELSE <<bytes[k]>>
    IN FlattenSeq([k \in DOMAIN bytes |-> char(k)])

\* convert_tokens_to_string drops the space the first token begins with.
ConvertTokensToString(tokens) ==
    Once(Once(FlattenSeq([k \in DOMAIN tokens |-> BytesOf[tokens[k]]]), Decode),
         LAMBDA text : IF text # <<>> /\ Head(text) = "_" THEN Tail(text) ELSE text)

\* convert_ids_to_tokens
ConvertIdsToTokens(ids, skip) == SelectSeq(ids, LAMBDA t : ~(skip /\ t \in Special))

\* _convert_tokens_to_string_with_added_encoders: a token of the added
\* vocabulary stands alone, the others are converted run by run.
WithAddedEncoders(tokens, prms) ==
    LET close(acc) == IF acc.current = <<>> THEN acc.texts
                      ELSE Append(acc.texts, ConvertTokensToString(acc.current))
        add(acc, t) ==
            IF t \in AddedVocab
            THEN [texts |-> Append(close(acc), BytesOf[t]), current |-> <<>>]
            ELSE [acc EXCEPT !.current = Append(@, t)]
        texts == close(FoldLeft(add, [texts |-> <<>>, current |-> <<>>],
                                ConvertIdsToTokens(tokens, prms.skip)))
        space(k) == IF prms.spaces /\ k > 1 THEN <<"_">> ELSE <<>>
    IN FlattenSeq([k \in DOMAIN texts |-> space(k) \o texts[k]])

TextOf(tokens, prms) ==
    IF IsFast \/ AddedVocab = {} THEN ConvertTokensToString(tokens)
    ELSE WithAddedEncoders(tokens, prms)

-----------------------------------------------------------------------------
INITIAL_INCREMENTAL_DETOKENIZATION_OFFSET == 5

\* convert_prompt_ids_to_tokens
ConvertPromptIds(ids, prms) ==
    LET offset == INITIAL_INCREMENTAL_DETOKENIZATION_OFFSET
        tokens == ConvertIdsToTokens(LastOf(ids, offset + 2), prms.skip)
    IN [tokens |-> tokens, read |-> Len(tokens), prefix |-> Max({Len(tokens) - offset, 0})]

\* Nothing is said of a text that may end within a character.
Unfinished(text) == text # <<>> /\ Last(text) = "?"

\* detokenize_incrementally
DetokenizeIncrementally(ids, prev, prefix, read, prms) ==
    LET isFirst == prev = None
        new == ConvertIdsToTokens(<<Last(ids)>>, prms.skip)
        begin == IF isFirst THEN ConvertPromptIds(Front(ids), prms)
                 ELSE [tokens |-> prev, prefix |-> prefix, read |-> read]
        go(start) ==
            LET all == start.tokens \o new
                prefixText == TextOf(SubSeq(all, start.prefix + 1, start.read), prms)
                result == [tokens |-> IF isFirst THEN all ELSE new, text |-> <<>>,
                           prefix |-> start.prefix, read |-> start.read]
            IN Once(TextOf(From(all, start.prefix), prms),
                    LAMBDA newText :
                        IF Len(newText) <= Len(prefixText) \/ Unfinished(newText) THEN result
                        ELSE [result EXCEPT !.text = From(newText, Len(prefixText)),
                                            !.prefix = start.read, !.read = Len(all)])
    IN Once(begin, go)

-----------------------------------------------------------------------------
(***************************************************************************)
(* A sequence: its output tokens, what the detokenizer keeps of it, its    *)
(* text, its status and the one that is put off (real_stop_status).        *)
(* sampled are the tokens as the model sampled them, which the code does   *)
(* not keep.                                                               *)
(***************************************************************************)
NewSequence ==
    [out |-> <<>>, sampled |-> <<>>, tokens |-> None, prefix |-> 0, read |-> 0,
     text |-> <<>>, status |-> "running", real |-> "none", reason |-> None]

IsFinished(seq) == seq.status # "running"

\* append_token_id
AppendToken(seq, t) == [seq EXCEPT !.out = Append(@, t), !.sampled = Append(@, t)]

\* decode_sequence_inplace
DecodeSequence(seq, prompt, prms) ==
    LET ids == prompt \o seq.out
        begin == IF seq.tokens = None THEN ConvertPromptIds(Front(ids), prms)
                 ELSE [tokens |-> seq.tokens, prefix |-> seq.prefix, read |-> seq.read]
        result(start, d) ==
            [newChars |-> Len(d.text),
             seq |-> [seq EXCEPT !.tokens = start.tokens \o d.tokens, !.prefix = d.prefix,
                                 !.read = d.read, !.text = @ \o d.text]]
    IN Once(begin, LAMBDA start :
           Once(DetokenizeIncrementally(ids, start.tokens, start.prefix, start.read, prms),
                LAMBDA d : result(start, d)))

\* decode_prompt_logprobs_inplace: the text of the tokens a prompt's logprobs
\* are given for.  prev_tokens and next_iter_tokens are one list after the
\* first position.
DecodePromptLogprobs(prompt, targets, prms) ==
    LET decode(acc, t, k) ==
            LET d == DetokenizeIncrementally(Append(SubSeq(Front(prompt), 1, k - 1), t),
                                             acc.prev, acc.prefix, acc.read, prms)
                isReal == t = prompt[k]
                next == IF isReal THEN d.tokens ELSE acc.next
            IN [texts |-> Append(acc.texts, d.text),
                prefix |-> IF isReal THEN d.prefix ELSE acc.prefix,
                read |-> IF isReal THEN d.read ELSE acc.read,
                prev |-> IF acc.prev = None THEN IF next = None THEN <<>> ELSE next
                         ELSE acc.prev \o (IF next = None THEN acc.prev ELSE next),
                next |-> IF acc.prev = None THEN None ELSE next]
    IN FoldLeftDomain(LAMBDA acc, k : decode(acc, targets[k], k),
                      [texts |-> <<>>, prefix |-> 0, read |-> 0, prev |-> None, next |-> None],
                      targets).texts

-----------------------------------------------------------------------------
\* text.find(s, start); a negative start counts from the end.
Find(text, s, start) ==
    LET at == {k \in Max({start, 0}) .. Len(text) - Len(s) : SubSeq(text, k + 1, k + Len(s)) = s}
    IN IF at = {} THEN -1 ELSE Min(at)

\* Where the search for a stop string begins: it may have begun before the new text.
SearchFrom(text, newChars, s) == Len(text) - newChars - Len(s)

\* _check_stop_strings
CheckStopStrings(text, newChars, prms) ==
    LET index(s) == Find(text, s, SearchFrom(text, newChars, s))
        hits == {k \in DOMAIN prms.stop : newChars > 0 /\ index(prms.stop[k]) # -1}
        s == prms.stop[Min(hits)]
        end == index(s) + (IF prms.includeStop THEN Len(s) ELSE 0)
    IN IF hits = {} THEN [found |-> None, text |-> text]
       ELSE [found |-> s, text |-> SubSeq(text, 1, end)]

\* maybe_stop_sequence
MaybeStop(seq, prompt, newChars, prms, maxLen) ==
    LET shown == IF prms.includeStop THEN seq.text ELSE DropLast(seq.text, newChars)
        match == CheckStopStrings(seq.text, newChars, prms)
    IN IF Len(seq.out) < prms.minTokens THEN seq
       ELSE IF ~prms.ignoreEos /\ Last(seq.out) = Eos
       THEN [seq EXCEPT !.status = "stop", !.text = shown]
       ELSE IF Last(seq.out) \in prms.stopTokens
       THEN [seq EXCEPT !.status = "stop", !.text = shown, !.reason = <<Last(seq.out)>>]
       ELSE IF match.found # None
       THEN [seq EXCEPT !.status = "stop", !.text = match.text, !.reason = match.found]
       ELSE IF Len(prompt) + Len(seq.out) > maxLen \/ Len(seq.out) = prms.maxTokens
       THEN [seq EXCEPT !.status = "length"]
       ELSE seq

\* _change_last_token
ChangeLastToken(seq) == [seq EXCEPT !.out = Append(Front(@), Eos)]

\* maybe_stop_sequence_for_eos: the sequence runs one step more, on eos.
MaybeStopForEos(seq, prompt, newChars, prms, maxLen) ==
    Once(MaybeStop(seq, prompt, newChars, prms, maxLen),
         LAMBDA s : IF ~IsFinished(s) THEN s
                    ELSE [ChangeLastToken(s) EXCEPT !.real = s.status, !.status = "running"])

\* Process one sampled token of a sequence (_process_sequence_group_outputs).
TakeToken(seq, t, prompt, prms, maxLen) ==
    Once(DecodeSequence(AppendToken(seq, t), prompt, prms),
         LAMBDA d : MaybeStopForEos(d.seq, prompt, d.newChars, prms, maxLen))

\* The sequence takes the status that was put off.
TakeRealStatus(seq) == [seq EXCEPT !.status = seq.real, !.real = "none"]

\* get_output_text_to_return
OutputTextToReturn(seq, prms) ==
    IF IsFinished(seq) THEN seq.text
    ELSE SubSeq(seq.text, 1, Max({Len(seq.text) - prms.buffer, 0}))

=============================================================================
