------------------------- MODULE MCStreamedDocument -------------------------
EXTENDS StreamedDocument

MCValues == {<<"x">>, <<"quote", "less", "ampersand">>, <<"nl", "backslash", "control">>}
MCControl == {<<"control">>}
MCAmpersand == {<<"ampersand">>}
=============================================================================
