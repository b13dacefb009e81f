--------------------------- MODULE MCSocketClient ---------------------------
EXTENDS SocketClient

OneContent == {0}
TwoContents == {0, 1}
Life == [status : {"Playing"}, direction : {"left"}]
RightKey == [type : {"direction"}, direction : {"right"}]
=============================================================================
