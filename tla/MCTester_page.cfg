\* Requests that fill the read buffer exactly: Page is the size of the buffer
\* in messages, and two messages arrive together.
SPECIFICATION Spec
CONSTANTS
    Method = {"listconfigs", "pay"}
    Calls = {"wait"}
    Page = 2
    MaxConn = 1
    MaxCalls = 2
    MaxSends = 3
PROPERTY RpcCheckReturns
CHECK_DEADLOCK FALSE
