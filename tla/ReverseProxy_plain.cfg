\* The configuration of the README; two of its services do not speak TLS, and
\* no wait fails by itself.
SPECIFICATION Spec
CONSTANTS
    c1 = c1
    c2 = c2
    bmcweb = bmcweb
    dump = dump
    license = license
    Clients = {c1}
    Paths <- AnyPaths
    Config <- Example
    Services = {bmcweb, dump, license}
    Secure = {bmcweb}
    Failures = FALSE
    None = None
PROPERTIES
    NoTlsNeeded
CHECK_DEADLOCK FALSE
