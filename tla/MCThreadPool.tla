---------------------------- MODULE MCThreadPool ----------------------------
\* Instances of ThreadPool for TLC.
EXTENDS ThreadPool

Config(mode, nthreads, cpus) == [mode |-> mode, nthreads |-> nthreads, cpus |-> cpus]

\* A single core, which leaves the pool unused, and a preference with a limit.
MCConfigs == {Config("kSpecify", 0, 1), Config("kBig", 2, 0)}

\* What tests/python/relay/test_pipeline_executor.py:399 calls to restore the
\* default: config_threadpool(-2, 0).
MCRestoreDefault == {Config("kSpecify", 0, 0)}

NoConfigs == {}
============================================================================
